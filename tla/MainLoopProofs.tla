--------------------------- MODULE MainLoopProofs ---------------------------
(***************************************************************************)
(* Proofs about MainLoop, for every value of its constants. First the line *)
(* editor: its invariant EditorInv, of which type correctness is a part, and*)
(* that only a key changes the line the user is editing (EditSurvives). Then*)
(* what becomes of the text the client prints: TextInv, that a prompt does *)
(* not remain uncooked (CookingIsPending), and that nothing the client said*)
(* is lost (NothingLost, ImpatientGoodbyeIsShown); OrderInv, that it is    *)
(* shown in its order, once (ShownOnceInOrder). Last, what becomes of what *)
(* the user types. A password gets to the client, and never into the history:*)
(* PasswordInv, PasswordsForgotten. Every letter is in one place, once:    *)
(* KeysInv, EveryKeyInOnePlace. And MainLoop implements LineRelay: where   *)
(* every line goes through readline and is typed from left to right, the   *)
(* user's input reaches the client once, in order and line by line, whatever*)
(* the client prints and whatever signals come.                            *)
(***************************************************************************)
EXTENDS MainLoop, SequenceTheorems, WellFoundedInduction, TLAPS

-----------------------------------------------------------------------------
(* Text *)

(* The functions on text return text, whatever the text is. *)
LEMMA LastNLInRange ==
  ASSUME NEW s \in Text
  PROVE  LastNL(s) \in 0 .. Len(s)
<1>1. CASE \E i \in 1 .. Len(s) : s[i] = NL /\ \A j \in (i + 1) .. Len(s) : s[j] # NL
  BY <1>1 DEF LastNL
<1>2. CASE ~\E i \in 1 .. Len(s) : s[i] = NL /\ \A j \in (i + 1) .. Len(s) : s[j] # NL
  BY <1>2, LenProperties DEF LastNL, Text
<1> QED BY <1>1, <1>2

LEMMA SplitIsText ==
  ASSUME NEW s \in Text
  PROVE  UpToLastNL(s) \in Text /\ AfterLastNL(s) \in Text
<1>1. LastNL(s) \in Int /\ Len(s) \in Nat /\ \A i \in 1 .. Len(s) : s[i] \in Char
  BY LastNLInRange, LenProperties, ElementOfSeq DEF Text
<1>2. \A i \in 1 .. LastNL(s) : s[i] \in Char
  BY <1>1, LastNLInRange
<1>3. \A i \in LastNL(s) + 1 .. Len(s) : s[i] \in Char
  BY <1>1, LastNLInRange
<1>4. UpToLastNL(s) \in Text
  BY <1>1, <1>2, SubSeqProperties DEF UpToLastNL, Text
<1>5. AfterLastNL(s) \in Text
  BY <1>1, <1>3, SubSeqProperties DEF AfterLastNL, Text
<1> QED BY <1>4, <1>5

LEMMA CharsOfText ==
  ASSUME NEW s \in Text
  PROVE  CharsOf(s) \subseteq Char
BY ElementOfSeq DEF CharsOf, Text

LEMMA SomeText ==
  /\ <<>> \in Text /\ Len(<<>>) = 0
  /\ \A c \in Char : <<c>> \in Text /\ Len(<<c>>) = 1
  /\ \A s \in Text : Len(s) \in Nat
  /\ \A s, t \in Text : s \o t \in Text /\ Len(s \o t) = Len(s) + Len(t)
  /\ \A s \in Text, c \in Char : Append(s, c) \in Text /\ Len(Append(s, c)) = Len(s) + 1
BY EmptySeq, ConcatProperties, LenProperties DEF Text

LEMMA InsertIsText ==
  ASSUME NEW s \in Text, NEW p \in 0 .. Len(s), NEW c \in Char
  PROVE  InsertAt(s, p, c) \in Text /\ Len(InsertAt(s, p, c)) = Len(s) + 1
<1> DEFINE before == SubSeq(s, 1, p)
           after  == SubSeq(s, p + 1, Len(s))
<1>1. Len(s) \in Nat /\ \A i \in 1 .. Len(s) : s[i] \in Char
  BY LenProperties, ElementOfSeq DEF Text
<1>2. before \in Text /\ Len(before) = p
  BY <1>1, SubSeqProperties, \A i \in 1 .. p : s[i] \in Char DEF Text
<1>3. after \in Text /\ Len(after) = Len(s) - p
  BY <1>1, SubSeqProperties, \A i \in p + 1 .. Len(s) : s[i] \in Char DEF Text
<1>4. InsertAt(s, p, c) = before \o <<c>> \o after
  BY DEF InsertAt
<1> HIDE DEF before, after
<1>5. before \o <<c>> \in Text /\ Len(before \o <<c>>) = p + 1
  BY <1>2, SomeText
<1> DEFINE front == before \o <<c>>
<1> HIDE DEF front
<1>6. front \o after \in Text /\ Len(front \o after) = Len(front) + Len(after)
  BY <1>3, <1>5, SomeText DEF front
<1>7. Len(front) + Len(after) = Len(s) + 1
  BY <1>1, <1>3, <1>5 DEF front
<1> QED BY <1>4, <1>6, <1>7 DEF front

-----------------------------------------------------------------------------
(* The functions on the state of the user interface *)

(* What EditorInv says of ui alone. *)
Coherent(u) ==
  /\ u \in UiType
  /\ u.cooked_prompt \in {NULL, u.raw_prompt}
  /\ u.rl_point \in 0 .. Len(u.line) /\ u.point \in 0 .. Len(u.input_buffer)

(* u and v differ in what the terminal shows at most. *)
SameButScreen(u, v) ==
  v = [u EXCEPT !.scrolled = v.scrolled, !.row = v.row]

LEMMA InitialUiCoherent == Coherent(InitialUi)
BY MainLoopAssumption, SomeText DEF Coherent, InitialUi, UiType

LEMMA PutCoherent ==
  ASSUME NEW u, Coherent(u), NEW s \in Text
  PROVE  Coherent(my_putstr(u, s)) /\ SameButScreen(u, my_putstr(u, s))
<1>1. u.row \o s \in Text
  BY SomeText DEF Coherent, UiType
<1>2. UpToLastNL(u.row \o s) \in Text /\ AfterLastNL(u.row \o s) \in Text
  BY <1>1, SplitIsText
<1>3. u.scrolled \o UpToLastNL(u.row \o s) \in Text
  BY <1>2, SomeText DEF Coherent, UiType
<1> QED BY <1>2, <1>3 DEF Coherent, UiType, SameButScreen, my_putstr

LEMMA MoveCoherent ==
  ASSUME NEW u, Coherent(u)
  PROVE  /\ Coherent(move_cursor_to_start_of_prompt(u))
         /\ SameButScreen(u, move_cursor_to_start_of_prompt(u))
BY SomeText DEF Coherent, UiType, SameButScreen, move_cursor_to_start_of_prompt

LEMMA CookCoherent ==
  ASSUME NEW u, Coherent(u)
  PROVE  /\ Coherent(cook_prompt_if_necessary(u))
         /\ cook_prompt_if_necessary(u) = [u EXCEPT !.cooked_prompt = u.raw_prompt]
         /\ u.raw_prompt # NULL
BY MainLoopAssumption DEF Coherent, UiType, cook_prompt_if_necessary

LEMMA MirrorCoherent ==
  ASSUME NEW u, Coherent(u)
  PROVE  /\ Coherent(mirror_slaves_echo_mode(u))
         /\ mirror_slaves_echo_mode(u) =
              [u EXCEPT !.redisplay = mirror_slaves_echo_mode(u).redisplay]
BY MainLoopAssumption, ZenonT(40) DEF Coherent, UiType, mirror_slaves_echo_mode

(* A line edit as it is in the select() loop: readline is active, nothing is *)
(* saved, and the prompt is cooked.                                          *)
Editing(u) ==
  /\ u.within_line_edit /\ u.handler /\ ~u.already_saved
  /\ u.cooked_prompt # NULL /\ ~u.prompt_is_still_uncooked

(* restore_rl_state() gives readline the saved line and cursor back.         *)
LEMMA RestoreCoherent ==
  ASSUME NEW u, Coherent(u)
  PROVE  LET r == restore_rl_state(u)
         IN  /\ Coherent(r)
             /\ r.handler /\ ~r.already_saved /\ ~r.prompt_is_still_uncooked
             /\ r.cooked_prompt # NULL
             /\ r.line = u.input_buffer /\ r.rl_point = u.point
             /\ r.within_line_edit = u.within_line_edit
             /\ r.raw_prompt = u.raw_prompt
             /\ r.we_just_got_a_signal_or_EOF = u.we_just_got_a_signal_or_EOF
<1> DEFINE m == move_cursor_to_start_of_prompt(u)
           c == cook_prompt_if_necessary(m)
           v == mirror_slaves_echo_mode(c)
<1>1. Coherent(m) /\ SameButScreen(u, m)
  BY MoveCoherent
<1>2. Coherent(c) /\ c = [m EXCEPT !.cooked_prompt = m.raw_prompt] /\ m.raw_prompt # NULL
  BY <1>1, CookCoherent
<1>3. Coherent(v) /\ v = [c EXCEPT !.redisplay = v.redisplay]
  BY <1>2, MirrorCoherent
<1> HIDE DEF m, c, v
<1>4. /\ m.input_buffer = u.input_buffer /\ m.point = u.point
      /\ m.within_line_edit = u.within_line_edit /\ m.raw_prompt = u.raw_prompt
      /\ m.we_just_got_a_signal_or_EOF = u.we_just_got_a_signal_or_EOF
  BY <1>1 DEF SameButScreen, Coherent, UiType
<1>5. /\ v.input_buffer = u.input_buffer /\ v.point = u.point
      /\ v.within_line_edit = u.within_line_edit /\ v.raw_prompt = u.raw_prompt
      /\ v.cooked_prompt = u.raw_prompt /\ v.cooked_prompt # NULL
      /\ v.we_just_got_a_signal_or_EOF = u.we_just_got_a_signal_or_EOF
  BY <1>1, <1>2, <1>3, <1>4 DEF Coherent, UiType
<1>6. v.row \o v.cooked_prompt \in Text
  BY <1>3, <1>5, SomeText DEF Coherent, UiType
<1>7. restore_rl_state(u) =
        [v EXCEPT !.row = v.row \o v.cooked_prompt, !.handler = TRUE,
                  !.line = v.input_buffer, !.rl_point = v.point,
                  !.already_saved = FALSE, !.prompt_is_still_uncooked = FALSE]
  BY DEF restore_rl_state, m, c, v
<1> QED BY <1>3, <1>5, <1>6, <1>7 DEF Coherent, UiType

LEMMA StartCoherent ==
  ASSUME NEW u, Coherent(u)
  PROVE  LET r == start_line_edit(u)
         IN  /\ Coherent(r) /\ Editing(r)
             /\ r.line = u.input_buffer /\ r.rl_point = u.point
             /\ r.raw_prompt = u.raw_prompt
             /\ r.we_just_got_a_signal_or_EOF = u.we_just_got_a_signal_or_EOF
<1> DEFINE w == [u EXCEPT !.within_line_edit = TRUE]
<1>1. Coherent(w) /\ w.within_line_edit /\ w.input_buffer = u.input_buffer
      /\ w.point = u.point /\ w.raw_prompt = u.raw_prompt
      /\ w.we_just_got_a_signal_or_EOF = u.we_just_got_a_signal_or_EOF
  BY DEF Coherent, UiType
<1> HIDE DEF w
<1>2. start_line_edit(u) = restore_rl_state(w)
  BY DEF start_line_edit, w
<1> QED BY <1>1, <1>2, RestoreCoherent DEF Editing

(* save_rl_state() takes the line and the cursor away from readline.         *)
LEMMA SaveCoherent ==
  ASSUME NEW u, Coherent(u), ~u.already_saved
  PROVE  LET s == save_rl_state(u)
         IN  /\ Coherent(s) /\ ~s.handler
             /\ s.input_buffer = u.line /\ s.point = u.rl_point
             /\ s.within_line_edit = u.within_line_edit
             /\ s.raw_prompt = u.raw_prompt /\ s.cooked_prompt = u.cooked_prompt
             /\ s.prompt_is_still_uncooked = u.prompt_is_still_uncooked
             /\ s.we_just_got_a_signal_or_EOF = u.we_just_got_a_signal_or_EOF
<1> DEFINE s == save_rl_state(u)
<1>1. s = [u EXCEPT !.input_buffer = u.line, !.point = u.rl_point, !.line = <<>>,
                    !.already_saved = TRUE, !.rl_point = 0, !.handler = FALSE]
  BY DEF save_rl_state, Coherent, UiType
<1> HIDE DEF s
<1>2. s \in UiType
  BY <1>1, SomeText DEF Coherent, UiType
<1>3. /\ s.input_buffer = u.line /\ s.point = u.rl_point
      /\ s.line = <<>> /\ s.rl_point = 0 /\ ~s.handler
      /\ s.within_line_edit = u.within_line_edit
      /\ s.raw_prompt = u.raw_prompt /\ s.cooked_prompt = u.cooked_prompt
      /\ s.prompt_is_still_uncooked = u.prompt_is_still_uncooked
      /\ s.we_just_got_a_signal_or_EOF = u.we_just_got_a_signal_or_EOF
  BY <1>1 DEF Coherent, UiType
<1>4. s.rl_point \in 0 .. Len(s.line)
  BY <1>3, SomeText
<1> QED BY <1>2, <1>3, <1>4 DEF Coherent, s

(* Printing the client's output does not touch what is edited or saved.      *)
LEMMA ShowCoherent ==
  ASSUME NEW u, Coherent(u), NEW buf \in Text
  PROVE  LET s == show_output(u, buf)
         IN  /\ Coherent(s)
             /\ s.input_buffer = u.input_buffer /\ s.point = u.point
             /\ s.handler = u.handler /\ s.already_saved = u.already_saved
             /\ s.within_line_edit = u.within_line_edit
             /\ s.we_just_got_a_signal_or_EOF = u.we_just_got_a_signal_or_EOF
<1> DEFINE leave    == leave_prompt_alone(u, buf)
           v        == IF ~leave THEN move_cursor_to_start_of_prompt(u)
                       ELSE IF forgets_prompt(u, buf) THEN [u EXCEPT !.raw_prompt = <<>>]
                       ELSE u
           complete == UpToLastNL(v.raw_prompt \o buf)
           shown    == IF ~impatient_prompt THEN complete
                       ELSE IF leave THEN buf ELSE v.raw_prompt \o buf
           w        == process_new_output(v, buf)
           put      == my_putstr(w, shown)
           Same(x)  == /\ x.input_buffer = u.input_buffer /\ x.point = u.point
                       /\ x.line = u.line /\ x.rl_point = u.rl_point
                       /\ x.handler = u.handler /\ x.already_saved = u.already_saved
                       /\ x.within_line_edit = u.within_line_edit
                       /\ x.we_just_got_a_signal_or_EOF = u.we_just_got_a_signal_or_EOF
<1>1. v \in UiType /\ Same(v)
  <2>1. CASE ~leave
    <3>1. v = move_cursor_to_start_of_prompt(u)
      BY <2>1
    <3>2. Coherent(v) /\ SameButScreen(u, v)
      BY <3>1, MoveCoherent
    <3> HIDE DEF v
    <3> QED BY <3>2 DEF Coherent, SameButScreen, UiType
  <2>2. CASE leave
    <3>1. v = [u EXCEPT !.raw_prompt = <<>>] \/ v = u
      BY <2>2
    <3> HIDE DEF v
    <3> QED BY <3>1, SomeText DEF Coherent, UiType
  <2> QED BY <2>1, <2>2
<1> HIDE DEF leave, v
<1>2. v.raw_prompt \o buf \in Text
  BY <1>1, SomeText DEF UiType
<1>3. complete \in Text /\ AfterLastNL(v.raw_prompt \o buf) \in Text
  BY <1>2, SplitIsText
<1>4. shown \in Text
  BY <1>2, <1>3
<1>5. w = [v EXCEPT !.raw_prompt = AfterLastNL(v.raw_prompt \o buf), !.cooked_prompt = NULL]
  BY DEF process_new_output
<1> HIDE DEF w, shown, complete
<1>6. Same(w) /\ w.cooked_prompt = NULL /\ w \in UiType
  BY <1>1, <1>3, <1>5 DEF UiType
<1>7. Coherent(w)
  BY <1>6 DEF Coherent
<1>8. Coherent(put) /\ SameButScreen(w, put)
  BY <1>4, <1>7, PutCoherent
<1> HIDE DEF put
<1>9. Same(put)
  BY <1>6, <1>8 DEF SameButScreen, Coherent, UiType
<1>10. show_output(u, buf) = [put EXCEPT !.prompt_is_still_uncooked = TRUE]
  BY DEF show_output, put, w, shown, complete, v, leave
<1> QED BY <1>8, <1>9, <1>10 DEF Coherent, UiType

(* What the user edits in u: EditedLine, for any state of the interface.     *)
Edited(u) == IF u.handler THEN <<u.line, u.rl_point>> ELSE <<u.input_buffer, u.point>>

(* ui between two passes of the loop.                                        *)
Ready(u) == Coherent(u) /\ IF u.within_line_edit THEN Editing(u) ELSE ~u.handler

LEMMA HandleOutputReady ==
  ASSUME NEW u, Ready(u), NEW buf \in Text
  PROVE  /\ Ready(handle_output(u, buf)) /\ Edited(handle_output(u, buf)) = Edited(u)
         /\ handle_output(u, buf).we_just_got_a_signal_or_EOF = u.we_just_got_a_signal_or_EOF
<1>1. CASE u.within_line_edit
  <2> DEFINE before == save_rl_state(u)
             after  == show_output(before, buf)
  <2>1. /\ Coherent(before) /\ before.within_line_edit
        /\ before.input_buffer = u.line /\ before.point = u.rl_point
        /\ before.we_just_got_a_signal_or_EOF = u.we_just_got_a_signal_or_EOF
    BY <1>1, SaveCoherent DEF Ready, Editing
  <2> HIDE DEF before
  <2>2. /\ Coherent(after) /\ after.within_line_edit
        /\ after.input_buffer = u.line /\ after.point = u.rl_point
        /\ after.we_just_got_a_signal_or_EOF = u.we_just_got_a_signal_or_EOF
    BY <2>1, ShowCoherent
  <2> HIDE DEF after
  <2>3. handle_output(u, buf) = restore_rl_state(after)
    BY <1>1 DEF handle_output, after, before
  <2> QED BY <1>1, <2>2, <2>3, RestoreCoherent DEF Ready, Editing, Edited
<1>2. CASE ~u.within_line_edit
  <2>1. handle_output(u, buf) = show_output(u, buf)
    BY <1>2 DEF handle_output
  <2> QED BY <1>2, <2>1, ShowCoherent DEF Ready, Edited
<1> QED BY <1>1, <1>2

LEMMA StartReady ==
  ASSUME NEW u, Coherent(u), ~u.handler
  PROVE  Ready(start_line_edit(u)) /\ Edited(start_line_edit(u)) = Edited(u)
BY StartCoherent DEF Ready, Editing, Edited

(* A change of the size of the window leaves the line alone.                 *)
LEMMA WinsizeReady ==
  ASSUME NEW u, Ready(u)
  PROVE  Ready(adapt_tty_winsize(u)) /\ Edited(adapt_tty_winsize(u)) = Edited(u)
<1> DEFINE wiped == [u EXCEPT !.row = <<>>]
<1>1. /\ Coherent(wiped) /\ wiped.handler = u.handler
      /\ wiped.input_buffer = u.input_buffer /\ wiped.point = u.point
  BY SomeText DEF Ready, Coherent, UiType
<1> HIDE DEF wiped
<1>2. CASE u.within_line_edit
  <2>1. u.cooked_prompt \in Text
    BY <1>2 DEF Ready, Editing, Coherent, UiType
  <2>2. adapt_tty_winsize(u) = [wiped EXCEPT !.row = u.cooked_prompt]
    BY <1>2 DEF adapt_tty_winsize, wiped
  <2>3. adapt_tty_winsize(u) = [u EXCEPT !.row = u.cooked_prompt]
    BY <2>2 DEF wiped, Ready, Coherent, UiType
  <2> QED BY <1>2, <2>1, <2>3 DEF Ready, Editing, Edited, Coherent, UiType
<1>3. CASE ~u.within_line_edit
  <2>1. \/ adapt_tty_winsize(u) = u
        \/ adapt_tty_winsize(u) = start_line_edit(wiped)
    BY <1>3 DEF adapt_tty_winsize, wiped
  <2>2. ~wiped.handler /\ Edited(wiped) = Edited(u)
    BY <1>1, <1>3 DEF Ready, Edited
  <2> QED BY <1>1, <2>1, <2>2, StartReady
<1> QED BY <1>2, <1>3

(* Neither does a timeout.                                                   *)
LEMMA CookingReady ==
  ASSUME NEW u, Ready(u), u.prompt_is_still_uncooked
  PROVE  Ready(cooking_time(u)) /\ Edited(cooking_time(u)) = Edited(u)
<1>1. ~u.within_line_edit /\ ~u.handler /\ Coherent(u)
  BY DEF Ready, Editing
<1>2. CASE cooking_time(u) = [u EXCEPT !.we_just_got_a_signal_or_EOF = FALSE]
  BY <1>1, <1>2 DEF Ready, Edited, Coherent, UiType
<1>3. CASE cooking_time(u) = [u EXCEPT !.prompt_is_still_uncooked = FALSE]
  BY <1>1, <1>3 DEF Ready, Edited, Coherent, UiType
<1>4. CASE cooking_time(u) = start_line_edit(u)
  BY <1>1, <1>4, StartReady
<1> QED BY <1>2, <1>3, <1>4 DEF cooking_time

(* ui while rlwrap is suspended: readline has let go of the terminal.        *)
Asleep(u) ==
  /\ Coherent(u) /\ ~u.handler
  /\ u.within_line_edit => u.cooked_prompt # NULL /\ ~u.prompt_is_still_uncooked

LEMMA SuspendAsleep ==
  ASSUME NEW u, Ready(u)
  PROVE  LET s == IF u.within_line_edit THEN save_rl_state(u) ELSE u
         IN  Asleep(s) /\ Edited(s) = Edited(u)
<1>1. CASE u.within_line_edit
  BY <1>1, SaveCoherent DEF Ready, Editing, Asleep, Edited
<1>2. CASE ~u.within_line_edit
  BY <1>2 DEF Ready, Asleep
<1> QED BY <1>1, <1>2 DEF Edited

(* A handler that runs while rlwrap is suspended notes the signal.           *)
Noted(u, b) == [u EXCEPT !.we_just_got_a_signal_or_EOF = b]

LEMMA NotedAsleep ==
  ASSUME NEW u, Asleep(u), NEW b \in BOOLEAN
  PROVE  Asleep(Noted(u, b)) /\ Edited(Noted(u, b)) = Edited(u)
BY DEF Asleep, Noted, Edited, Coherent, UiType

LEMMA WokenReady ==
  ASSUME NEW u, Asleep(u)
  PROVE  Ready(woken_up(u)) /\ Edited(woken_up(u)) = Edited(u)
<1> DEFINE fresh == [u EXCEPT !.scrolled = @ \o Append(u.row, NL), !.row = <<>>]
           v     == cook_prompt_if_necessary(move_cursor_to_start_of_prompt(fresh))
<1>1. u.scrolled \o Append(u.row, NL) \in Text
  BY SomeText DEF Asleep, Coherent, UiType, NL, Char
<1>2. /\ Coherent(fresh) /\ ~fresh.handler
      /\ fresh.within_line_edit = u.within_line_edit
      /\ fresh.input_buffer = u.input_buffer /\ fresh.point = u.point
  BY <1>1, SomeText DEF Asleep, Coherent, UiType
<1> HIDE DEF fresh
<1>3. CASE u.within_line_edit
  <2>1. woken_up(u) = restore_rl_state(fresh)
    BY <1>3 DEF woken_up, fresh
  <2> QED BY <1>2, <1>3, <2>1, RestoreCoherent DEF Asleep, Ready, Editing, Edited
<1>4. CASE ~u.within_line_edit /\ skip_rlwrap
  <2>1. woken_up(u) = fresh
    BY <1>4 DEF woken_up, fresh
  <2> QED BY <1>2, <1>4, <2>1 DEF Asleep, Ready, Edited
<1>5. CASE ~u.within_line_edit /\ ~skip_rlwrap
  <2> DEFINE m == move_cursor_to_start_of_prompt(fresh)
  <2>1. Coherent(m) /\ SameButScreen(fresh, m)
    BY <1>2, MoveCoherent
  <2>2. Coherent(v) /\ v = [m EXCEPT !.cooked_prompt = m.raw_prompt] /\ m.raw_prompt # NULL
    BY <2>1, CookCoherent
  <2> HIDE DEF m, v
  <2>3. v.cooked_prompt \in Text
    BY <2>2 DEF Coherent, UiType
  <2> DEFINE put == my_putstr(v, v.cooked_prompt)
  <2>4. Coherent(put) /\ SameButScreen(v, put)
    BY <2>2, <2>3, PutCoherent
  <2>5. woken_up(u) = put
    BY <1>5 DEF woken_up, fresh, v
  <2> HIDE DEF put
  <2>6. /\ v.handler = fresh.handler /\ v.within_line_edit = fresh.within_line_edit
        /\ v.input_buffer = fresh.input_buffer /\ v.point = fresh.point
    BY <2>1, <2>2 DEF SameButScreen, Coherent, UiType
  <2>7. /\ put.handler = v.handler /\ put.within_line_edit = v.within_line_edit
        /\ put.input_buffer = v.input_buffer /\ put.point = v.point
    BY <2>2, <2>4 DEF SameButScreen, Coherent, UiType
  <2> QED BY <1>2, <1>5, <2>4, <2>5, <2>6, <2>7 DEF Asleep, Ready, Edited
<1> QED BY <1>3, <1>4, <1>5

(* The keys: each leaves ui ready for the next one.                          *)
LEMMA LineHandlerReady ==
  ASSUME NEW u, Ready(u)
  PROVE  Ready(line_handler(u))
<1> DEFINE r == line_handler(u)
<1>1. /\ r \in UiType /\ ~r.handler /\ ~r.within_line_edit /\ r.cooked_prompt = NULL
      /\ r.line = <<>> /\ r.rl_point = 0 /\ r.input_buffer = <<>> /\ r.point = 0
  BY SomeText DEF Ready, Coherent, UiType, line_handler
<1> HIDE DEF r
<1>2. Ready(r)
  BY <1>1, SomeText DEF Ready, Coherent
<1> QED BY <1>2 DEF r

LEMMA SelfInsertReady ==
  ASSUME NEW u, Ready(u), u.within_line_edit, NEW key \in Char
  PROVE  Ready(self_insert(u, key))
<1> DEFINE line == InsertAt(u.line, u.rl_point, key)
<1>1. line \in Text /\ Len(line) = Len(u.line) + 1 /\ Len(u.line) \in Nat
  BY InsertIsText, SomeText DEF Ready, Coherent, UiType
<1> HIDE DEF line
<1>2. self_insert(u, key) = [u EXCEPT !.line = line, !.rl_point = u.rl_point + 1]
  BY DEF self_insert, line, Ready, Coherent, UiType
<1> DEFINE r == self_insert(u, key)
<1> HIDE DEF r
<1>3. u \in UiType /\ u.rl_point \in 0 .. Len(u.line) /\ u.rl_point + 1 \in Nat
  BY DEF Ready, Coherent, UiType
<1>4. /\ r \in UiType
      /\ r.line = line /\ r.rl_point = u.rl_point + 1
      /\ r.input_buffer = u.input_buffer /\ r.point = u.point
      /\ r.within_line_edit = u.within_line_edit /\ r.handler = u.handler
      /\ r.cooked_prompt = u.cooked_prompt /\ r.raw_prompt = u.raw_prompt
      /\ r.prompt_is_still_uncooked = u.prompt_is_still_uncooked
      /\ r.already_saved = u.already_saved
  BY <1>1, <1>2, <1>3 DEF UiType, r
<1>5. r.rl_point \in 0 .. Len(r.line)
  BY <1>1, <1>3, <1>4
<1>6. Ready(r)
  BY <1>4, <1>5 DEF Ready, Editing, Coherent
<1> QED BY <1>6 DEF r

LEMMA BackwardCharReady ==
  ASSUME NEW u, Ready(u), u.within_line_edit
  PROVE  Ready(backward_char(u))
BY SomeText DEF Ready, Editing, Coherent, UiType, backward_char

-----------------------------------------------------------------------------
(* The steps *)

(* EditorInv in terms of Ready and Asleep.                                   *)
LEMMA InvReady ==
  EditorInv <=> TypeOK /\ IF pc = "stopped" THEN Asleep(ui) ELSE Ready(ui)
BY DEF EditorInv, TypeOK, UiType, HandlerMatchesEdit, PromptIsCurrent, SavedOnce,
       CursorInLine, Ready, Editing, Asleep, Coherent

LEMMA InvReadyPrimed ==
  EditorInv' <=> TypeOK' /\ IF pc' = "stopped" THEN Asleep(ui') ELSE Ready(ui')
BY DEF EditorInv, TypeOK, UiType, HandlerMatchesEdit, PromptIsCurrent, SavedOnce,
       CursorInLine, Ready, Editing, Asleep, Coherent

LEMMA EditedIsEditedLine ==
  EditedLine = Edited(ui) /\ EditedLine' = Edited(ui')
BY DEF EditedLine, Edited

LEMMA InitEditorInv == Init => EditorInv
<1> SUFFICES ASSUME Init PROVE EditorInv
  OBVIOUS
<1>1. Coherent(ui)
  BY InitialUiCoherent DEF Init
<1>2. Ready(ui) /\ pc # "stopped"
  BY <1>1 DEF Init, InitialUi, Ready
<1>3. impatient_prompt \in BOOLEAN /\ ClientModes \subseteq {"echo", "noecho", "raw"}
  BY MainLoopAssumption DEF Init
<1>4. client \in [running : BOOLEAN, tty_open : BOOLEAN,
                  mode : {"echo", "noecho", "raw"}, asked : Nat]
  BY <1>3 DEF Init
<1>5. history \in Seq(Text)
  BY EmptySeq DEF Init
<1>6. TypeOK
  BY <1>1, <1>3, <1>4, <1>5, SomeText DEF Init, TypeOK, Coherent
<1> QED BY <1>2, <1>6, InvReady

LEMMA ReadPtyStep ==
  ASSUME EditorInv, ReadPty
  PROVE  EditorInv' /\ EditedLine' = EditedLine
<1>1. Ready(ui) /\ pc = "select" /\ pc' = "select" /\ TypeOK /\ pty_out \in Text
  BY InvReady DEF ReadPty, TypeOK
<1>2. Ready(ui') /\ Edited(ui') = Edited(ui)
  <2>1. CASE skip_rlwrap
    <3>1. ui' = my_putstr(ui, pty_out)
      BY <2>1 DEF ReadPty, pass_output_through
    <3>2. Coherent(ui') /\ SameButScreen(ui, ui')
      BY <1>1, <3>1, PutCoherent DEF Ready
    <3> QED BY <1>1, <3>2 DEF Ready, Editing, Edited, SameButScreen, Coherent, UiType
  <2>2. CASE ~skip_rlwrap
    BY <1>1, <2>2, HandleOutputReady DEF ReadPty
  <2> QED BY <2>1, <2>2
<1>3. TypeOK'
  <2>1. heard' \in Text /\ pty_out' \in Text
    BY <1>1, SomeText DEF ReadPty, TypeOK
  <2>2. let_go' \in SUBSET Char /\ lost' \in SUBSET Char
    <3>1. CharsOf(pty_out) \subseteq Char /\ CharsOf(ui.raw_prompt) \subseteq Char
      BY <1>1, CharsOfText DEF TypeOK, UiType
    <3> QED BY <1>1, <3>1 DEF ReadPty, TypeOK
  <2> QED BY <1>1, <1>2, <2>1, <2>2 DEF ReadPty, TypeOK, Ready, Coherent
<1> QED BY <1>1, <1>2, <1>3, InvReadyPrimed, EditedIsEditedLine

LEMMA ReadPtyFailsStep ==
  ASSUME EditorInv, ReadPtyFails
  PROVE  EditorInv' /\ EditedLine' = EditedLine
<1>1. TypeOK /\ Ready(ui) /\ pc = "select" /\ ui' = ui
  BY InvReady DEF ReadPtyFails
<1>2. TypeOK' /\ pc' # "stopped"
  BY <1>1 DEF ReadPtyFails, TypeOK, worldVars
<1> QED BY <1>1, <1>2, InvReadyPrimed, EditedIsEditedLine

(* What a key does in a line edit.                                           *)
LEMMA EditKeyReady ==
  ASSUME TypeOK, NEW u, Ready(u), u.within_line_edit, NEW key \in Char,
         edit_key(u, key)
  PROVE  /\ Ready(ui')
         /\ output_queue' \in Text /\ history' \in Seq(Text) /\ let_go' \in SUBSET Char
<1>1. u.line \in Text /\ u.raw_prompt \in Text /\ u \in UiType
  BY DEF Ready, Coherent, UiType
<1>2. CASE key = NL /\ accept_line(u)
  <2>1. Ready(ui')
    BY <1>2, LineHandlerReady DEF accept_line
  <2>2. output_queue' \in Text
    <3>1. output_queue' = output_queue \o u.line \o <<NL>>
      BY <1>2 DEF accept_line
    <3>2. output_queue \o u.line \in Text
      BY <1>1, SomeText DEF TypeOK
    <3>3. NL \in Char
      BY DEF NL, Char
    <3>4. <<NL>> \in Text
      BY <3>3, SomeText
    <3> QED BY <3>1, <3>2, <3>4, SomeText
  <2>3. history' \in Seq(Text)
    BY <1>1, <1>2 DEF accept_line, remembered, TypeOK
  <2>4. let_go' \in SUBSET Char
    BY <1>1, <1>2, CharsOfText DEF accept_line, TypeOK
  <2> QED BY <2>1, <2>2, <2>3, <2>4
<1>3. CASE send_EOF(u) /\ UNCHANGED <<history, let_go>>
  <2>1. output_queue' \in Text
    <3>1. EOFCHAR \in Char
      BY DEF EOFCHAR, Char
    <3>2. output_queue \in Text
      BY DEF TypeOK
    <3>3. Append(output_queue, EOFCHAR) \in Text
      BY <3>1, <3>2, SomeText
    <3> QED BY <1>3, <3>3 DEF send_EOF
  <2>2. Ready(ui')
    BY <1>3 DEF send_EOF, Ready, Editing, Coherent, UiType
  <2> QED BY <1>3, <2>1, <2>2 DEF TypeOK
<1>4. CASE /\ ui' \in {u, backward_char(u), self_insert(u, key)}
           /\ UNCHANGED <<output_queue, history, let_go>>
  BY <1>4, SelfInsertReady, BackwardCharReady DEF TypeOK
<1> QED BY <1>2, <1>3, <1>4 DEF edit_key

LEMMA ReadStdinStep ==
  ASSUME EditorInv, ReadStdin
  PROVE  EditorInv' /\ Len(typed') < Len(typed)
<1>1. TypeOK /\ Ready(ui) /\ pc = "select" /\ typed \in Text /\ typed # <<>>
  BY InvReady DEF ReadStdin, TypeOK
<1>2. Head(typed) \in Char /\ Tail(typed) \in Text /\ Len(Tail(typed)) = Len(typed) - 1
      /\ Len(typed) \in Nat
  BY <1>1, HeadTailProperties, LenProperties DEF Text
<1>3. typed' \in Text /\ Len(typed') < Len(typed)
  BY <1>2 DEF ReadStdin
<1>4. pc' \in {"select", "write"}
  BY DEF ReadStdin
<1>5. /\ Ready(ui')
      /\ output_queue' \in Text /\ history' \in Seq(Text) /\ let_go' \in SUBSET Char
      /\ pty_in' \in Text
  <2>1. CASE skip_rlwrap
    <3>1. pty_in' = Append(pty_in, Head(typed))
          /\ UNCHANGED <<ui, output_queue, history, let_go>>
      BY <2>1 DEF ReadStdin
    <3>2. pty_in' \in Text
      BY <1>1, <1>2, <3>1, SomeText DEF TypeOK
    <3> QED BY <1>1, <3>1, <3>2 DEF TypeOK
  <2>2. CASE ~skip_rlwrap
    <3> DEFINE u == IF ui.within_line_edit THEN ui ELSE start_line_edit(ui)
    <3>1. edit_key(u, Head(typed)) /\ pty_in' = pty_in
      BY <2>2 DEF ReadStdin
    <3>2. Ready(u) /\ u.within_line_edit
      BY <1>1, StartReady, StartCoherent DEF Ready, Editing
    <3> HIDE DEF u
    <3> QED BY <1>1, <1>2, <3>1, <3>2, EditKeyReady DEF TypeOK
  <2> QED BY <2>1, <2>2
<1>6. TypeOK'
  BY <1>1, <1>3, <1>4, <1>5 DEF ReadStdin, TypeOK, Ready, Coherent
<1> QED BY <1>3, <1>4, <1>5, <1>6, InvReadyPrimed

LEMMA WritePtyStep ==
  ASSUME EditorInv, WritePty
  PROVE  EditorInv' /\ EditedLine' = EditedLine
<1>1. TypeOK /\ Ready(ui) /\ ui' = ui /\ pc' \in {"select", "failed"}
  BY InvReady DEF WritePty, flush_output_queue
<1>2. output_queue' \in Text /\ pty_in' \in Text /\ pty_out' \in Text
  <2>1. CASE UNCHANGED <<output_queue, pty_in, pty_out>>
    BY <1>1, <2>1 DEF TypeOK
  <2>2. CASE client.tty_open
    <3> DEFINE sent(n) == SubSeq(output_queue, 1, n)
               rest(n) == SubSeq(output_queue, n + 1, Len(output_queue))
    <3>1. PICK n \in how_much :
            /\ output_queue' = rest(n)
            /\ pty_in' = pty_in \o sent(n)
            /\ pty_out' = IF client.mode = "echo" THEN pty_out \o sent(n) ELSE pty_out
      BY <2>2 DEF WritePty, flush_output_queue
    <3>2. /\ n \in 1 .. Len(output_queue) /\ Len(output_queue) \in Nat
          /\ \A i \in 1 .. Len(output_queue) : output_queue[i] \in Char
      BY <1>1, LenProperties, ElementOfSeq DEF how_much, TypeOK, Text
    <3>3. sent(n) \in Text
      BY <3>2, SubSeqProperties, \A i \in 1 .. n : output_queue[i] \in Char DEF Text
    <3>4. rest(n) \in Text
      BY <3>2, SubSeqProperties,
         \A i \in n + 1 .. Len(output_queue) : output_queue[i] \in Char DEF Text
    <3> HIDE DEF sent, rest
    <3> QED BY <1>1, <3>1, <3>3, <3>4, SomeText DEF TypeOK
  <2> QED BY <2>1, <2>2 DEF WritePty, flush_output_queue
<1>3. TypeOK'
  BY <1>1, <1>2 DEF WritePty, TypeOK
<1> QED BY <1>1, <1>3, InvReadyPrimed, EditedIsEditedLine

LEMMA TimeoutStep ==
  ASSUME EditorInv, Timeout
  PROVE  EditorInv' /\ EditedLine' = EditedLine
<1>1. TypeOK /\ Ready(ui) /\ pc' \in {"select", "exited"}
  BY InvReady DEF Timeout
<1>2. Ready(ui') /\ Edited(ui') = Edited(ui)
  BY <1>1, CookingReady DEF Timeout, TimeoutIsSet
<1>3. TypeOK'
  BY <1>1, <1>2 DEF Timeout, TypeOK, Ready, Coherent, loopVars, worldVars
<1> QED BY <1>1, <1>2, <1>3, InvReadyPrimed, EditedIsEditedLine

LEMMA SignalStep ==
  ASSUME EditorInv, PassOnSignal \/ WindowChanges
  PROVE  EditorInv' /\ EditedLine' = EditedLine
<1>1. TypeOK /\ Ready(ui) /\ pc = "select" /\ pc' = "select" /\ signalled' \in Nat
  BY InvReady DEF PassOnSignal, WindowChanges, TypeOK
<1> DEFINE noted(b) == [ui EXCEPT !.we_just_got_a_signal_or_EOF = b]
<1>2. \A b \in BOOLEAN : Ready(noted(b)) /\ Edited(noted(b)) = Edited(ui)
  BY <1>1 DEF Ready, Editing, Edited, Coherent, UiType
<1>3. \E b \in BOOLEAN : ui' = noted(b) \/ ui' = adapt_tty_winsize(noted(b))
  BY <1>1, MainLoopAssumption DEF PassOnSignal, WindowChanges, TypeOK, UiType
<1> HIDE DEF noted
<1>4. Ready(ui') /\ Edited(ui') = Edited(ui)
  BY <1>2, <1>3, WinsizeReady
<1>5. TypeOK'
  BY <1>1, <1>4 DEF PassOnSignal, WindowChanges, TypeOK, Ready, Coherent, loopVars
<1> QED BY <1>1, <1>4, <1>5, InvReadyPrimed, EditedIsEditedLine

LEMMA SuspendStep ==
  ASSUME EditorInv, Suspend
  PROVE  EditorInv' /\ EditedLine' = EditedLine
<1>1. TypeOK /\ Ready(ui) /\ pc' = "stopped" /\ signalled' \in Nat
  BY InvReady DEF Suspend, TypeOK
<1>2. Asleep(ui') /\ Edited(ui') = Edited(ui)
  BY <1>1, SuspendAsleep DEF Suspend
<1>3. TypeOK'
  BY <1>1, <1>2 DEF Suspend, TypeOK, Asleep, Coherent, loopVars
<1> QED BY <1>1, <1>2, <1>3, InvReadyPrimed, EditedIsEditedLine

(* rlwrap, woken up, notes the signal and looks at the size of the window.   *)
LEMMA ResumeWakes ==
  ASSUME EditorInv, Resume
  PROVE  \E b \in BOOLEAN : /\ Asleep(Noted(ui, b)) /\ Edited(Noted(ui, b)) = Edited(ui)
                            /\ \/ ui' = woken_up(Noted(ui, b))
                               \/ ui' = adapt_tty_winsize(woken_up(Noted(ui, b)))
<1>1. Asleep(ui) /\ ui.we_just_got_a_signal_or_EOF \in BOOLEAN /\ command_is_dead \in BOOLEAN
  BY InvReady DEF Resume, EditorInv, TypeOK, UiType
<1>2. PICK b \in BOOLEAN : b = (ui.we_just_got_a_signal_or_EOF \/ ~command_is_dead)
  BY <1>1
<1>3. \/ ui' = woken_up(Noted(ui, b))
      \/ ui' = adapt_tty_winsize(woken_up(Noted(ui, b)))
  BY <1>2 DEF Resume, Noted
<1> QED BY <1>1, <1>3, NotedAsleep

LEMMA ResumeStep ==
  ASSUME EditorInv, Resume
  PROVE  EditorInv' /\ EditedLine' = EditedLine
<1>1. TypeOK /\ pc' = "select"
  BY InvReady DEF Resume
<1>2. Ready(ui') /\ Edited(ui') = Edited(ui)
  <2>1. PICK b \in BOOLEAN : /\ Asleep(Noted(ui, b)) /\ Edited(Noted(ui, b)) = Edited(ui)
                            /\ \/ ui' = woken_up(Noted(ui, b))
                               \/ ui' = adapt_tty_winsize(woken_up(Noted(ui, b)))
    BY ResumeWakes
  <2>2. /\ Ready(woken_up(Noted(ui, b)))
        /\ Edited(woken_up(Noted(ui, b))) = Edited(Noted(ui, b))
    BY <2>1, WokenReady
  <2> QED BY <2>1, <2>2, WinsizeReady
<1>3. TypeOK'
  BY <1>1, <1>2 DEF Resume, TypeOK, Ready, Coherent, loopVars, worldVars
<1> QED BY <1>1, <1>2, <1>3, InvReadyPrimed, EditedIsEditedLine

(* The steps that leave ui alone, and in which rlwrap is not woken up.       *)
LEMMA OtherSteps ==
  ASSUME EditorInv, ChildDied \/ World
  PROVE  EditorInv' /\ EditedLine' = EditedLine
<1> USE DEF TypeOK, loopVars
<1>1. /\ TypeOK /\ ui' = ui /\ pc' \in {pc, "exited"}
      /\ IF pc = "stopped" THEN Asleep(ui) ELSE Ready(ui)
  BY InvReady DEF World, ChildDied, ClientPrints, ClientAsksPassword, ClientSetsMode,
                  ClientClosesTty, ClientExits, UserType, HangUp
<1>2. pc' = "stopped" <=> pc = "stopped"
  BY DEF World, ChildDied, ClientPrints, ClientAsksPassword, ClientSetsMode,
         ClientClosesTty, ClientExits, UserType, HangUp
<1>3. TypeOK'
  <2>1. CASE ChildDied
    BY <1>1, <2>1 DEF ChildDied, worldVars
  <2>2. CASE ClientPrints
    <3>1. pty_out' \in Text
      BY <1>1, <2>2, SomeText DEF ClientPrints, NL, Char
    <3> QED BY <1>1, <2>2, <3>1 DEF ClientPrints
  <2>3. CASE ClientAsksPassword
    <3>1. PWPROMPT \in Char /\ Len(pty_in) + 1 \in Nat
      BY <1>1, SomeText DEF PWPROMPT, Char
    <3>2. pty_out' \in Text
      BY <1>1, <2>3, <3>1, SomeText DEF ClientAsksPassword
    <3>3. client' \in [running : BOOLEAN, tty_open : BOOLEAN,
                       mode : {"echo", "noecho", "raw"}, asked : Nat]
      BY <1>1, <2>3, <3>1 DEF ClientAsksPassword
    <3> QED BY <1>1, <2>3, <3>2, <3>3 DEF ClientAsksPassword
  <2>4. CASE ClientSetsMode
    BY <1>1, <2>4, MainLoopAssumption DEF ClientSetsMode
  <2>5. CASE ClientClosesTty
    BY <1>1, <2>5 DEF ClientClosesTty
  <2>6. CASE ClientExits
    BY <1>1, <2>6 DEF ClientExits
  <2>7. CASE UserType
    <3>1. \A kind \in UserKeys : KeyFor(kind) \in Char
      BY <1>1, MainLoopAssumption, SomeText DEF KeyFor, NL, EOFCHAR, LEFT, Char
    <3>2. typed' \in Text /\ keys' \in Text
      BY <1>1, <2>7, <3>1, SomeText DEF UserType
    <3> QED BY <1>1, <2>7, <3>2 DEF UserType
  <2>8. CASE HangUp
    BY <1>1, <2>8 DEF HangUp, worldVars
  <2> QED BY <2>1, <2>2, <2>3, <2>4, <2>5, <2>6, <2>7, <2>8 DEF World
<1> QED BY <1>1, <1>2, <1>3, InvReadyPrimed, EditedIsEditedLine

LEMMA StutterStep ==
  ASSUME EditorInv, UNCHANGED vars
  PROVE  EditorInv' /\ EditedLine' = EditedLine
BY DEF vars, loopVars, worldVars, EditorInv, TypeOK, HandlerMatchesEdit, PromptIsCurrent,
       SavedOnce, CursorInLine, EditedLine

LEMMA StepEditorInv ==
  ASSUME EditorInv, [Next]_vars
  PROVE  EditorInv' /\ (EditedLine' = EditedLine \/ Len(typed') < Len(typed))
BY ReadPtyStep, ReadPtyFailsStep, ReadStdinStep, WritePtyStep, TimeoutStep, SignalStep,
   SuspendStep, ResumeStep, OtherSteps, StutterStep DEF Next, Loop, Handlers

-----------------------------------------------------------------------------
(* The invariant of the line editor: types, the handler, the prompt, what is *)
(* saved, and the cursor, whatever the client, the user and signals do.      *)
THEOREM EditorInvariant == Spec => []EditorInv
<1>1. Init => EditorInv
  BY InitEditorInv
<1>2. EditorInv /\ [Next]_vars => EditorInv'
  BY StepEditorInv
<1> QED BY <1>1, <1>2, PTL DEF Spec

(* Every variable keeps its type.                                            *)
THEOREM TypeCorrect == Spec => []TypeOK
<1>1. EditorInv => TypeOK
  BY DEF EditorInv
<1> QED BY <1>1, EditorInvariant, PTL

(* The prompt of a line edit is never stale.                                 *)
THEOREM PromptAlwaysCurrent == Spec => []PromptIsCurrent
<1>1. EditorInv => PromptIsCurrent
  BY DEF EditorInv
<1> QED BY <1>1, EditorInvariant, PTL

(* Only a key that rlwrap reads changes the line the user is editing.        *)
THEOREM EditAlwaysSurvives == Spec => EditSurvives
<1>1. EditorInv /\ [Next]_vars =>
        [typed' = typed \/ Len(typed') > Len(typed) => EditedLine' = EditedLine]_vars
  <2> SUFFICES ASSUME EditorInv, [Next]_vars,
                      typed' = typed \/ Len(typed') > Len(typed)
               PROVE  EditedLine' = EditedLine
    OBVIOUS
  <2>1. TypeOK /\ TypeOK'
    BY StepEditorInv DEF EditorInv
  <2>2. Len(typed) \in Nat /\ Len(typed') \in Nat
    BY <2>1, SomeText DEF TypeOK
  <2>3. ~(Len(typed') < Len(typed))
    BY <2>2
  <2> QED BY <2>3, StepEditorInv
<1> QED BY <1>1, EditorInvariant, PTL DEF Spec, EditSurvives

-----------------------------------------------------------------------------
(* The last newline of a text                                               *)

(* A set of numbers has a least one: < is well-founded on Nat ...           *)
LEMMA NotLess ==
  ASSUME NEW x \in Nat, NEW y \in Nat, <<y, x>> \notin OpToRel(<, Nat)
  PROVE  x <= y
BY DEF OpToRel

LEMMA LeastElement ==
  ASSUME NEW T \in SUBSET Nat, T # {}
  PROVE  \E m \in T : \A k \in T : m <= k
<1> DEFINE R == OpToRel(<, Nat)
<1>1. IsWellFoundedOn(R, Nat)
  BY NatLessThanWellFounded
<1> HIDE DEF R
<1>2. \E x \in T : \A y \in T : ~ (<<y, x>> \in R)
  BY <1>1, WFMin
<1>3. \E x \in T : \A y \in T : <<y, x>> \notin OpToRel(<, Nat)
  BY <1>2 DEF R
<1> QED BY <1>3, NotLess

(* ... and if it is bounded, a greatest one. *)
LEMMA GreatestElement ==
  ASSUME NEW n \in Nat, NEW T \in SUBSET (1 .. n), T # {}
  PROVE  \E m \in T : \A k \in T : k <= m
<1> DEFINE D == {n - k : k \in T}
<1>1. D \in SUBSET Nat
  BY \A k \in T : k \in Nat /\ k <= n
<1>2. D # {} /\ \A k \in T : n - k \in D
  OBVIOUS
<1>3. PICK d \in D : \A e \in D : d <= e
  BY <1>1, <1>2, LeastElement
<1>4. PICK m \in T : d = n - m
  BY <1>3
<1> HIDE DEF D
<1>5. \A k \in T : n - m <= n - k
  BY <1>2, <1>3, <1>4
<1> QED BY <1>4, <1>5

(* LastNL is the position of the last newline ... *)
LEMMA LastNLIs ==
  ASSUME NEW s \in Text, NEW n \in 0 .. Len(s), n = 0 \/ s[n] = NL,
         \A j \in n + 1 .. Len(s) : s[j] # NL
  PROVE  LastNL(s) = n
<1>1. Len(s) \in Nat
  BY SomeText
<1> DEFINE isLast(i) == s[i] = NL /\ \A j \in (i + 1) .. Len(s) : s[j] # NL
<1>2. \A i \in 1 .. Len(s) : isLast(i) => i = n
  BY <1>1
<1>3. LastNL(s) = IF \E i \in 1 .. Len(s) : isLast(i)
                  THEN CHOOSE i \in 1 .. Len(s) : isLast(i) ELSE 0
  BY DEF LastNL
<1>4. CASE n = 0
  <2>1. \A i \in 1 .. Len(s) : ~isLast(i)
    BY <1>1, <1>2, <1>4
  <2> HIDE DEF isLast
  <2> QED BY <1>3, <1>4, <2>1
<1>5. CASE n # 0
  <2>1. n \in 1 .. Len(s) /\ isLast(n)
    BY <1>1, <1>5
  <2> HIDE DEF isLast
  <2> QED BY <1>2, <1>3, <2>1
<1> QED BY <1>4, <1>5

(* ... and there is one if there is any newline at all. *)
LEMMA LastNLIsLast ==
  ASSUME NEW s \in Text
  PROVE  /\ LastNL(s) \in 0 .. Len(s)
         /\ HasNL(s) <=> LastNL(s) # 0
         /\ HasNL(s) => s[LastNL(s)] = NL
         /\ \A j \in LastNL(s) + 1 .. Len(s) : s[j] # NL
<1>1. Len(s) \in Nat
  BY SomeText
<1>2. CASE HasNL(s)
  <2> DEFINE T == {i \in 1 .. Len(s) : s[i] = NL}
  <2>1. T # {} /\ T \in SUBSET (1 .. Len(s))
    BY <1>2 DEF HasNL
  <2>2. PICK n \in T : \A k \in T : k <= n
    BY <1>1, <2>1, GreatestElement
  <2>3. n \in 1 .. Len(s) /\ s[n] = NL
    BY <2>2
  <2>4. \A j \in n + 1 .. Len(s) : s[j] # NL
    <3> SUFFICES ASSUME NEW j \in n + 1 .. Len(s), s[j] = NL PROVE FALSE
      OBVIOUS
    <3>1. j \in T
      BY <1>1, <2>3
    <3> QED BY <1>1, <2>2, <2>3, <3>1
  <2>5. LastNL(s) = n
    BY <1>1, <2>3, <2>4, LastNLIs
  <2> QED BY <1>1, <1>2, <2>3, <2>4, <2>5
<1>3. CASE ~HasNL(s)
  <2>1. \A j \in 1 .. Len(s) : s[j] # NL
    BY <1>3 DEF HasNL
  <2>2. LastNL(s) = 0
    BY <1>1, <2>1, LastNLIs
  <2> QED BY <1>1, <1>3, <2>1, <2>2
<1> QED BY <1>2, <1>3

(* What splitting text at its last newline gives. *)
LEMMA SplitText ==
  ASSUME NEW s \in Text
  PROVE  /\ UpToLastNL(s) \in Text /\ AfterLastNL(s) \in Text
         /\ UpToLastNL(s) \o AfterLastNL(s) = s
         /\ ~HasNL(AfterLastNL(s))
         /\ HasNL(s) => /\ UpToLastNL(s) # <<>>
                        /\ UpToLastNL(s)[Len(UpToLastNL(s))] = NL
         /\ ~HasNL(s) => UpToLastNL(s) = <<>> /\ AfterLastNL(s) = s
<1>0. PICK n : n = LastNL(s)
  OBVIOUS
<1>1. Len(s) \in Nat /\ n \in 0 .. Len(s) /\ s \in Seq(Char)
  BY <1>0, SomeText, LastNLIsLast DEF Text
<1>2. UpToLastNL(s) \in Text /\ AfterLastNL(s) \in Text
  BY SplitIsText
<1>3. UpToLastNL(s) \o AfterLastNL(s) = s
  <2>1. SubSeq(s, 1, n) \o SubSeq(s, n + 1, Len(s)) = SubSeq(s, 1, Len(s))
    <3>1. 1 \in 1 .. Len(s) + 1 /\ n \in 1 - 1 .. Len(s) /\ Len(s) \in n .. Len(s)
      BY <1>1
    <3> QED BY <1>1, <3>1, ConcatAdjacentSubSeq
  <2> QED BY <1>0, <1>1, <2>1, SubSeqFull DEF UpToLastNL, AfterLastNL
<1>4. /\ Len(UpToLastNL(s)) = n
      /\ \A i \in 1 .. n : UpToLastNL(s)[i] = s[i]
  BY <1>0, <1>1, SubSeqProperties DEF UpToLastNL
<1>5. /\ Len(AfterLastNL(s)) = Len(s) - n
      /\ \A i \in 1 .. Len(s) - n : AfterLastNL(s)[i] = s[n + i]
  BY <1>0, <1>1, SubSeqProperties DEF AfterLastNL
<1>6. ~HasNL(AfterLastNL(s))
  <2>1. \A j \in n + 1 .. Len(s) : s[j] # NL
    BY <1>0, LastNLIsLast
  <2>2. \A i \in 1 .. Len(s) - n : n + i \in n + 1 .. Len(s)
    BY <1>1
  <2> QED BY <1>5, <2>1, <2>2 DEF HasNL
<1>7. ASSUME HasNL(s)
      PROVE  UpToLastNL(s) # <<>> /\ UpToLastNL(s)[Len(UpToLastNL(s))] = NL
  <2>1. n # 0 /\ s[n] = NL
    BY <1>0, <1>7, LastNLIsLast
  <2>2. UpToLastNL(s) # <<>>
    BY <1>1, <1>4, <2>1, SomeText
  <2>3. UpToLastNL(s)[n] = s[n]
    BY <1>1, <1>4, <2>1
  <2> QED BY <1>4, <2>1, <2>2, <2>3
<1>8. ASSUME ~HasNL(s)
      PROVE  UpToLastNL(s) = <<>> /\ AfterLastNL(s) = s
  <2>1. n = 0
    BY <1>0, <1>8, LastNLIsLast
  <2>2. UpToLastNL(s) = SubSeq(s, 1, 0) /\ AfterLastNL(s) = SubSeq(s, 1, Len(s))
    BY <1>0, <2>1 DEF UpToLastNL, AfterLastNL
  <2> QED BY <1>1, <2>2, SubSeqFull, SubSeqEmpty
<1> QED BY <1>2, <1>3, <1>6, <1>7, <1>8

(* The characters of a text, and of the pieces it is put together from. *)
LEMMA CharsOfPieces ==
  /\ CharsOf(<<>>) = {}
  /\ \A c : CharsOf(<<c>>) = {c}
  /\ \A s, t \in Text : CharsOf(s \o t) = CharsOf(s) \cup CharsOf(t)
  /\ \A s \in Text : CharsOf(UpToLastNL(s)) \cup CharsOf(AfterLastNL(s)) = CharsOf(s)
  /\ \A s \in Text : NL \in CharsOf(s) <=> HasNL(s)
<1>1. CharsOf(<<>>) = {} /\ \A c : CharsOf(<<c>>) = {c}
  BY DEF CharsOf
<1>2. ASSUME NEW s \in Text, NEW t \in Text
      PROVE  CharsOf(s \o t) = CharsOf(s) \cup CharsOf(t)
  <2>1. /\ Len(s) \in Nat /\ Len(t) \in Nat /\ Len(s \o t) = Len(s) + Len(t)
        /\ \A i \in 1 .. Len(s) + Len(t) :
             (s \o t)[i] = IF i <= Len(s) THEN s[i] ELSE t[i - Len(s)]
    BY SomeText, ConcatProperties DEF Text
  <2>2. \A c \in CharsOf(s \o t) : c \in CharsOf(s) \cup CharsOf(t)
    <3> SUFFICES ASSUME NEW i \in 1 .. Len(s) + Len(t)
                 PROVE  (s \o t)[i] \in CharsOf(s) \cup CharsOf(t)
      BY <2>1 DEF CharsOf
    <3>1. CASE i <= Len(s)
      BY <2>1, <3>1 DEF CharsOf
    <3>2. CASE ~(i <= Len(s))
      <4>1. i - Len(s) \in 1 .. Len(t) /\ (s \o t)[i] = t[i - Len(s)]
        BY <2>1, <3>2
      <4> QED BY <4>1 DEF CharsOf
    <3> QED BY <3>1, <3>2
  <2>3. \A c \in CharsOf(s) : c \in CharsOf(s \o t)
    <3> SUFFICES ASSUME NEW i \in 1 .. Len(s) PROVE s[i] \in CharsOf(s \o t)
      BY DEF CharsOf
    <3>1. i \in 1 .. Len(s \o t) /\ (s \o t)[i] = s[i]
      BY <2>1
    <3> QED BY <3>1 DEF CharsOf
  <2>4. \A c \in CharsOf(t) : c \in CharsOf(s \o t)
    <3> SUFFICES ASSUME NEW i \in 1 .. Len(t) PROVE t[i] \in CharsOf(s \o t)
      BY DEF CharsOf
    <3>1. Len(s) + i \in 1 .. Len(s \o t) /\ (s \o t)[Len(s) + i] = t[i]
      BY <2>1
    <3> QED BY <3>1 DEF CharsOf
  <2> QED BY <2>2, <2>3, <2>4
<1>3. ASSUME NEW s \in Text
      PROVE  CharsOf(UpToLastNL(s)) \cup CharsOf(AfterLastNL(s)) = CharsOf(s)
  BY <1>2, SplitText
<1>4. \A s \in Text : NL \in CharsOf(s) <=> HasNL(s)
  BY DEF CharsOf, HasNL
<1> QED BY <1>1, <1>2, <1>3, <1>4

LEMMA CharsOfAppend ==
  ASSUME NEW s \in Text, NEW c \in Char
  PROVE  CharsOf(Append(s, c)) = CharsOf(s) \cup {c}
<1>1. Append(s, c) = s \o <<c>>
  BY AppendIsConcat DEF Text
<1>2. <<c>> \in Text
  BY SomeText
<1>3. CharsOf(s \o <<c>>) = CharsOf(s) \cup CharsOf(<<c>>)
  BY <1>2, CharsOfPieces
<1> QED BY <1>1, <1>3, CharsOfPieces

(* Where the last line of a text begins, when more is written after it. *)
LEMMA SplitConcat ==
  ASSUME NEW s \in Text, NEW t \in Text
  PROVE  /\ HasNL(t) => /\ UpToLastNL(s \o t) = s \o UpToLastNL(t)
                        /\ AfterLastNL(s \o t) = AfterLastNL(t)
         /\ ~HasNL(t) => /\ UpToLastNL(s \o t) = UpToLastNL(s)
                         /\ AfterLastNL(s \o t) = AfterLastNL(s) \o t
<1>1. /\ Len(s) \in Nat /\ Len(t) \in Nat /\ Len(s \o t) = Len(s) + Len(t)
      /\ s \o t \in Text
      /\ \A i \in 1 .. Len(s) + Len(t) :
           (s \o t)[i] = IF i <= Len(s) THEN s[i] ELSE t[i - Len(s)]
  BY SomeText, ConcatProperties DEF Text
<1>2. PICK n : n = LastNL(s)
  OBVIOUS
<1>3. PICK m : m = LastNL(t)
  OBVIOUS
<1>4. /\ n \in 0 .. Len(s) /\ m \in 0 .. Len(t)
      /\ (n = 0 \/ s[n] = NL) /\ (m = 0 \/ t[m] = NL)
      /\ \A j \in n + 1 .. Len(s) : s[j] # NL
      /\ \A j \in m + 1 .. Len(t) : t[j] # NL
      /\ HasNL(t) <=> m # 0
  BY <1>2, <1>3, LastNLIsLast
<1>5. s \in Seq(Char) /\ t \in Seq(Char)
  BY DEF Text
<1>6. ASSUME HasNL(t)
      PROVE  /\ UpToLastNL(s \o t) = s \o UpToLastNL(t)
             /\ AfterLastNL(s \o t) = AfterLastNL(t)
  <2>1. m \in 1 .. Len(t) /\ t[m] = NL
    BY <1>1, <1>4, <1>6
  <2>2. /\ Len(s) + m \in 0 .. Len(s \o t) /\ (s \o t)[Len(s) + m] = NL
        /\ \A j \in Len(s) + m + 1 .. Len(s \o t) : (s \o t)[j] # NL
    <3>1. \A j \in Len(s) + m + 1 .. Len(s \o t) :
            /\ j - Len(s) \in m + 1 .. Len(t)
            /\ (s \o t)[j] = t[j - Len(s)]
      BY <1>1, <2>1
    <3>2. Len(s) + m \in 1 .. Len(s) + Len(t) /\ ~(Len(s) + m <= Len(s))
          /\ Len(s) + m - Len(s) = m
      BY <1>1, <2>1
    <3> QED BY <1>1, <1>4, <2>1, <3>1, <3>2
  <2>3. LastNL(s \o t) = Len(s) + m
    BY <1>1, <2>2, LastNLIs
  <2>4. UpToLastNL(s \o t) = s \o UpToLastNL(t)
    <3>1. /\ UpToLastNL(s \o t) \in Seq(Char) /\ UpToLastNL(t) \in Seq(Char)
      BY <1>1, SplitIsText DEF Text
    <3>2. /\ Len(UpToLastNL(s \o t)) = Len(s) + m
          /\ \A i \in 1 .. Len(s) + m : UpToLastNL(s \o t)[i] = (s \o t)[i]
      <4>1. \A i \in 1 .. Len(s) + m : (s \o t)[i] \in Char
        BY <1>1, <2>1, ElementOfSeq DEF Text
      <4> QED BY <1>1, <2>1, <2>3, <4>1, SubSeqProperties DEF UpToLastNL
    <3>3. /\ Len(UpToLastNL(t)) = m
          /\ \A i \in 1 .. m : UpToLastNL(t)[i] = t[i]
      <4>1. \A i \in 1 .. m : t[i] \in Char
        BY <1>1, <1>5, <2>1, ElementOfSeq
      <4> QED BY <1>1, <1>3, <2>1, <4>1, SubSeqProperties DEF UpToLastNL
    <3>4. /\ s \o UpToLastNL(t) \in Seq(Char)
          /\ Len(s \o UpToLastNL(t)) = Len(s) + m
          /\ \A i \in 1 .. Len(s) + m : (s \o UpToLastNL(t))[i] =
               IF i <= Len(s) THEN s[i] ELSE UpToLastNL(t)[i - Len(s)]
      BY <1>5, <3>1, <3>3, ConcatProperties
    <3>5. \A i \in 1 .. Len(s) + m : UpToLastNL(s \o t)[i] = (s \o UpToLastNL(t))[i]
      <4> SUFFICES ASSUME NEW i \in 1 .. Len(s) + m
                   PROVE  UpToLastNL(s \o t)[i] = (s \o UpToLastNL(t))[i]
        OBVIOUS
      <4>1. CASE i <= Len(s)
        BY <1>1, <2>1, <3>2, <3>4, <4>1
      <4>2. CASE ~(i <= Len(s))
        <5>1. i - Len(s) \in 1 .. m /\ i \in 1 .. Len(s) + Len(t)
          BY <1>1, <2>1, <4>2
        <5> QED BY <1>1, <3>2, <3>3, <3>4, <4>2, <5>1
      <4> QED BY <4>1, <4>2
    <3> QED BY <3>1, <3>2, <3>4, <3>5, SeqEqual
  <2>5. AfterLastNL(s \o t) = AfterLastNL(t)
    <3>1. /\ AfterLastNL(s \o t) \in Seq(Char) /\ AfterLastNL(t) \in Seq(Char)
      BY <1>1, SplitIsText DEF Text
    <3>2. /\ Len(AfterLastNL(s \o t)) = Len(t) - m
          /\ \A i \in 1 .. Len(t) - m : AfterLastNL(s \o t)[i] = (s \o t)[Len(s) + m + i]
      <4>1. \A i \in Len(s) + m + 1 .. Len(s) + Len(t) : (s \o t)[i] \in Char
        BY <1>1, <2>1, ElementOfSeq DEF Text
      <4> QED BY <1>1, <2>1, <2>3, <4>1, SubSeqProperties DEF AfterLastNL
    <3>3. /\ Len(AfterLastNL(t)) = Len(t) - m
          /\ \A i \in 1 .. Len(t) - m : AfterLastNL(t)[i] = t[m + i]
      <4>1. \A i \in m + 1 .. Len(t) : t[i] \in Char
        BY <1>1, <1>5, <2>1, ElementOfSeq
      <4> QED BY <1>1, <1>3, <2>1, <4>1, SubSeqProperties DEF AfterLastNL
    <3>4. \A i \in 1 .. Len(t) - m : (s \o t)[Len(s) + m + i] = t[m + i]
      <4> SUFFICES ASSUME NEW i \in 1 .. Len(t) - m
                   PROVE  (s \o t)[Len(s) + m + i] = t[m + i]
        OBVIOUS
      <4>1. PICK j : j = Len(s) + m + i
        OBVIOUS
      <4>2. j \in 1 .. Len(s) + Len(t) /\ ~(j <= Len(s)) /\ j - Len(s) = m + i
        BY <1>1, <2>1, <4>1
      <4>3. (s \o t)[j] = t[m + i]
        BY <1>1, <4>2
      <4> QED BY <4>1, <4>3
    <3> QED BY <3>1, <3>2, <3>3, <3>4, SeqEqual
  <2> QED BY <2>4, <2>5
<1>7. ASSUME ~HasNL(t)
      PROVE  /\ UpToLastNL(s \o t) = UpToLastNL(s)
             /\ AfterLastNL(s \o t) = AfterLastNL(s) \o t
  <2>1. \A j \in 1 .. Len(t) : t[j] # NL
    BY <1>7 DEF HasNL
  <2>2. /\ n \in 0 .. Len(s \o t) /\ (n = 0 \/ (s \o t)[n] = NL)
        /\ \A j \in n + 1 .. Len(s \o t) : (s \o t)[j] # NL
    <3>1. ASSUME NEW j \in n + 1 .. Len(s \o t) PROVE (s \o t)[j] # NL
      <4>1. CASE j <= Len(s)
        BY <1>1, <1>4, <4>1
      <4>2. CASE ~(j <= Len(s))
        <5>1. j - Len(s) \in 1 .. Len(t) /\ (s \o t)[j] = t[j - Len(s)]
          BY <1>1, <1>4, <4>2
        <5> QED BY <2>1, <5>1
      <4> QED BY <4>1, <4>2
    <3> QED BY <1>1, <1>4, <3>1
  <2>3. LastNL(s \o t) = n
    BY <1>1, <2>2, LastNLIs
  <2>4. /\ UpToLastNL(s \o t) \in Seq(Char) /\ AfterLastNL(s \o t) \in Seq(Char)
        /\ UpToLastNL(s) \in Seq(Char) /\ AfterLastNL(s) \in Seq(Char)
    BY <1>1, SplitIsText DEF Text
  <2>5. /\ \A i \in 1 .. n : (s \o t)[i] \in Char /\ s[i] \in Char
        /\ \A i \in n + 1 .. Len(s) + Len(t) : (s \o t)[i] \in Char
        /\ \A i \in n + 1 .. Len(s) : s[i] \in Char
    BY <1>1, <1>4, <1>5, ElementOfSeq DEF Text
  <2>6. /\ Len(UpToLastNL(s \o t)) = n
        /\ \A i \in 1 .. n : UpToLastNL(s \o t)[i] = (s \o t)[i]
    BY <1>1, <1>4, <2>3, <2>5, SubSeqProperties DEF UpToLastNL
  <2>7. /\ Len(UpToLastNL(s)) = n
        /\ \A i \in 1 .. n : UpToLastNL(s)[i] = s[i]
    BY <1>1, <1>2, <1>4, <2>5, SubSeqProperties DEF UpToLastNL
  <2>8. UpToLastNL(s \o t) = UpToLastNL(s)
    <3>1. \A i \in 1 .. n : (s \o t)[i] = s[i]
      BY <1>1, <1>4
    <3> QED BY <2>4, <2>6, <2>7, <3>1, SeqEqual
  <2>9. UpToLastNL(s) \o (AfterLastNL(s) \o t) = UpToLastNL(s) \o AfterLastNL(s \o t)
    <3>1. /\ UpToLastNL(s) \o AfterLastNL(s) = s
          /\ UpToLastNL(s \o t) \o AfterLastNL(s \o t) = s \o t
      BY <1>1, SplitText
    <3>2. (UpToLastNL(s) \o AfterLastNL(s)) \o t = UpToLastNL(s) \o (AfterLastNL(s) \o t)
      BY <1>5, <2>4, ConcatAssociative, SMTT(40)
    <3> QED BY <2>8, <3>1, <3>2
  <2>10. AfterLastNL(s) \o t \in Seq(Char)
    BY <1>5, <2>4, ConcatProperties
  <2> QED BY <2>4, <2>8, <2>9, <2>10, ConcatSimplifications
<1> QED BY <1>6, <1>7

-----------------------------------------------------------------------------
(* What was read from the client, on the terminal                           *)

(* The client never uses raw mode, or -a is given: no direct mode.           *)
NeverDirect == always_readline \/ "raw" \notin ClientModes

(* The characters cs are on a finished line, or in the prompt.               *)
Kept(u, cs) == cs \subseteq CharsOf(u.scrolled) \cup CharsOf(u.raw_prompt)

(* The prompt is on the terminal, at least while readline is active, unless  *)
(* patient mode holds it back. (In direct mode the flag is reset without     *)
(* cooking anything.)                                                        *)
PromptVisible(u) ==
  impatient_prompt \/ u.handler \/ (NeverDirect /\ ~u.prompt_is_still_uncooked) =>
    CharsOf(u.raw_prompt) \subseteq CharsOf(u.scrolled) \cup CharsOf(u.row)

CookingIsDue(u) ==
  NeverDirect /\ u.raw_prompt # <<>> /\ u.cooked_prompt = NULL => u.prompt_is_still_uncooked

Tells(u, cs) ==
  ~HasNL(u.raw_prompt) /\ Kept(u, cs) /\ PromptVisible(u) /\ CookingIsDue(u)

(* Writing at the cursor adds to what is on the terminal, and finished lines *)
(* stay.                                                                     *)
LEMMA PutChars ==
  ASSUME NEW u, Coherent(u), NEW s \in Text
  PROVE  LET p == my_putstr(u, s)
         IN  /\ p.scrolled = u.scrolled \o UpToLastNL(u.row \o s)
             /\ p.row = AfterLastNL(u.row \o s)
             /\ CharsOf(u.scrolled) \subseteq CharsOf(p.scrolled)
             /\ CharsOf(p.scrolled) \cup CharsOf(p.row) =
                  CharsOf(u.scrolled) \cup CharsOf(u.row) \cup CharsOf(s)
<1> DEFINE p     == my_putstr(u, s)
           whole == u.row \o s
<1>1. u.row \in Text /\ u.scrolled \in Text /\ u \in UiType
  BY DEF Coherent, UiType
<1>2. whole \in Text /\ CharsOf(whole) = CharsOf(u.row) \cup CharsOf(s)
  BY <1>1, SomeText, CharsOfPieces
<1>3. p.scrolled = u.scrolled \o UpToLastNL(whole) /\ p.row = AfterLastNL(whole)
  BY <1>1 DEF my_putstr, UiType
<1> HIDE DEF p, whole
<1>4. CharsOf(p.scrolled) = CharsOf(u.scrolled) \cup CharsOf(UpToLastNL(whole))
  BY <1>1, <1>2, <1>3, SplitIsText, CharsOfPieces
<1>5. CharsOf(UpToLastNL(whole)) \cup CharsOf(p.row) = CharsOf(whole)
  BY <1>2, <1>3, CharsOfPieces
<1> QED BY <1>2, <1>3, <1>4, <1>5 DEF p, whole

LEMMA PutTells ==
  ASSUME NEW u, Coherent(u), NEW s \in Text, NEW cs, Tells(u, cs)
  PROVE  Tells(my_putstr(u, s), cs)
<1> DEFINE p == my_putstr(u, s)
<1>1. /\ p.raw_prompt = u.raw_prompt /\ p.cooked_prompt = u.cooked_prompt
      /\ p.prompt_is_still_uncooked = u.prompt_is_still_uncooked /\ p.handler = u.handler
  BY DEF Coherent, UiType, my_putstr
<1>2. /\ CharsOf(u.scrolled) \subseteq CharsOf(p.scrolled)
      /\ CharsOf(u.scrolled) \cup CharsOf(u.row) \subseteq CharsOf(p.scrolled) \cup CharsOf(p.row)
  BY PutChars
<1> HIDE DEF p
<1>3. Kept(p, cs)
  BY <1>1, <1>2 DEF Tells, Kept
<1>4. PromptVisible(p)
  BY <1>1, <1>2 DEF Tells, PromptVisible
<1>5. ~HasNL(p.raw_prompt) /\ CookingIsDue(p)
  BY <1>1 DEF Tells, CookingIsDue
<1>6. Tells(p, cs)
  BY <1>3, <1>4, <1>5 DEF Tells
<1> QED BY <1>6 DEF p

(* restore_rl_state() paints the prompt on a row that may have been erased.  *)
LEMMA RestoreTells ==
  ASSUME NEW u, Coherent(u), NEW cs, ~HasNL(u.raw_prompt), Kept(u, cs)
  PROVE  Tells(restore_rl_state(u), cs)
<1> DEFINE m == move_cursor_to_start_of_prompt(u)
           c == cook_prompt_if_necessary(m)
           v == mirror_slaves_echo_mode(c)
           r == restore_rl_state(u)
<1>1. Coherent(m) /\ SameButScreen(u, m) /\ m.scrolled = u.scrolled
  BY MoveCoherent DEF move_cursor_to_start_of_prompt, Coherent, UiType
<1>2. Coherent(c) /\ c = [m EXCEPT !.cooked_prompt = m.raw_prompt]
  BY <1>1, CookCoherent
<1>3. Coherent(v) /\ v = [c EXCEPT !.redisplay = v.redisplay]
  BY <1>2, MirrorCoherent
<1>4. r = [v EXCEPT !.row = v.row \o v.cooked_prompt, !.handler = TRUE,
                  !.line = v.input_buffer, !.rl_point = v.point,
                  !.already_saved = FALSE, !.prompt_is_still_uncooked = FALSE]
  BY DEF restore_rl_state
<1> HIDE DEF m, c, v
<1>5. v.cooked_prompt = u.raw_prompt /\ v.scrolled = u.scrolled /\ v.row \in Text
  BY <1>1, <1>2, <1>3 DEF SameButScreen, Coherent, UiType
<1>6. r.row = v.row \o u.raw_prompt /\ r.scrolled = u.scrolled
  BY <1>3, <1>4, <1>5 DEF Coherent, UiType
<1>7. r.raw_prompt = u.raw_prompt /\ r.cooked_prompt # NULL
  BY RestoreCoherent
<1> HIDE DEF r
<1>8. u.raw_prompt \in Text
  BY DEF Coherent, UiType
<1>9. CharsOf(u.raw_prompt) \subseteq CharsOf(r.row)
  BY <1>5, <1>6, <1>8, CharsOfPieces
<1>10. Tells(r, cs)
  BY <1>6, <1>7, <1>9 DEF Tells, Kept, PromptVisible, CookingIsDue
<1> QED BY <1>10 DEF r

LEMMA StartTells ==
  ASSUME NEW u, Coherent(u), NEW cs, ~HasNL(u.raw_prompt), Kept(u, cs)
  PROVE  Tells(start_line_edit(u), cs)
<1> DEFINE w == [u EXCEPT !.within_line_edit = TRUE]
<1>1. Coherent(w) /\ w.raw_prompt = u.raw_prompt /\ w.scrolled = u.scrolled
  BY DEF Coherent, UiType
<1>2. start_line_edit(u) = restore_rl_state(w)
  BY DEF start_line_edit
<1> HIDE DEF w
<1>3. Kept(w, cs)
  BY <1>1 DEF Kept
<1> QED BY <1>1, <1>2, <1>3, RestoreTells

(* What is on the terminal after a piece of output, and what of it belongs   *)
(* to the prompt.                                                            *)
LEMMA ShowSplits ==
  ASSUME NEW u, Coherent(u), NEW buf \in Text
  PROVE  LET leave    == leave_prompt_alone(u, buf)
             raw      == IF forgets_prompt(u, buf) THEN <<>> ELSE u.raw_prompt
             row      == IF leave THEN u.row ELSE <<>>
             shown    == IF ~impatient_prompt THEN UpToLastNL(raw \o buf)
                         ELSE IF leave THEN buf ELSE raw \o buf
             r        == show_output(u, buf)
         IN  /\ raw \in Text /\ row \in Text /\ raw \o buf \in Text /\ shown \in Text
             /\ r.scrolled = u.scrolled \o UpToLastNL(row \o shown)
             /\ r.row = AfterLastNL(row \o shown)
             /\ r.raw_prompt = AfterLastNL(raw \o buf)
             /\ r.cooked_prompt = NULL /\ r.prompt_is_still_uncooked
<1> DEFINE leave    == leave_prompt_alone(u, buf)
           forgets  == forgets_prompt(u, buf)
           raw      == IF forgets THEN <<>> ELSE u.raw_prompt
           row      == IF leave THEN u.row ELSE <<>>
           v        == IF ~leave THEN move_cursor_to_start_of_prompt(u)
                       ELSE IF forgets THEN [u EXCEPT !.raw_prompt = <<>>]
                       ELSE u
           complete == UpToLastNL(v.raw_prompt \o buf)
           shown    == IF ~impatient_prompt THEN complete
                       ELSE IF leave THEN buf ELSE v.raw_prompt \o buf
           w        == process_new_output(v, buf)
           put      == my_putstr(w, shown)
           r        == show_output(u, buf)
<1>1. u \in UiType /\ u.raw_prompt \in Text /\ u.row \in Text /\ u.scrolled \in Text
  BY DEF Coherent, UiType
<1>2. /\ v \in UiType /\ v.scrolled = u.scrolled /\ v.raw_prompt = raw /\ v.row = row
  <2>1. CASE ~leave
    <3>1. v = [u EXCEPT !.row = <<>>] /\ ~forgets
      BY <2>1 DEF move_cursor_to_start_of_prompt, leave_prompt_alone, forgets_prompt
    <3> HIDE DEF v, leave, forgets
    <3> QED BY <1>1, <2>1, <3>1, SomeText DEF UiType
  <2>2. CASE leave
    <3>1. v = IF forgets THEN [u EXCEPT !.raw_prompt = <<>>] ELSE u
      BY <2>2
    <3> HIDE DEF v, leave, forgets
    <3> QED BY <1>1, <2>2, <3>1, SomeText DEF UiType
  <2> QED BY <2>1, <2>2
<1>3. r = [put EXCEPT !.prompt_is_still_uncooked = TRUE]
  BY DEF show_output
<1>4. w = [v EXCEPT !.raw_prompt = AfterLastNL(v.raw_prompt \o buf), !.cooked_prompt = NULL]
  BY DEF process_new_output
<1>5. raw \in Text /\ row \in Text
  BY <1>1, SomeText
<1> HIDE DEF v, w, put, r, leave, forgets, raw, row
<1>6. raw \o buf \in Text
  BY <1>5, SomeText
<1>7. AfterLastNL(raw \o buf) \in Text /\ UpToLastNL(raw \o buf) \in Text
  BY <1>6, SplitIsText
<1>8. shown \in Text /\ shown = IF ~impatient_prompt THEN UpToLastNL(raw \o buf)
                                ELSE IF leave THEN buf ELSE raw \o buf
  BY <1>2, <1>6, <1>7
<1> HIDE DEF shown
<1>9. /\ w \in UiType /\ w.scrolled = u.scrolled /\ w.row = row
      /\ w.raw_prompt = AfterLastNL(raw \o buf) /\ w.cooked_prompt = NULL
  BY <1>2, <1>4, <1>7 DEF UiType
<1>10. row \o shown \in Text
  BY <1>5, <1>8, SomeText
<1>11. UpToLastNL(row \o shown) \in Text /\ AfterLastNL(row \o shown) \in Text
  BY <1>10, SplitIsText
<1>12. put = [w EXCEPT !.scrolled = u.scrolled \o UpToLastNL(row \o shown),
                       !.row = AfterLastNL(row \o shown)]
  BY <1>9 DEF put, my_putstr, UiType
<1>13. /\ r.scrolled = u.scrolled \o UpToLastNL(row \o shown)
       /\ r.row = AfterLastNL(row \o shown)
       /\ r.raw_prompt = AfterLastNL(raw \o buf)
       /\ r.cooked_prompt = NULL /\ r.prompt_is_still_uncooked
  BY <1>3, <1>9, <1>12 DEF UiType
<1> QED BY <1>5, <1>6, <1>8, <1>13 DEF raw, row, leave, forgets, r

(* Output of the client: what a signal makes rlwrap forget of the prompt is  *)
(* all that may be lost, and the prompt has to be cooked again.              *)
LEMMA ShowTells ==
  ASSUME NEW u, Coherent(u), ~u.handler, NEW buf \in Text, NEW cs, Tells(u, cs),
         impatient_prompt \in BOOLEAN
  PROVE  Tells(show_output(u, buf),
               (cs \cup CharsOf(buf))
                 \ (IF forgets_prompt(u, buf) THEN CharsOf(u.raw_prompt) ELSE {}))
<1> DEFINE leave    == leave_prompt_alone(u, buf)
           forgets  == forgets_prompt(u, buf)
           raw      == IF forgets THEN <<>> ELSE u.raw_prompt
           row      == IF leave THEN u.row ELSE <<>>
           prompted == raw \o buf
           shown    == IF ~impatient_prompt THEN UpToLastNL(prompted)
                       ELSE IF leave THEN buf ELSE prompted
           r        == show_output(u, buf)
<1>1. /\ raw \in Text /\ row \in Text /\ prompted \in Text /\ shown \in Text
      /\ r.scrolled = u.scrolled \o UpToLastNL(row \o shown)
      /\ r.row = AfterLastNL(row \o shown)
      /\ r.raw_prompt = AfterLastNL(prompted)
      /\ r.cooked_prompt = NULL /\ r.prompt_is_still_uncooked
  BY ShowSplits
<1>0. ~r.handler
  BY ShowCoherent
<1>2. u.raw_prompt \in Text /\ u.row \in Text /\ u.scrolled \in Text
  BY DEF Coherent, UiType
<1>3. ~HasNL(raw) /\ CharsOf(raw) \subseteq CharsOf(u.raw_prompt)
  BY SomeText, CharsOfPieces DEF Tells, HasNL
<1>4. (forgets => raw = <<>>) /\ (~forgets => raw = u.raw_prompt)
  OBVIOUS
<1>5. (leave => row = u.row) /\ (~leave => row = <<>>)
  OBVIOUS
<1>6. CharsOf(prompted) = CharsOf(raw) \cup CharsOf(buf)
  BY <1>1, CharsOfPieces
<1> HIDE DEF r, leave, forgets, raw, row, prompted, shown
<1>7. row \o shown \in Text /\ UpToLastNL(row \o shown) \in Text
  BY <1>1, SomeText, SplitIsText
<1>8. CharsOf(r.scrolled) = CharsOf(u.scrolled) \cup CharsOf(UpToLastNL(row \o shown))
  BY <1>1, <1>2, <1>7, CharsOfPieces
<1>9. CharsOf(r.scrolled) \cup CharsOf(r.row) =
         CharsOf(u.scrolled) \cup CharsOf(row) \cup CharsOf(shown)
  <2>1. CharsOf(UpToLastNL(row \o shown)) \cup CharsOf(r.row) = CharsOf(row \o shown)
    BY <1>1, <1>7, CharsOfPieces
  <2>2. CharsOf(row \o shown) = CharsOf(row) \cup CharsOf(shown)
    BY <1>1, CharsOfPieces
  <2> QED BY <1>8, <2>1, <2>2
\* What is on the last line of the client is in the prompt; the rest is on
\* finished lines of the terminal.
<1>10. CharsOf(prompted) \subseteq CharsOf(r.scrolled) \cup CharsOf(r.raw_prompt)
  <2>1. CharsOf(prompted) = CharsOf(UpToLastNL(prompted)) \cup CharsOf(r.raw_prompt)
    BY <1>1, <1>6, CharsOfPieces
  <2>2. CASE ~impatient_prompt
    <3>1. shown = UpToLastNL(prompted)
      BY <2>2 DEF shown
    <3>2. CASE HasNL(prompted)
      <4>1. shown \in Text /\ shown # <<>> /\ shown[Len(shown)] = NL /\ Len(shown) \in Nat
        BY <1>1, <1>6, <3>1, <3>2, SplitText, SomeText
      <4>2. HasNL(shown) /\ LastNL(shown) = Len(shown)
        <5>1. Len(shown) # 0
          BY <4>1, EmptySeq DEF Text
        <5> QED BY <4>1, <5>1, LastNLIs DEF HasNL
      <4>3. UpToLastNL(shown) = shown
        BY <4>1, <4>2, SubSeqFull DEF UpToLastNL, Text
      <4>4. UpToLastNL(row \o shown) = row \o shown
        <5>1. UpToLastNL(row \o shown) = row \o UpToLastNL(shown)
          BY <1>1, <4>1, <4>2, SplitConcat
        <5> QED BY <4>3, <5>1
      <4> QED BY <1>1, <1>8, <2>1, <3>1, <4>4, CharsOfPieces
    <3>3. CASE ~HasNL(prompted)
      BY <1>1, <1>6, <2>1, <3>3, SplitText, CharsOfPieces
    <3> QED BY <3>2, <3>3
  <2>3. CASE impatient_prompt /\ ~leave
    <3>1. shown = prompted /\ row = <<>>
      BY <1>4, <1>5, <2>3 DEF shown
    <3>2. row \o shown = prompted
      BY <1>1, <1>6, <3>1, ConcatEmptySeq DEF Text
    <3> QED BY <1>8, <2>1, <3>2
  <2>4. CASE impatient_prompt /\ leave
    <3>1. shown = buf /\ row = u.row
      BY <1>4, <1>5, <2>4 DEF shown
    <3>2. CharsOf(raw) \subseteq CharsOf(u.scrolled) \cup CharsOf(u.row)
      BY <1>4, <1>5, <2>4, CharsOfPieces DEF Tells, PromptVisible
    <3>3. CASE HasNL(buf)
      <4>1. UpToLastNL(row \o shown) = u.row \o UpToLastNL(buf)
            /\ AfterLastNL(prompted) = AfterLastNL(buf)
        <5>1. UpToLastNL(u.row \o buf) = u.row \o UpToLastNL(buf)
          BY <1>2, <3>3, SplitConcat
        <5>2. AfterLastNL(raw \o buf) = AfterLastNL(buf)
          BY <1>1, <1>3, <3>3, SplitConcat
        <5> QED BY <3>1, <5>1, <5>2 DEF prompted
      <4>2. CharsOf(UpToLastNL(row \o shown)) = CharsOf(u.row) \cup CharsOf(UpToLastNL(buf))
        BY <1>2, <4>1, SplitIsText, CharsOfPieces
      <4>3. CharsOf(buf) = CharsOf(UpToLastNL(buf)) \cup CharsOf(r.raw_prompt)
        BY <1>1, <4>1, CharsOfPieces
      <4> QED BY <1>1, <1>6, <1>8, <3>2, <4>2, <4>3
    <3>4. CASE ~HasNL(buf)
      <4>1. AfterLastNL(prompted) = AfterLastNL(raw) \o buf
        BY <1>1, <1>3, <3>4, SplitConcat DEF prompted
      <4>2. AfterLastNL(raw) = raw
        BY <1>1, <1>3, SplitText
      <4> QED BY <1>1, <4>1, <4>2 DEF prompted
    <3> QED BY <3>3, <3>4
  <2> QED BY <2>2, <2>3, <2>4
<1>11. Kept(r, (cs \cup CharsOf(buf)) \ (IF forgets THEN CharsOf(u.raw_prompt) ELSE {}))
  <2>1. CharsOf(u.scrolled) \subseteq CharsOf(r.scrolled)
    BY <1>8
  <2>2. cs \subseteq CharsOf(u.scrolled) \cup CharsOf(u.raw_prompt)
    BY DEF Tells, Kept
  <2>3. forgets \/ raw = u.raw_prompt
    BY <1>4, <1>5
  <2> QED BY <1>1, <1>6, <1>10, <2>1, <2>2, <2>3 DEF Kept
<1>12. PromptVisible(r)
  <2>1. ASSUME impatient_prompt
        PROVE  CharsOf(r.raw_prompt) \subseteq CharsOf(r.scrolled) \cup CharsOf(r.row)
    <3>1. CharsOf(r.raw_prompt) \subseteq CharsOf(prompted)
      BY <1>1, <1>6, CharsOfPieces
    <3>2. CASE ~leave
      <4>1. shown = prompted
        BY <2>1, <3>2 DEF shown
      <4> QED BY <1>9, <3>1, <4>1
    <3>3. CASE leave
      <4>1. shown = buf /\ row = u.row
        BY <1>4, <1>5, <2>1, <3>3 DEF shown
      <4>2. CharsOf(raw) \subseteq CharsOf(u.scrolled) \cup CharsOf(u.row)
        BY <1>4, <1>5, <2>1, CharsOfPieces DEF Tells, PromptVisible
      <4> QED BY <1>1, <1>6, <1>9, <3>1, <4>1, <4>2
    <3> QED BY <3>2, <3>3
  <2> QED BY <1>0, <1>1, <2>1 DEF PromptVisible
<1>13. ~HasNL(r.raw_prompt) /\ CookingIsDue(r)
  BY <1>1, <1>6, SplitText DEF CookingIsDue
<1>14. Tells(r, (cs \cup CharsOf(buf)) \ (IF forgets THEN CharsOf(u.raw_prompt) ELSE {}))
  BY <1>11, <1>12, <1>13 DEF Tells
<1> QED BY <1>14 DEF r, forgets

(* The other functions of the interface. *)
LEMMA TellsTheSame ==
  ASSUME NEW u, NEW v, NEW cs, NEW ds \in SUBSET cs, Tells(u, cs),
         v.raw_prompt = u.raw_prompt, v.cooked_prompt = u.cooked_prompt,
         v.prompt_is_still_uncooked = u.prompt_is_still_uncooked,
         v.scrolled = u.scrolled, v.row = u.row, v.handler => u.handler
  PROVE  Tells(v, ds)
BY DEF Tells, Kept, PromptVisible, CookingIsDue

LEMMA SaveTells ==
  ASSUME NEW u, Coherent(u), NEW cs, Tells(u, cs)
  PROVE  LET s == save_rl_state(u)
         IN  /\ Tells(s, cs) /\ s.raw_prompt = u.raw_prompt
             /\ s.prompt_is_still_uncooked = u.prompt_is_still_uncooked
             /\ s.we_just_got_a_signal_or_EOF = u.we_just_got_a_signal_or_EOF
<1> DEFINE s == save_rl_state(u)
<1>1. /\ s.raw_prompt = u.raw_prompt /\ s.cooked_prompt = u.cooked_prompt
      /\ s.prompt_is_still_uncooked = u.prompt_is_still_uncooked
      /\ s.we_just_got_a_signal_or_EOF = u.we_just_got_a_signal_or_EOF
      /\ s.scrolled = u.scrolled /\ s.row = u.row /\ (s.handler => u.handler)
  BY DEF save_rl_state, Coherent, UiType
<1> HIDE DEF s
<1>2. Tells(s, cs)
  BY <1>1, TellsTheSame
<1> QED BY <1>1, <1>2 DEF s

LEMMA HandleOutputTells ==
  ASSUME NEW u, Ready(u), NEW buf \in Text, NEW cs, Tells(u, cs), impatient_prompt \in BOOLEAN
  PROVE  Tells(handle_output(u, buf),
               (cs \cup CharsOf(buf))
                 \ (IF forgets_prompt(u, buf) THEN CharsOf(u.raw_prompt) ELSE {}))
<1>1. Coherent(u)
  BY DEF Ready
<1>2. CASE u.within_line_edit
  <2> DEFINE before == save_rl_state(u)
             after  == show_output(before, buf)
             ds     == (cs \cup CharsOf(buf))
                         \ (IF forgets_prompt(u, buf) THEN CharsOf(u.raw_prompt) ELSE {})
  <2>1. Coherent(before) /\ ~before.handler /\ Tells(before, cs)
    BY <1>1, <1>2, SaveCoherent, SaveTells DEF Ready, Editing
  <2>2. before.raw_prompt = u.raw_prompt /\ forgets_prompt(before, buf) = forgets_prompt(u, buf)
    BY <1>1, SaveTells DEF forgets_prompt, leave_prompt_alone
  <2>3. handle_output(u, buf) = restore_rl_state(after)
    BY <1>2 DEF handle_output
  <2> HIDE DEF before
  <2>4. Coherent(after) /\ Tells(after, ds)
    BY <2>1, <2>2, ShowCoherent, ShowTells
  <2> HIDE DEF after, ds
  <2>5. Tells(restore_rl_state(after), ds)
    BY <2>4, RestoreTells DEF Tells
  <2> QED BY <2>3, <2>5 DEF ds
<1>3. CASE ~u.within_line_edit
  BY <1>1, <1>3, ShowTells DEF handle_output, Ready
<1> QED BY <1>2, <1>3

LEMMA NotDirect ==
  ASSUME client.mode \in ClientModes, NeverDirect
  PROVE  ~skip_rlwrap
BY DEF NeverDirect, skip_rlwrap

LEMMA CookingTells ==
  ASSUME NEW u, Ready(u), NEW cs, Tells(u, cs), client.mode \in ClientModes
  PROVE  Tells(cooking_time(u), cs)
<1>1. Coherent(u)
  BY DEF Ready
<1>2. CASE u.we_just_got_a_signal_or_EOF
  <2> DEFINE v == [u EXCEPT !.we_just_got_a_signal_or_EOF = FALSE]
  <2>1. /\ v.raw_prompt = u.raw_prompt /\ v.cooked_prompt = u.cooked_prompt
        /\ v.prompt_is_still_uncooked = u.prompt_is_still_uncooked
        /\ v.scrolled = u.scrolled /\ v.row = u.row /\ v.handler = u.handler
    BY <1>1 DEF Coherent, UiType
  <2>2. cooking_time(u) = v
    BY <1>2 DEF cooking_time
  <2> HIDE DEF v
  <2> QED BY <2>1, <2>2, TellsTheSame
<1>3. CASE ~u.we_just_got_a_signal_or_EOF /\ skip_rlwrap
  <2> DEFINE v == [u EXCEPT !.prompt_is_still_uncooked = FALSE]
  <2>1. /\ v.raw_prompt = u.raw_prompt /\ v.scrolled = u.scrolled /\ v.row = u.row
        /\ v.handler = u.handler
    BY <1>1 DEF Coherent, UiType
  <2>2. cooking_time(u) = v
    BY <1>3 DEF cooking_time
  <2>3. ~NeverDirect
    BY <1>3, NotDirect
  <2> HIDE DEF v
  <2> QED BY <2>1, <2>2, <2>3 DEF Tells, Kept, PromptVisible, CookingIsDue
<1>4. CASE ~u.we_just_got_a_signal_or_EOF /\ ~skip_rlwrap
  BY <1>1, <1>4, StartTells DEF cooking_time, Tells
<1> QED BY <1>2, <1>3, <1>4

LEMMA WinsizeTells ==
  ASSUME NEW u, Ready(u), NEW cs, Tells(u, cs)
  PROVE  Tells(adapt_tty_winsize(u), cs)
<1> DEFINE wiped == [u EXCEPT !.row = <<>>]
<1>1. /\ Coherent(wiped) /\ wiped.raw_prompt = u.raw_prompt
      /\ wiped.scrolled = u.scrolled
  BY SomeText DEF Ready, Coherent, UiType
<1>2. CASE u.within_line_edit
  <2> DEFINE r == adapt_tty_winsize(u)
  <2>1. u.cooked_prompt = u.raw_prompt /\ u.cooked_prompt # NULL
    BY <1>2 DEF Ready, Editing, Coherent
  <2>2. r = [u EXCEPT !.row = u.cooked_prompt]
    BY <1>2 DEF adapt_tty_winsize, Ready, Coherent, UiType
  <2> HIDE DEF r
  <2>3. /\ r.raw_prompt = u.raw_prompt /\ r.cooked_prompt = u.cooked_prompt
        /\ r.row = u.raw_prompt /\ r.scrolled = u.scrolled
    BY <2>1, <2>2 DEF Ready, Coherent, UiType
  <2>4. Tells(r, cs)
    BY <2>1, <2>3 DEF Tells, Kept, PromptVisible, CookingIsDue
  <2> QED BY <2>4 DEF r
<1>3. CASE ~u.within_line_edit /\ skip_rlwrap
  BY <1>3 DEF adapt_tty_winsize
<1>4. CASE ~u.within_line_edit /\ ~skip_rlwrap
  <2>1. adapt_tty_winsize(u) = start_line_edit(wiped)
    BY <1>4 DEF adapt_tty_winsize
  <2> HIDE DEF wiped
  <2> QED BY <1>1, <2>1, StartTells DEF Tells, Kept
<1> QED BY <1>2, <1>3, <1>4

LEMMA WokenTells ==
  ASSUME NEW u, Coherent(u), NEW cs, Tells(u, cs)
  PROVE  Tells(woken_up(u), cs)
<1> DEFINE fresh == [u EXCEPT !.scrolled = @ \o Append(u.row, NL), !.row = <<>>]
<1>1. /\ u.scrolled \o Append(u.row, NL) \in Text
      /\ CharsOf(u.scrolled \o Append(u.row, NL)) =
           CharsOf(u.scrolled) \cup CharsOf(u.row) \cup {NL}
  <2>1. NL \in Char /\ u.row \in Text /\ u.scrolled \in Text
    BY DEF Coherent, UiType, NL, Char
  <2>2. Append(u.row, NL) = u.row \o <<NL>> /\ <<NL>> \in Text /\ Append(u.row, NL) \in Text
    BY <2>1, AppendIsConcat, SomeText DEF Text
  <2>3. CharsOf(Append(u.row, NL)) = CharsOf(u.row) \cup {NL}
    BY <2>1, <2>2, CharsOfPieces
  <2>4. PICK a : a = Append(u.row, NL)
    OBVIOUS
  <2>5. u.scrolled \o a \in Text /\ CharsOf(u.scrolled \o a) = CharsOf(u.scrolled) \cup CharsOf(a)
    <3>1. a \in Text
      BY <2>2, <2>4
    <3> QED BY <2>1, <3>1, SomeText, CharsOfPieces
  <2> QED BY <2>3, <2>4, <2>5
<1>2. /\ Coherent(fresh) /\ fresh.raw_prompt = u.raw_prompt
      /\ fresh.cooked_prompt = u.cooked_prompt
      /\ fresh.prompt_is_still_uncooked = u.prompt_is_still_uncooked
      /\ fresh.handler = u.handler
      /\ fresh.scrolled = u.scrolled \o Append(u.row, NL)
  BY <1>1, SomeText DEF Coherent, UiType
<1>3. CASE u.within_line_edit
  <2>1. woken_up(u) = restore_rl_state(fresh)
    BY <1>3 DEF woken_up
  <2> HIDE DEF fresh
  <2>2. Kept(fresh, cs)
    BY <1>1, <1>2 DEF Tells, Kept
  <2> QED BY <1>2, <2>1, <2>2, RestoreTells DEF Tells
<1>4. CASE ~u.within_line_edit /\ skip_rlwrap
  <2>1. woken_up(u) = fresh
    BY <1>4 DEF woken_up
  <2> HIDE DEF fresh
  <2>2. CharsOf(u.scrolled) \cup CharsOf(u.row) \subseteq CharsOf(fresh.scrolled)
    BY <1>1, <1>2
  <2> QED BY <1>2, <2>1, <2>2 DEF Tells, Kept, PromptVisible, CookingIsDue
<1>5. CASE ~u.within_line_edit /\ ~skip_rlwrap
  <2> DEFINE m   == move_cursor_to_start_of_prompt(fresh)
             v   == cook_prompt_if_necessary(m)
             put == my_putstr(v, v.cooked_prompt)
  <2>1. woken_up(u) = put
    BY <1>5 DEF woken_up
  <2> HIDE DEF fresh
  <2>2. Coherent(m) /\ m.scrolled = fresh.scrolled /\ m.raw_prompt = fresh.raw_prompt
    BY <1>2, MoveCoherent DEF move_cursor_to_start_of_prompt, Coherent, UiType
  <2> HIDE DEF m
  <2>3. /\ Coherent(v) /\ v = [m EXCEPT !.cooked_prompt = m.raw_prompt]
        /\ m.raw_prompt # NULL
    BY <2>2, CookCoherent
  <2> HIDE DEF v
  <2>4. /\ v.cooked_prompt = u.raw_prompt /\ v.raw_prompt = u.raw_prompt
        /\ v.cooked_prompt # NULL /\ v.scrolled = fresh.scrolled
        /\ v.cooked_prompt \in Text
    BY <1>2, <2>2, <2>3 DEF Coherent, UiType
  <2>5. /\ CharsOf(v.scrolled) \subseteq CharsOf(put.scrolled)
        /\ CharsOf(v.cooked_prompt) \subseteq CharsOf(put.scrolled) \cup CharsOf(put.row)
    BY <2>3, <2>4, PutChars
  <2>6. Coherent(put) /\ SameButScreen(v, put)
    BY <2>3, <2>4, PutCoherent
  <2> HIDE DEF put
  <2>7. put.raw_prompt = v.raw_prompt /\ put.cooked_prompt = v.cooked_prompt
    BY <2>3, <2>6 DEF SameButScreen, Coherent, UiType
  <2>8. Kept(put, cs)
    BY <1>1, <1>2, <2>4, <2>5, <2>7 DEF Tells, Kept
  <2> QED BY <2>1, <2>4, <2>5, <2>7, <2>8 DEF Tells, PromptVisible, CookingIsDue
<1> QED BY <1>3, <1>4, <1>5

(* A key: a prompt whose line is accepted is let go; it is on the terminal.  *)
LEMMA EditKeyTells ==
  ASSUME NEW u, Coherent(u), u.handler, NEW key, edit_key(u, key),
         Tells(u, CharsOf(heard) \ (let_go \cup lost))
  PROVE  Tells(ui', CharsOf(heard) \ (let_go' \cup lost))
<1> DEFINE cs == CharsOf(heard) \ (let_go \cup lost)
<1>1. CASE accept_line(u)
  <2>1. /\ ui'.raw_prompt = <<>> /\ ui'.scrolled = u.scrolled
        /\ let_go' = let_go \cup CharsOf(u.raw_prompt)
    <3>1. CharsOf(u.raw_prompt) \subseteq OnTerminal(u)
      BY DEF Tells, PromptVisible, OnTerminal
    <3> QED BY <1>1, <3>1 DEF accept_line, line_handler, Coherent, UiType
  <2>2. ~HasNL(<<>>) /\ CharsOf(<<>>) = {}
    BY SomeText, CharsOfPieces DEF HasNL
  <2> QED BY <2>1, <2>2 DEF Tells, Kept, PromptVisible, CookingIsDue
<1>2. CASE ~accept_line(u)
  <2>1. /\ ui'.raw_prompt = u.raw_prompt /\ ui'.cooked_prompt = u.cooked_prompt
        /\ ui'.prompt_is_still_uncooked = u.prompt_is_still_uncooked
        /\ ui'.scrolled = u.scrolled /\ ui'.row = u.row /\ ui'.handler = u.handler
    <3>1. \/ ui' = u \/ ui' = backward_char(u) \/ ui' = self_insert(u, key)
          \/ ui' = [u EXCEPT !.we_just_got_a_signal_or_EOF = TRUE]
      BY <1>2 DEF edit_key, send_EOF
    <3> QED BY <3>1 DEF backward_char, self_insert, Coherent, UiType
  <2>2. let_go' = let_go
    BY <1>2 DEF edit_key
  <2> QED BY <2>1, <2>2, TellsTheSame
<1> QED BY <1>1, <1>2

(* Along every step. *)
TextInv ==
  /\ impatient_prompt \in ImpatientModes
  /\ client.mode \in ClientModes
  /\ Tells(ui, CharsOf(heard) \ (let_go \cup lost))
  /\ impatient_prompt => lost = {}
  /\ pc = "exited" => pty_out = <<>>

LEMMA InitTextInv == Init => TextInv
<1> SUFFICES ASSUME Init PROVE TextInv
  OBVIOUS
<1>1. CharsOf(heard) = {} /\ CharsOf(ui.raw_prompt) = {} /\ ~HasNL(ui.raw_prompt)
      /\ ui.raw_prompt = <<>>
  BY SomeText, CharsOfPieces DEF Init, InitialUi, HasNL
<1>2. Tells(ui, CharsOf(heard) \ (let_go \cup lost))
  BY <1>1 DEF Tells, Kept, PromptVisible, CookingIsDue
<1>3. /\ impatient_prompt \in ImpatientModes
      /\ client.mode \in ClientModes /\ pc # "exited" /\ lost = {}
  BY DEF Init
<1> QED BY <1>2, <1>3 DEF TextInv

LEMMA ReadPtyTells ==
  ASSUME EditorInv, TextInv, ReadPty
  PROVE  /\ Tells(ui', CharsOf(heard)' \ (let_go' \cup lost'))
         /\ impatient_prompt => lost' = {}
<1>1. Ready(ui) /\ Coherent(ui) /\ TypeOK /\ pty_out \in Text /\ heard \in Text
      /\ impatient_prompt \in BOOLEAN
  BY InvReady DEF ReadPty, TypeOK, Ready
<1>2. heard' = heard \o pty_out
  BY DEF ReadPty
<1>3. CharsOf(heard)' = CharsOf(heard) \cup CharsOf(pty_out)
  <2>1. CharsOf(heard \o pty_out) = CharsOf(heard) \cup CharsOf(pty_out)
    BY <1>1, CharsOfPieces
  <2>2. CharsOf(heard)' = CharsOf(heard')
    BY DEF CharsOf
  <2> QED BY <1>2, <2>1, <2>2
<1> DEFINE cs == CharsOf(heard) \ (let_go \cup lost)
<1>4. Tells(ui, cs)
  BY DEF TextInv
<1>5. CASE skip_rlwrap
  <2>1. /\ ui' = my_putstr(ui, pty_out) /\ let_go' = let_go \cup CharsOf(pty_out)
        /\ lost' = lost
    BY <1>5 DEF ReadPty, pass_output_through
  <2>2. Tells(ui', cs)
    BY <1>1, <1>4, <2>1, PutTells
  <2>3. CharsOf(heard)' \ (let_go' \cup lost') \in SUBSET cs
    BY <1>3, <2>1
  <2>4. impatient_prompt => lost' = {}
    BY <2>1 DEF TextInv
  <2> HIDE DEF cs
  <2> QED BY <2>2, <2>3, <2>4, TellsTheSame
<1>6. CASE ~skip_rlwrap
  <2> DEFINE forgotten == IF forgets_prompt(ui, pty_out) THEN CharsOf(ui.raw_prompt) ELSE {}
             ds        == (cs \cup CharsOf(pty_out)) \ forgotten
  <2>1. /\ ui' = handle_output(ui, pty_out)
        /\ let_go' = let_go \cup (forgotten \cap OnTerminal(ui))
        /\ lost' = lost \cup (forgotten \ OnTerminal(ui))
    BY <1>6 DEF ReadPty
  <2>2. Tells(ui', ds)
    BY <1>1, <1>4, <2>1, HandleOutputTells
  <2>3. impatient_prompt => lost' = {}
    <3>1. impatient_prompt => CharsOf(ui.raw_prompt) \subseteq OnTerminal(ui)
      BY <1>4 DEF Tells, PromptVisible, OnTerminal
    <3> QED BY <2>1, <3>1 DEF TextInv
  <2> HIDE DEF forgotten
  <2>4. CharsOf(heard)' \ (let_go' \cup lost') \in SUBSET ds
    BY <1>3, <2>1
  <2> HIDE DEF ds
  <2> QED BY <2>2, <2>3, <2>4, TellsTheSame
<1> QED BY <1>5, <1>6

LEMMA ReadStdinTells ==
  ASSUME EditorInv, TextInv, ReadStdin
  PROVE  Tells(ui', CharsOf(heard) \ (let_go' \cup lost))
<1>1. Ready(ui) /\ Coherent(ui) /\ Tells(ui, CharsOf(heard) \ (let_go \cup lost))
  BY InvReady DEF ReadStdin, Ready, TextInv
<1>2. CASE skip_rlwrap
  BY <1>1, <1>2 DEF ReadStdin
<1>3. CASE ~skip_rlwrap
  <2> DEFINE u == IF ui.within_line_edit THEN ui ELSE start_line_edit(ui)
  <2>1. edit_key(u, Head(typed))
    BY <1>3 DEF ReadStdin
  <2>2. Coherent(u) /\ u.handler /\ Tells(u, CharsOf(heard) \ (let_go \cup lost))
    BY <1>1, StartCoherent, StartTells DEF Tells, Ready, Editing
  <2> HIDE DEF u
  <2> QED BY <2>1, <2>2, EditKeyTells
<1> QED BY <1>2, <1>3

LEMMA SignalTells ==
  ASSUME EditorInv, TextInv, PassOnSignal \/ WindowChanges
  PROVE  Tells(ui', CharsOf(heard) \ (let_go \cup lost))
<1>1. Ready(ui) /\ Coherent(ui) /\ Tells(ui, CharsOf(heard) \ (let_go \cup lost))
  BY InvReady DEF PassOnSignal, WindowChanges, Ready, TextInv
<1> DEFINE noted(b) == [ui EXCEPT !.we_just_got_a_signal_or_EOF = b]
<1>2. ASSUME NEW b \in BOOLEAN
      PROVE  Ready(noted(b)) /\ Tells(noted(b), CharsOf(heard) \ (let_go \cup lost))
  <2>1. Ready(noted(b))
    BY <1>1 DEF Ready, Editing, Coherent, UiType
  <2>2. /\ noted(b).raw_prompt = ui.raw_prompt /\ noted(b).cooked_prompt = ui.cooked_prompt
        /\ noted(b).prompt_is_still_uncooked = ui.prompt_is_still_uncooked
        /\ noted(b).scrolled = ui.scrolled /\ noted(b).row = ui.row
        /\ noted(b).handler = ui.handler
    BY <1>1 DEF Coherent, UiType
  <2> HIDE DEF noted
  <2>3. Tells(noted(b), CharsOf(heard) \ (let_go \cup lost))
    BY <1>1, <2>2, TellsTheSame
  <2> QED BY <2>1, <2>3
<1>3. \E b \in BOOLEAN : ui' = noted(b) \/ ui' = adapt_tty_winsize(noted(b))
  BY <1>1, MainLoopAssumption DEF PassOnSignal, WindowChanges, EditorInv, TypeOK, Coherent, UiType
<1> HIDE DEF noted
<1> QED BY <1>2, <1>3, WinsizeTells

LEMMA SuspendTells ==
  ASSUME EditorInv, TextInv, Suspend
  PROVE  Tells(ui', CharsOf(heard) \ (let_go \cup lost))
<1>1. Coherent(ui) /\ Tells(ui, CharsOf(heard) \ (let_go \cup lost))
  BY InvReady DEF Suspend, Ready, TextInv
<1> QED BY <1>1, SaveTells DEF Suspend

(* The client's mode stays one of those it may choose, and after the last    *)
(* read nothing more comes from the pty.                                     *)
LEMMA WorldTextInv ==
  ASSUME EditorInv, TextInv, [Next]_vars
  PROVE  client'.mode \in ClientModes /\ (pc' = "exited" => pty_out' = <<>>)
<1> USE DEF TextInv, loopVars, worldVars
<1>1. client \in [running : BOOLEAN, tty_open : BOOLEAN,
                  mode : {"echo", "noecho", "raw"}, asked : Nat]
  BY DEF EditorInv, TypeOK
<1>2. CASE ReadPty \/ ReadPtyFails \/ ReadStdin \/ Timeout
  BY <1>2 DEF ReadPty, ReadPtyFails, ReadStdin, Timeout, NothingReady
<1>3. CASE WritePty
  BY <1>3 DEF WritePty, flush_output_queue
<1>4. CASE Handlers
  BY <1>4 DEF Handlers, PassOnSignal, WindowChanges, Suspend, Resume, ChildDied
<1>5. CASE ClientPrints \/ ClientAsksPassword
  BY <1>1, <1>5 DEF ClientPrints, ClientAsksPassword
<1>6. CASE ClientSetsMode
  BY <1>1, <1>6 DEF ClientSetsMode
<1>7. CASE ClientClosesTty \/ ClientExits
  BY <1>1, <1>7 DEF ClientClosesTty, ClientExits
<1>8. CASE UserType \/ HangUp
  BY <1>8 DEF UserType, HangUp
<1>9. CASE UNCHANGED vars
  BY <1>9 DEF vars
<1> QED BY <1>2, <1>3, <1>4, <1>5, <1>6, <1>7, <1>8, <1>9 DEF Next, Loop, World

LEMMA StepTextInv ==
  ASSUME EditorInv, TextInv, [Next]_vars
  PROVE  TextInv'
<1> DEFINE told == CharsOf(heard) \ (let_go \cup lost)
<1>1. Tells(ui, told)
  BY DEF TextInv
<1>2. ASSUME UNCHANGED <<heard, let_go, lost>>, Tells(ui', told)
      PROVE  Tells(ui', told') /\ (impatient_prompt => lost' = {})
  BY <1>2 DEF CharsOf, TextInv
<1>3. Tells(ui', told') /\ (impatient_prompt => lost' = {})
  <2>1. CASE ReadPty
    BY <2>1, ReadPtyTells
  <2>2. CASE ReadStdin
    <3>1. heard' = heard /\ lost' = lost
      BY <2>2 DEF ReadStdin
    <3>2. Tells(ui', CharsOf(heard) \ (let_go' \cup lost))
      BY <2>2, ReadStdinTells
    <3>3. told' = CharsOf(heard) \ (let_go' \cup lost)
      BY <3>1 DEF CharsOf
    <3> QED BY <3>1, <3>2, <3>3 DEF TextInv
  <2>3. CASE Timeout
    <3>1. Ready(ui) /\ client.mode \in ClientModes
      BY <2>3, InvReady DEF Timeout, TextInv
    <3>2. Tells(ui', told)
      BY <1>1, <2>3, <3>1, CookingTells DEF Timeout
    <3> QED BY <1>2, <2>3, <3>2 DEF Timeout, loopVars
  <2>4. CASE PassOnSignal \/ WindowChanges
    BY <1>2, <2>4, SignalTells DEF PassOnSignal, WindowChanges, loopVars
  <2>5. CASE Suspend
    BY <1>2, <2>5, SuspendTells DEF Suspend, loopVars
  <2>6. CASE Resume
    <3>1. Asleep(ui) /\ Coherent(ui)
      BY <2>6, InvReady DEF Resume, Asleep
    <3>2. Tells(ui', told)
      <4> HIDE DEF told
      <4>1. PICK b \in BOOLEAN : /\ Asleep(Noted(ui, b)) /\ Edited(Noted(ui, b)) = Edited(ui)
                                /\ \/ ui' = woken_up(Noted(ui, b))
                                   \/ ui' = adapt_tty_winsize(woken_up(Noted(ui, b)))
        BY <2>6, ResumeWakes
      <4> DEFINE v == Noted(ui, b)
      <4>2. /\ v.raw_prompt = ui.raw_prompt /\ v.cooked_prompt = ui.cooked_prompt
            /\ v.prompt_is_still_uncooked = ui.prompt_is_still_uncooked
            /\ v.scrolled = ui.scrolled /\ v.row = ui.row /\ v.handler = ui.handler
        BY <3>1 DEF Noted, Coherent, UiType
      <4>3. Asleep(v) /\ (ui' = woken_up(v) \/ ui' = adapt_tty_winsize(woken_up(v)))
        BY <4>1
      <4> HIDE DEF v
      <4>4. Tells(v, told)
        BY <1>1, <4>2, TellsTheSame
      <4>5. Tells(woken_up(v), told) /\ Ready(woken_up(v))
        BY <4>3, <4>4, WokenTells, WokenReady DEF Asleep
      <4> QED BY <4>3, <4>5, WinsizeTells
    <3> QED BY <1>2, <2>6, <3>2 DEF Resume, loopVars
  <2>7. CASE ReadPtyFails \/ WritePty \/ ChildDied \/ World \/ UNCHANGED vars
    <3>1. UNCHANGED <<ui, heard, let_go, lost>>
      BY <2>7 DEF ReadPtyFails, WritePty, ChildDied, World, ClientPrints, ClientAsksPassword,
                  ClientSetsMode, ClientClosesTty, ClientExits, UserType, HangUp, vars, loopVars
    <3> QED BY <1>1, <1>2, <3>1
  <2> QED BY <2>1, <2>2, <2>3, <2>4, <2>5, <2>6, <2>7 DEF Next, Loop, Handlers
<1>4. impatient_prompt' = impatient_prompt
  BY DEF Next, Loop, Handlers, World, ReadPty, ReadPtyFails, ReadStdin, WritePty, Timeout,
         PassOnSignal, WindowChanges, Suspend, Resume, ChildDied, ClientPrints,
         ClientAsksPassword, ClientSetsMode, ClientClosesTty, ClientExits, UserType,
         HangUp, vars
<1>5. Tells(ui, told)'
  BY <1>3, <1>4 DEF Tells, Kept, PromptVisible, CookingIsDue, CharsOf
<1> QED BY <1>3, <1>4, <1>5, WorldTextInv DEF TextInv

THEOREM TextInvariant == Spec => [](EditorInv /\ TextInv)
<1>1. Init => EditorInv /\ TextInv
  BY InitEditorInv, InitTextInv
<1>2. EditorInv /\ TextInv /\ [Next]_vars => (EditorInv /\ TextInv)'
  BY StepEditorInv, StepTextInv
<1> QED BY <1>1, <1>2, PTL DEF Spec

LEMMA ShownChars ==
  ASSUME TypeOK
  PROVE  CharsOf(Shown) = CharsOf(ui.scrolled) \cup CharsOf(ui.row)
BY CharsOfPieces DEF TypeOK, UiType, Shown

(* A prompt that still has to be cooked is not forgotten. *)
THEOREM CookingAlwaysPending ==
  ASSUME NeverDirect
  PROVE  Spec => []CookingIsPending
<1>1. TextInv => CookingIsPending
  BY DEF TextInv, Tells, CookingIsDue, CookingIsPending
<1> QED BY <1>1, TextInvariant, PTL

(* What rlwrap takes for an interruption is a signal or an end of file that  *)
(* the user has sent.                                                        *)
InterruptInv ==
  /\ CharsOf(typed) \subseteq CharsOf(keys)
  /\ pc = "stopped" => signalled > 0
  /\ ui.we_just_got_a_signal_or_EOF \/ lost # {} => Interrupted

LEMMA InitInterruptInv == Init => InterruptInv
BY DEF Init, InitialUi, InterruptInv, CharsOf

(* A key that is typed is noted in keys; reading one takes it off typed.     *)
LEMMA TypedKeys ==
  ASSUME EditorInv, CharsOf(typed) \subseteq CharsOf(keys), [Next]_vars
  PROVE  /\ CharsOf(typed') \subseteq CharsOf(keys') /\ CharsOf(keys) \subseteq CharsOf(keys')
         /\ signalled' \in {signalled, signalled + 1}
<1>1. typed \in Text /\ keys \in Text
  BY DEF EditorInv, TypeOK
<1>2. CASE UserType
  <2>1. PICK kind \in UserKeys : /\ typed' = Append(typed, KeyFor(kind))
                                 /\ keys' = Append(keys, KeyFor(kind))
    BY <1>2 DEF UserType
  <2>2. typed' \in Text /\ keys' \in Text
    BY <1>2, OtherSteps DEF World, EditorInv, TypeOK
  <2>3. PICK k : k = KeyFor(kind)
    OBVIOUS
  <2>4. Len(typed) \in Nat /\ Len(keys) \in Nat
    BY <1>1, SomeText
  <2>5. CharsOf(Append(typed, k)) = CharsOf(typed) \cup {k}
        /\ CharsOf(Append(keys, k)) = CharsOf(keys) \cup {k}
    <3>1. k \in Char
      <4>1. Len(typed') = Len(typed) + 1 /\ typed'[Len(typed) + 1] = k
        BY <1>1, <2>1, <2>3, AppendProperties DEF Text
      <4> QED BY <2>2, <2>4, <4>1, ElementOfSeq DEF Text
    <3> QED BY <1>1, <3>1, CharsOfAppend
  <2> QED BY <1>2, <2>1, <2>3, <2>5 DEF UserType
<1>3. CASE ReadStdin
  <2>1. typed # <<>> /\ typed' = Tail(typed) /\ keys' = keys /\ signalled' = signalled
    BY <1>3 DEF ReadStdin
  <2>2. CharsOf(Tail(typed)) \subseteq CharsOf(typed)
    BY <1>1, <2>1, HeadTailProperties, LenProperties DEF CharsOf, Text
  <2> QED BY <2>1, <2>2
<1>4. CASE ~UserType /\ ~ReadStdin
  <2>1. UNCHANGED <<typed, keys>> /\ signalled' \in {signalled, signalled + 1}
    BY <1>4 DEF Next, Loop, Handlers, World, ReadPty, ReadPtyFails, WritePty, Timeout,
         PassOnSignal, WindowChanges, Suspend, Resume, ChildDied, ClientPrints,
         ClientAsksPassword, ClientSetsMode, ClientClosesTty, ClientExits, HangUp, vars,
         loopVars, worldVars
  <2> QED BY <2>1
<1> QED BY <1>2, <1>3, <1>4

(* Only a key that is the end of file makes readline note an interruption.   *)
LEMMA EditKeyNotes ==
  ASSUME NEW u, Coherent(u), NEW key, edit_key(u, key), ui'.we_just_got_a_signal_or_EOF
  PROVE  u.we_just_got_a_signal_or_EOF \/ key = EOFCHAR
<1>1. CASE key = EOFCHAR
  BY <1>1
<1>2. CASE key # EOFCHAR
  <2>1. ui' = line_handler(u) \/ ui' = backward_char(u) \/ ui' = self_insert(u, key)
    BY <1>2 DEF edit_key, accept_line
  <2> QED BY <2>1 DEF line_handler, backward_char, self_insert, Coherent, UiType
<1> QED BY <1>1, <1>2

LEMMA StepInterruptInv ==
  ASSUME EditorInv, InterruptInv, [Next]_vars
  PROVE  InterruptInv'
<1>1. CharsOf(typed') \subseteq CharsOf(keys') /\ CharsOf(keys) \subseteq CharsOf(keys')
      /\ signalled' \in {signalled, signalled + 1} /\ signalled \in Nat
  BY TypedKeys DEF InterruptInv, EditorInv, TypeOK
<1>2. Interrupted => Interrupted'
  <2>1. CharsOf(keys)' = CharsOf(keys')
    BY DEF CharsOf
  <2>2. signalled > 0 => signalled' > 0
    BY <1>1
  <2> QED BY <1>1, <2>1, <2>2 DEF Interrupted
<1>3. CharsOf(typed)' \subseteq CharsOf(keys)'
  BY <1>1 DEF CharsOf
<1>4. pc' = "stopped" => signalled' > 0
  <2>1. CASE Suspend
    BY <1>1, <2>1 DEF Suspend
  <2>2. CASE ~Suspend
    <3>1. pc' = "stopped" => pc = "stopped"
      BY <2>2 DEF Next, Loop, Handlers, World, ReadPty, ReadPtyFails, ReadStdin, WritePty,
           flush_output_queue, Timeout, PassOnSignal, WindowChanges, Resume, ChildDied,
           ClientPrints, ClientAsksPassword, ClientSetsMode, ClientClosesTty, ClientExits,
           UserType, HangUp, vars
    <3> QED BY <1>1, <3>1 DEF InterruptInv
  <2> QED BY <2>1, <2>2
<1>5. ui'.we_just_got_a_signal_or_EOF => Interrupted'
  <2>1. CASE ReadPty
    <3>1. Ready(ui) /\ pty_out \in Text
      BY <2>1, InvReady DEF ReadPty, EditorInv, TypeOK
    <3>2. ui' = my_putstr(ui, pty_out) \/ ui' = handle_output(ui, pty_out)
      BY <2>1 DEF ReadPty, pass_output_through
    <3>3. ui'.we_just_got_a_signal_or_EOF = ui.we_just_got_a_signal_or_EOF
      <4>1. CASE ui' = my_putstr(ui, pty_out)
        BY <3>1, <4>1 DEF my_putstr, Ready, Coherent, UiType
      <4>2. CASE ui' = handle_output(ui, pty_out)
        BY <3>1, <4>2, HandleOutputReady
      <4> QED BY <3>2, <4>1, <4>2
    <3> QED BY <1>2, <3>3 DEF InterruptInv
  <2>2. CASE ReadStdin
    <3>1. Ready(ui) /\ Coherent(ui) /\ typed \in Text /\ typed # <<>> /\ keys' = keys
      BY <2>2, InvReady DEF ReadStdin, EditorInv, TypeOK, Ready
    <3>2. Head(typed) \in CharsOf(keys)
      <4>1. Len(typed) \in Nat /\ Len(typed) # 0
        BY <3>1, SomeText, EmptySeq DEF Text
      <4>2. Head(typed) = typed[1] /\ 1 \in 1 .. Len(typed)
        BY <3>1, <4>1, HeadTailProperties DEF Text
      <4> QED BY <4>2 DEF InterruptInv, CharsOf
    <3>3. CASE skip_rlwrap
      BY <1>2, <2>2, <3>3 DEF ReadStdin, InterruptInv
    <3>4. CASE ~skip_rlwrap
      <4> DEFINE u == IF ui.within_line_edit THEN ui ELSE start_line_edit(ui)
      <4>1. edit_key(u, Head(typed))
        BY <2>2, <3>4 DEF ReadStdin
      <4>2. Coherent(u) /\ u.we_just_got_a_signal_or_EOF = ui.we_just_got_a_signal_or_EOF
        BY <3>1, StartCoherent
      <4> HIDE DEF u
      <4>3. ui'.we_just_got_a_signal_or_EOF =>
              ui.we_just_got_a_signal_or_EOF \/ EOFCHAR \in CharsOf(keys)
        BY <3>2, <4>1, <4>2, EditKeyNotes
      <4> QED BY <1>2, <4>3 DEF InterruptInv, Interrupted
    <3> QED BY <3>3, <3>4
  <2>3. CASE Timeout
    <3>1. Coherent(ui)
      BY <2>3, InvReady DEF Timeout, Ready
    <3>2. \/ ui' = ui \/ ui' = [ui EXCEPT !.we_just_got_a_signal_or_EOF = FALSE]
          \/ ui' = [ui EXCEPT !.prompt_is_still_uncooked = FALSE]
          \/ ui' = start_line_edit(ui)
      BY <2>3 DEF Timeout, cooking_time
    <3>3. ui'.we_just_got_a_signal_or_EOF => ui.we_just_got_a_signal_or_EOF
      <4>1. CASE ui' = start_line_edit(ui)
        BY <3>1, <4>1, StartCoherent
      <4>2. CASE ui' # start_line_edit(ui)
        BY <3>1, <3>2, <4>2 DEF Coherent, UiType
      <4> QED BY <4>1, <4>2
    <3> QED BY <1>2, <3>3 DEF InterruptInv
  <2>4. CASE PassOnSignal \/ WindowChanges \/ Suspend
    <3>1. signalled' > 0
      BY <1>1, <2>4 DEF PassOnSignal, WindowChanges, Suspend
    <3> QED BY <3>1 DEF Interrupted
  <2>5. CASE Resume
    BY <1>2, <2>5 DEF Resume, InterruptInv, Interrupted
  <2>6. CASE ReadPtyFails \/ WritePty \/ ChildDied \/ World \/ UNCHANGED vars
    <3>1. ui' = ui
      BY <2>6 DEF ReadPtyFails, WritePty, ChildDied, World, ClientPrints, ClientAsksPassword,
                  ClientSetsMode, ClientClosesTty, ClientExits, UserType, HangUp, vars
    <3> QED BY <1>2, <3>1 DEF InterruptInv
  <2> QED BY <2>1, <2>2, <2>3, <2>4, <2>5, <2>6 DEF Next, Loop, Handlers
<1>6. lost' # {} => Interrupted'
  <2>1. CASE ReadPty
    <3>1. lost' = lost \/ ui.we_just_got_a_signal_or_EOF
      BY <2>1 DEF ReadPty, forgets_prompt
    <3> QED BY <1>2, <3>1 DEF InterruptInv
  <2>2. CASE ~ReadPty
    <3>1. lost' = lost
      BY <2>2 DEF Next, Loop, Handlers, World, ReadPtyFails, ReadStdin, WritePty, Timeout,
           PassOnSignal, WindowChanges, Suspend, Resume, ChildDied, ClientPrints,
           ClientAsksPassword, ClientSetsMode, ClientClosesTty, ClientExits, UserType,
           HangUp, vars, loopVars
    <3> QED BY <1>2, <3>1 DEF InterruptInv
  <2> QED BY <2>1, <2>2
<1> QED BY <1>3, <1>4, <1>5, <1>6 DEF InterruptInv

(* Nothing the client said is lost, in impatient mode whatever happens, in   *)
(* patient mode (without direct mode) unless the user has interrupted it:    *)
(* what was read is on the terminal, was there when rlwrap let go of it, or  *)
(* is the prompt that is held back.                                          *)
THEOREM NothingIsLost ==
  ASSUME NeverDirect \/ ImpatientModes \subseteq {TRUE}
  PROVE  Spec => []NothingLost
<1>1. Spec => []InterruptInv
  <2>1. EditorInv /\ InterruptInv /\ [Next]_vars => InterruptInv'
    BY StepInterruptInv
  <2> QED BY InitInterruptInv, EditorInvariant, <2>1, PTL DEF Spec
<1>2. EditorInv /\ TextInv /\ InterruptInv => NothingLost
  <2> SUFFICES ASSUME EditorInv, TextInv, InterruptInv PROVE NothingLost
    OBVIOUS
  <2>1. TypeOK /\ CharsOf(Shown) = CharsOf(ui.scrolled) \cup CharsOf(ui.row)
    BY ShownChars DEF EditorInv
  <2>2. CharsOf(heard) \ (let_go \cup lost) \subseteq
           CharsOf(ui.scrolled) \cup CharsOf(ui.raw_prompt)
    BY DEF TextInv, Tells, Kept
  <2>3. \/ CharsOf(ui.raw_prompt) \subseteq CharsOf(Shown)
        \/ ~impatient_prompt /\ ui.prompt_is_still_uncooked
    BY <2>1 DEF TextInv, Tells, PromptVisible, TypeOK, UiType
  <2>4. lost # {} => ~impatient_prompt /\ Interrupted
    BY DEF TextInv, InterruptInv
  <2> QED BY <2>1, <2>2, <2>3, <2>4 DEF NothingLost
<1> QED BY <1>1, <1>2, TextInvariant, PTL

(* When rlwrap exits because the command has died, and prompts are shown     *)
(* before they are cooked, all that the command said has been shown.         *)
THEOREM GoodbyeIsSeen == Spec => []ImpatientGoodbyeIsShown
<1> SUFFICES EditorInv /\ TextInv => ImpatientGoodbyeIsShown
  BY TextInvariant, PTL
<1> SUFFICES ASSUME EditorInv, TextInv, impatient_prompt, pc = "exited"
             PROVE  CharsOf(heard \o pty_out) \ let_go \subseteq CharsOf(Shown)
  BY DEF ImpatientGoodbyeIsShown, GoodbyeIsShown
<1>1. TypeOK /\ CharsOf(Shown) = CharsOf(ui.scrolled) \cup CharsOf(ui.row)
  BY ShownChars DEF EditorInv
<1>2. heard \o pty_out = heard
  BY <1>1, ConcatEmptySeq DEF TextInv, TypeOK, Text
<1>3. /\ CharsOf(heard) \ let_go \subseteq CharsOf(ui.scrolled) \cup CharsOf(ui.raw_prompt)
      /\ CharsOf(ui.raw_prompt) \subseteq CharsOf(ui.scrolled) \cup CharsOf(ui.row)
  BY DEF TextInv, Tells, Kept, PromptVisible
<1> QED BY <1>1, <1>2, <1>3

-----------------------------------------------------------------------------
(* The order of what is on the terminal                                     *)

(* Characters selected from a text, in their order.                          *)
LEMMA InOrderSelect ==
  ASSUME NEW s, NEW t, NEW h, InOrder(s, h),
         NEW f \in [1 .. Len(t) -> 1 .. Len(s)],
         \A i \in 1 .. Len(t) : t[i] = s[f[i]],
         \A i, j \in 1 .. Len(t) : i < j => f[i] < f[j]
  PROVE  InOrder(t, h)
<1> SUFFICES ASSUME NEW i \in 1 .. Len(t), NEW j \in 1 .. Len(t), i < j,
                    NL \notin {t[i], t[j]}
             PROVE  \E a, b \in 1 .. Len(h) : a < b /\ h[a] = t[i] /\ h[b] = t[j]
  BY DEF InOrder
<1>1. f[i] \in 1 .. Len(s) /\ f[j] \in 1 .. Len(s) /\ f[i] < f[j]
  OBVIOUS
<1>2. t[i] = s[f[i]] /\ t[j] = s[f[j]]
  OBVIOUS
<1> QED BY <1>1, <1>2 DEF InOrder

LEMMA InOrderParts ==
  ASSUME NEW s \in Text, NEW t \in Text, NEW h, InOrder(s \o t, h)
  PROVE  InOrder(s, h) /\ InOrder(t, h)
<1> DEFINE whole == s \o t
<1>1. /\ Len(s) \in Nat /\ Len(t) \in Nat /\ Len(whole) = Len(s) + Len(t)
      /\ \A i \in 1 .. Len(s) + Len(t) :
           whole[i] = IF i <= Len(s) THEN s[i] ELSE t[i - Len(s)]
  BY SomeText, ConcatProperties DEF Text
<1> HIDE DEF whole
<1>2. InOrder(whole, h)
  BY DEF whole
<1>3. InOrder(s, h)
  <2> DEFINE f == [i \in 1 .. Len(s) |-> i]
  <2>1. f \in [1 .. Len(s) -> 1 .. Len(whole)]
    BY <1>1
  <2>2. \A i \in 1 .. Len(s) : s[i] = whole[f[i]]
    BY <1>1
  <2>3. \A i, j \in 1 .. Len(s) : i < j => f[i] < f[j]
    OBVIOUS
  <2> HIDE DEF f
  <2> QED BY <1>2, <2>1, <2>2, <2>3, InOrderSelect
<1>4. InOrder(t, h)
  <2> DEFINE f == [i \in 1 .. Len(t) |-> Len(s) + i]
  <2>1. f \in [1 .. Len(t) -> 1 .. Len(whole)]
    BY <1>1
  <2>2. \A i \in 1 .. Len(t) : t[i] = whole[f[i]]
    BY <1>1
  <2>3. \A i, j \in 1 .. Len(t) : i < j => f[i] < f[j]
    BY <1>1
  <2> HIDE DEF f
  <2> QED BY <1>2, <2>1, <2>2, <2>3, InOrderSelect
<1> QED BY <1>3, <1>4

LEMMA InOrderWithout ==
  ASSUME NEW s \in Text, NEW t \in Text, NEW w \in Text, NEW h, InOrder((s \o t) \o w, h)
  PROVE  InOrder(s \o w, h)
<1> DEFINE first == s \o t
           whole == first \o w
           part  == s \o w
           f     == [i \in 1 .. Len(part) |-> IF i <= Len(s) THEN i ELSE i + Len(t)]
<1>1. /\ Len(s) \in Nat /\ Len(t) \in Nat /\ Len(w) \in Nat
      /\ first \in Text /\ Len(first) = Len(s) + Len(t)
      /\ \A i \in 1 .. Len(s) + Len(t) :
           first[i] = IF i <= Len(s) THEN s[i] ELSE t[i - Len(s)]
  BY SomeText, ConcatProperties DEF Text
<1>2. /\ Len(part) = Len(s) + Len(w)
      /\ \A i \in 1 .. Len(s) + Len(w) :
           part[i] = IF i <= Len(s) THEN s[i] ELSE w[i - Len(s)]
  BY SomeText, ConcatProperties DEF Text
<1> HIDE DEF first, part
<1>3. /\ Len(whole) = Len(first) + Len(w)
      /\ \A i \in 1 .. Len(first) + Len(w) :
           whole[i] = IF i <= Len(first) THEN first[i] ELSE w[i - Len(first)]
  <2>1. first \in Seq(Char) /\ w \in Seq(Char)
    BY <1>1 DEF Text
  <2> QED BY <2>1, ConcatProperties
<1>4. InOrder(whole, h)
  BY DEF first
<1> HIDE DEF whole
<1>5. f \in [1 .. Len(part) -> 1 .. Len(whole)]
  BY <1>1, <1>2, <1>3
<1>6. ASSUME NEW i \in 1 .. Len(part) PROVE part[i] = whole[f[i]]
  <2>1. CASE i <= Len(s)
    <3>1. f[i] = i /\ part[i] = s[i] /\ whole[i] = first[i] /\ first[i] = s[i]
      BY <1>1, <1>2, <1>3, <2>1
    <3> QED BY <3>1
  <2>2. CASE ~(i <= Len(s))
    <3>1. f[i] = i + Len(t) /\ part[i] = w[i - Len(s)] /\ whole[i + Len(t)] = w[i - Len(s)]
      BY <1>1, <1>2, <1>3, <2>2
    <3> QED BY <3>1
  <2> QED BY <2>1, <2>2
<1>7. \A i, j \in 1 .. Len(part) : i < j => f[i] < f[j]
  BY <1>1, <1>2
<1> HIDE DEF f
<1>8. InOrder(part, h)
  BY <1>4, <1>5, <1>6, <1>7, InOrderSelect
<1> QED BY <1>8 DEF part

(* What is read after all the rest comes after it.                           *)
LEMMA InOrderExtend ==
  ASSUME NEW s \in Text, NEW buf \in Text, NEW h \in Text,
         InOrder(s, h), CharsOf(s) \subseteq CharsOf(h) \cup {NL}
  PROVE  InOrder(s \o buf, h \o buf)
<1> DEFINE t == s \o buf
           g == h \o buf
<1>1. /\ Len(s) \in Nat /\ Len(buf) \in Nat /\ Len(h) \in Nat
      /\ Len(t) = Len(s) + Len(buf) /\ Len(g) = Len(h) + Len(buf)
      /\ \A i \in 1 .. Len(s) + Len(buf) :
           t[i] = IF i <= Len(s) THEN s[i] ELSE buf[i - Len(s)]
      /\ \A i \in 1 .. Len(h) + Len(buf) :
           g[i] = IF i <= Len(h) THEN h[i] ELSE buf[i - Len(h)]
  BY SomeText, ConcatProperties DEF Text
<1> HIDE DEF t, g
<1>2. \A i \in 1 .. Len(h) : i \in 1 .. Len(g) /\ g[i] = h[i]
  BY <1>1
<1>3. \A i \in 1 .. Len(buf) :
        Len(h) + i \in Len(h) + 1 .. Len(g) /\ g[Len(h) + i] = buf[i]
  BY <1>1
<1>4. ASSUME NEW i \in 1 .. Len(t), NEW j \in 1 .. Len(t), i < j,
             NL \notin {t[i], t[j]}
      PROVE  \E a, b \in 1 .. Len(g) : a < b /\ g[a] = t[i] /\ g[b] = t[j]
  <2>1. CASE j <= Len(s)
    <3>1. i \in 1 .. Len(s) /\ j \in 1 .. Len(s) /\ t[i] = s[i] /\ t[j] = s[j]
      BY <1>1, <1>4, <2>1
    <3>2. NL \notin {s[i], s[j]}
      BY <1>4, <3>1
    <3>3. PICK a, b \in 1 .. Len(h) : a < b /\ h[a] = s[i] /\ h[b] = s[j]
      BY <1>4, <3>1, <3>2 DEF InOrder
    <3> QED BY <1>2, <3>1, <3>3
  <2>2. CASE i <= Len(s) /\ ~(j <= Len(s))
    <3>1. i \in 1 .. Len(s) /\ t[i] = s[i]
          /\ j - Len(s) \in 1 .. Len(buf) /\ t[j] = buf[j - Len(s)]
      BY <1>1, <1>4, <2>2
    <3>2. PICK a \in 1 .. Len(h) : h[a] = s[i]
      <4>1. s[i] \in CharsOf(h)
        BY <1>4, <3>1 DEF CharsOf
      <4> QED BY <4>1 DEF CharsOf
    <3>3. /\ a \in 1 .. Len(g) /\ g[a] = t[i]
          /\ Len(h) + (j - Len(s)) \in 1 .. Len(g) /\ g[Len(h) + (j - Len(s))] = t[j]
          /\ a < Len(h) + (j - Len(s))
      <4>1. a \in 1 .. Len(g) /\ g[a] = t[i]
        BY <1>2, <3>1, <3>2
      <4>2. /\ Len(h) + (j - Len(s)) \in Len(h) + 1 .. Len(g)
            /\ g[Len(h) + (j - Len(s))] = t[j]
        BY <1>3, <3>1
      <4> QED BY <1>1, <4>1, <4>2
    <3> QED BY <3>3
  <2>3. CASE ~(i <= Len(s))
    <3>1. /\ i - Len(s) \in 1 .. Len(buf) /\ t[i] = buf[i - Len(s)]
          /\ j - Len(s) \in 1 .. Len(buf) /\ t[j] = buf[j - Len(s)]
      BY <1>1, <1>4, <2>3
    <3>2. /\ Len(h) + (i - Len(s)) \in 1 .. Len(g) /\ g[Len(h) + (i - Len(s))] = t[i]
          /\ Len(h) + (j - Len(s)) \in 1 .. Len(g) /\ g[Len(h) + (j - Len(s))] = t[j]
          /\ Len(h) + (i - Len(s)) < Len(h) + (j - Len(s))
      <4>1. /\ Len(h) + (i - Len(s)) \in Len(h) + 1 .. Len(g)
            /\ g[Len(h) + (i - Len(s))] = t[i]
        BY <1>3, <3>1
      <4>2. /\ Len(h) + (j - Len(s)) \in Len(h) + 1 .. Len(g)
            /\ g[Len(h) + (j - Len(s))] = t[j]
        BY <1>3, <3>1
      <4> QED BY <1>1, <1>4, <3>1, <4>1, <4>2, SMTT(40)
    <3> QED BY <3>2
  <2> QED BY <1>1, <2>1, <2>2, <2>3
<1>5. InOrder(t, g)
  BY <1>4 DEF InOrder
<1> QED BY <1>5 DEF t, g

LEMMA TextAssoc ==
  ASSUME NEW s \in Text, NEW t \in Text, NEW w \in Text
  PROVE  (s \o t) \o w = s \o (t \o w)
<1>1. s \in Seq(Char) /\ t \in Seq(Char) /\ w \in Seq(Char)
  BY DEF Text
<1> QED BY <1>1, ConcatAssociative, SMTT(40)

(* What was read can be seen on the terminal in its order, and so can what   *)
(* the terminal will show when the prompt is painted: in place of the        *)
(* cursor's row, or, if patient mode has held the prompt back, after it.     *)
Ordered(u, h) ==
  /\ ~HasNL(u.row) /\ ~HasNL(u.raw_prompt)
  /\ CharsOf(u.scrolled) \cup CharsOf(u.row) \cup CharsOf(u.raw_prompt)
       \subseteq CharsOf(h) \cup {NL}
  /\ InOrder(u.scrolled \o u.row, h)
  /\ InOrder(u.scrolled \o u.raw_prompt, h)
  /\ ~impatient_prompt /\ u.prompt_is_still_uncooked =>
       InOrder((u.scrolled \o u.row) \o u.raw_prompt, h)

LEMMA RestoreOrdered ==
  ASSUME NEW u, Coherent(u), NEW h, Ordered(u, h)
  PROVE  Ordered(restore_rl_state(u), h)
<1> DEFINE held == u.prompt_is_still_uncooked /\ ~impatient_prompt
           m    == move_cursor_to_start_of_prompt(u)
           c    == cook_prompt_if_necessary(m)
           v    == mirror_slaves_echo_mode(c)
           r    == restore_rl_state(u)
<1>0. /\ u.scrolled \in Text /\ u.row \in Text /\ u.raw_prompt \in Text /\ u \in UiType
  BY DEF Coherent, UiType
<1>1. /\ Coherent(m) /\ SameButScreen(u, m) /\ m.scrolled = u.scrolled
      /\ m.row = IF held THEN u.row ELSE <<>>
  BY MoveCoherent DEF move_cursor_to_start_of_prompt, Coherent, UiType
<1>2. Coherent(c) /\ c = [m EXCEPT !.cooked_prompt = m.raw_prompt]
  BY <1>1, CookCoherent
<1>3. Coherent(v) /\ v = [c EXCEPT !.redisplay = v.redisplay]
  BY <1>2, MirrorCoherent
<1>4. r = [v EXCEPT !.row = v.row \o v.cooked_prompt, !.handler = TRUE,
                  !.line = v.input_buffer, !.rl_point = v.point,
                  !.already_saved = FALSE, !.prompt_is_still_uncooked = FALSE]
  BY DEF restore_rl_state
<1> HIDE DEF m, c, v
<1>5. /\ v.cooked_prompt = u.raw_prompt /\ v.scrolled = u.scrolled
      /\ v.row = IF held THEN u.row ELSE <<>>
  BY <1>1, <1>2, <1>3 DEF SameButScreen, Coherent, UiType
<1>6. /\ r.row = v.row \o u.raw_prompt /\ r.scrolled = u.scrolled
      /\ ~r.prompt_is_still_uncooked /\ r.raw_prompt = u.raw_prompt
  BY <1>3, <1>4, <1>5, RestoreCoherent DEF Coherent, UiType
<1> HIDE DEF r
<1>7. CASE held
  <2>1. r.row = u.row \o u.raw_prompt
    BY <1>5, <1>6, <1>7
  <2>2. (u.scrolled \o u.row) \o u.raw_prompt = u.scrolled \o (u.row \o u.raw_prompt)
    BY <1>0, TextAssoc
  <2>3. InOrder(r.scrolled \o r.row, h)
    BY <1>6, <1>7, <2>1, <2>2 DEF Ordered
  <2>4. CharsOf(r.row) = CharsOf(u.row) \cup CharsOf(u.raw_prompt)
    BY <1>0, <2>1, CharsOfPieces
  <2>5. ~HasNL(r.row)
    <3>1. r.row \in Text
      BY <1>0, <2>1, SomeText
    <3>2. NL \notin CharsOf(u.row) /\ NL \notin CharsOf(u.raw_prompt)
      BY <1>0, CharsOfPieces DEF Ordered
    <3> QED BY <2>4, <3>1, <3>2, CharsOfPieces
  <2> QED BY <1>6, <2>3, <2>4, <2>5 DEF Ordered, r
<1>8. CASE ~held
  <2>1. r.row = u.raw_prompt
    BY <1>0, <1>5, <1>6, <1>8, ConcatEmptySeq DEF Text
  <2> QED BY <1>6, <2>1 DEF Ordered, r
<1> QED BY <1>7, <1>8

LEMMA StartOrdered ==
  ASSUME NEW u, Coherent(u), NEW h, Ordered(u, h)
  PROVE  Ordered(start_line_edit(u), h)
<1> DEFINE w == [u EXCEPT !.within_line_edit = TRUE]
<1>1. /\ Coherent(w) /\ w.raw_prompt = u.raw_prompt /\ w.scrolled = u.scrolled
      /\ w.row = u.row /\ w.prompt_is_still_uncooked = u.prompt_is_still_uncooked
  BY DEF Coherent, UiType
<1>2. start_line_edit(u) = restore_rl_state(w)
  BY DEF start_line_edit
<1> HIDE DEF w
<1>3. Ordered(w, h)
  BY <1>1 DEF Ordered
<1> QED BY <1>1, <1>2, <1>3, RestoreOrdered

(* Output of the client, as long as the command is not known to be dead.     *)
LEMMA ShowOrdered ==
  ASSUME NEW u, Coherent(u), NEW buf \in Text, NEW h \in Text, Ordered(u, h),
         impatient_prompt \in BOOLEAN, impatient_prompt \/ ~command_is_dead
  PROVE  Ordered(show_output(u, buf), h \o buf)
<1> DEFINE leave    == leave_prompt_alone(u, buf)
           raw      == IF forgets_prompt(u, buf) THEN <<>> ELSE u.raw_prompt
           row      == IF leave THEN u.row ELSE <<>>
           prompted == raw \o buf
           shown    == IF ~impatient_prompt THEN UpToLastNL(prompted)
                       ELSE IF leave THEN buf ELSE prompted
           r        == show_output(u, buf)
           g        == h \o buf
           top      == u.scrolled
<1>1. /\ raw \in Text /\ row \in Text /\ prompted \in Text /\ shown \in Text
      /\ r.scrolled = top \o UpToLastNL(row \o shown)
      /\ r.row = AfterLastNL(row \o shown)
      /\ r.raw_prompt = AfterLastNL(prompted)
      /\ r.prompt_is_still_uncooked
  BY ShowSplits
<1>2. /\ top \in Text /\ u.row \in Text /\ u.raw_prompt \in Text
  BY DEF Coherent, UiType
<1>3. raw \in {<<>>, u.raw_prompt} /\ row \in {<<>>, u.row}
  OBVIOUS
<1>4. ~leave => raw = u.raw_prompt /\ row = <<>>
  BY DEF forgets_prompt
<1>5. leave /\ ~impatient_prompt => raw = <<>> \/ u.prompt_is_still_uncooked
  BY DEF forgets_prompt, leave_prompt_alone
<1>6. leave => row = u.row
  OBVIOUS
<1>7. shown = IF ~impatient_prompt THEN UpToLastNL(prompted)
              ELSE IF leave THEN buf ELSE prompted
  OBVIOUS
<1>8. /\ InOrder(top \o u.row, h) /\ InOrder(top \o u.raw_prompt, h)
      /\ (~impatient_prompt /\ u.prompt_is_still_uncooked =>
            InOrder((top \o u.row) \o u.raw_prompt, h))
      /\ CharsOf(top) \cup CharsOf(u.row) \cup CharsOf(u.raw_prompt)
           \subseteq CharsOf(h) \cup {NL}
  BY DEF Ordered
<1> HIDE DEF leave, raw, row, shown, r, g, top
<1>9. top \in Text
  BY <1>2
<1>10. u.row \in Text /\ u.raw_prompt \in Text
  BY <1>2
<1>11. raw \in Text
  BY <1>1
<1>12. row \in Text /\ shown \in Text
  BY <1>1
<1>13. /\ row \o shown \in Text
       /\ UpToLastNL(row \o shown) \in Text /\ AfterLastNL(row \o shown) \in Text
       /\ UpToLastNL(prompted) \in Text /\ AfterLastNL(prompted) \in Text
       /\ UpToLastNL(row \o shown) \o AfterLastNL(row \o shown) = row \o shown
       /\ UpToLastNL(prompted) \o AfterLastNL(prompted) = prompted
       /\ ~HasNL(AfterLastNL(row \o shown)) /\ ~HasNL(AfterLastNL(prompted))
  BY <1>1, SomeText, SplitText
<1>14. r.scrolled \o r.row = top \o (row \o shown)
  <2>1. PICK a \in Text : a = UpToLastNL(row \o shown)
    BY <1>13
  <2>2. PICK b \in Text : b = AfterLastNL(row \o shown)
    BY <1>13
  <2>3. (top \o a) \o b = top \o (a \o b)
    BY <1>9, TextAssoc
  <2> QED BY <1>1, <1>13, <2>1, <2>2, <2>3
\* Nothing but what was there, and what was read, is shown.
<1>15. CharsOf(r.scrolled) \cup CharsOf(r.row) \cup CharsOf(r.raw_prompt)
         \subseteq CharsOf(g) \cup {NL}
  <2>1. CharsOf(g) = CharsOf(h) \cup CharsOf(buf)
    BY CharsOfPieces DEF g
  <2>2. CharsOf(r.scrolled) = CharsOf(top) \cup CharsOf(UpToLastNL(row \o shown))
    BY <1>1, <1>2, <1>13, CharsOfPieces
  <2>3. CharsOf(UpToLastNL(row \o shown)) \cup CharsOf(r.row) = CharsOf(row) \cup CharsOf(shown)
    BY <1>1, <1>13, CharsOfPieces
  <2>4. CharsOf(UpToLastNL(prompted)) \cup CharsOf(r.raw_prompt) = CharsOf(raw) \cup CharsOf(buf)
    BY <1>1, CharsOfPieces
  <2>5. CharsOf(shown) \subseteq CharsOf(raw) \cup CharsOf(buf)
    BY <1>1, <1>7, <2>4, CharsOfPieces
  <2>6. CharsOf(raw) \subseteq CharsOf(u.raw_prompt) /\ CharsOf(row) \subseteq CharsOf(u.row)
    BY <1>3, CharsOfPieces
  <2> QED BY <1>8, <2>1, <2>2, <2>3, <2>4, <2>5, <2>6
\* New output comes after any of the texts the invariant speaks of.
<1>16. ASSUME NEW s \in Text, InOrder(s, h),
              CharsOf(s) \subseteq CharsOf(top) \cup CharsOf(u.row) \cup CharsOf(u.raw_prompt)
       PROVE  InOrder(s \o buf, g)
  <2>1. CharsOf(s) \subseteq CharsOf(h) \cup {NL}
    BY <1>16, <1>8
  <2> QED BY <1>16, <2>1, InOrderExtend DEF g
<1>17. /\ top \o u.row \in Text /\ top \o raw \in Text
       /\ CharsOf(top \o u.row) \subseteq CharsOf(top) \cup CharsOf(u.row) \cup CharsOf(u.raw_prompt)
       /\ CharsOf(top \o raw) \subseteq CharsOf(top) \cup CharsOf(u.row) \cup CharsOf(u.raw_prompt)
  <2>1. CharsOf(raw) \subseteq CharsOf(u.raw_prompt)
    BY <1>3, CharsOfPieces
  <2>2. CharsOf(top \o u.row) = CharsOf(top) \cup CharsOf(u.row) /\ top \o u.row \in Text
    BY <1>9, <1>10, <1>11, <1>12, SomeText, CharsOfPieces
  <2>3. CharsOf(top \o raw) = CharsOf(top) \cup CharsOf(raw) /\ top \o raw \in Text
    BY <1>9, <1>10, <1>11, <1>12, SomeText, CharsOfPieces
  <2> QED BY <2>1, <2>2, <2>3
<1>18. InOrder(top, h) /\ InOrder(top \o raw, h)
  <2>1. InOrder(top \o u.raw_prompt, h)
    BY <1>8
  <2>2. InOrder(top, h)
    BY <1>2, <2>1, InOrderParts
  <2>3. raw = <<>> => top \o raw = top
    BY <1>2, ConcatEmptySeq DEF Text
  <2> QED BY <1>3, <2>1, <2>2, <2>3
<1>19. InOrder(top \o prompted, g)
  <2>1. (top \o raw) \o buf = top \o prompted
    BY <1>9, <1>11, TextAssoc
  <2> QED BY <1>16, <1>17, <1>18, <2>1
\* Impatient mode: the prompt is on the terminal.
<1>20. ASSUME impatient_prompt
       PROVE  InOrder(r.scrolled \o r.row, g) /\ InOrder(r.scrolled \o r.raw_prompt, g)
  <2>1. CASE ~leave
    <3>1. row \o shown = prompted
      BY <1>1, <1>4, <1>7, <1>20, <2>1, ConcatEmptySeq DEF Text
    <3> QED BY <1>1, <1>14, <1>19, <3>1
  <2>2. CASE leave
    <3>1. row \o shown = u.row \o buf
      BY <1>6, <1>7, <1>20, <2>2
    <3>2. InOrder(r.scrolled \o r.row, g)
      <4>1. (top \o u.row) \o buf = top \o (u.row \o buf)
        <5>1. PICK b \in Text : b = u.row
          BY <1>10
        <5>2. (top \o b) \o buf = top \o (b \o buf)
          BY <1>9, TextAssoc
        <5> QED BY <5>1, <5>2
      <4>2. InOrder(top \o u.row, h)
        BY <1>8
      <4> QED BY <1>14, <1>16, <1>17, <3>1, <4>1, <4>2
    <3>3. CASE HasNL(buf)
      <4>1. AfterLastNL(u.row \o buf) = AfterLastNL(buf)
        BY <1>2, <3>3, SplitConcat
      <4>2. AfterLastNL(prompted) = AfterLastNL(buf)
        BY <1>1, <3>3, SplitConcat
      <4> QED BY <1>1, <3>1, <3>2, <4>1, <4>2
    <3>4. CASE ~HasNL(buf)
      <4>1. UpToLastNL(u.row \o buf) = <<>>
        <5>1. UpToLastNL(u.row \o buf) = UpToLastNL(u.row)
          BY <1>9, <1>10, <1>11, <1>12, <3>4, SplitConcat
        <5>2. UpToLastNL(u.row) = <<>>
          BY <1>9, <1>10, <1>11, <1>12, SplitText DEF Ordered
        <5> QED BY <5>1, <5>2
      <4>2. r.scrolled = top
        BY <1>1, <1>2, <3>1, <4>1, ConcatEmptySeq DEF Text
      <4>3. ~HasNL(raw)
        BY <1>3, SomeText DEF Ordered, HasNL
      <4>4. AfterLastNL(prompted) = prompted
        <5>1. AfterLastNL(raw \o buf) = AfterLastNL(raw) \o buf
          BY <1>9, <1>10, <1>11, <1>12, <3>4, SplitConcat
        <5>2. AfterLastNL(raw) = raw
          BY <1>9, <1>10, <1>11, <1>12, <4>3, SplitText
        <5> QED BY <5>1, <5>2
      <4> QED BY <1>1, <1>19, <3>2, <4>2, <4>4
    <3> QED BY <3>3, <3>4
  <2> QED BY <2>1, <2>2
\* Patient mode: the finished lines of the prompt are shown, the rest is held
\* back.
<1>21. ASSUME ~impatient_prompt
       PROVE  InOrder((r.scrolled \o r.row) \o r.raw_prompt, g)
  <2>1. shown = UpToLastNL(prompted)
    BY <1>7, <1>21
  <2>2. (r.scrolled \o r.row) \o r.raw_prompt = (top \o row) \o prompted
    <3>1. (top \o row) \o shown = top \o (row \o shown)
      BY <1>9, <1>12, TextAssoc
    <3>2. PICK t \in Text : t = top \o row
      BY <1>9, <1>10, <1>11, <1>12, SomeText
    <3>3. PICK b \in Text : b = AfterLastNL(prompted)
      BY <1>13
    <3>4. (t \o shown) \o b = t \o (shown \o b)
      BY <1>12, TextAssoc, SMTT(40)
    <3> QED BY <1>1, <1>13, <1>14, <2>1, <3>1, <3>2, <3>3, <3>4
  <2>3. CASE ~leave
    <3>1. top \o row = top
      BY <1>2, <1>4, <2>3, ConcatEmptySeq DEF Text
    <3> QED BY <1>19, <2>2, <3>1
  <2>4. CASE leave
    <3>1. InOrder((top \o u.row) \o raw, h)
      <4>1. CASE raw = <<>>
        <5>1. (top \o u.row) \o raw = top \o u.row
          BY <1>17, <4>1, ConcatEmptySeq DEF Text
        <5> QED BY <1>8, <5>1
      <4>2. CASE raw # <<>>
        BY <1>3, <1>5, <1>21, <1>8, <2>4, <4>2
      <4> QED BY <4>1, <4>2
    <3>2. /\ (top \o u.row) \o raw \in Text
          /\ CharsOf((top \o u.row) \o raw)
               \subseteq CharsOf(top) \cup CharsOf(u.row) \cup CharsOf(u.raw_prompt)
      <4>1. CharsOf(raw) \subseteq CharsOf(u.raw_prompt)
        BY <1>3, CharsOfPieces
      <4>2. PICK t \in Text : t = top \o u.row
        BY <1>17
      <4>3. t \o raw \in Text /\ CharsOf(t \o raw) = CharsOf(t) \cup CharsOf(raw)
        BY <1>1, SomeText, CharsOfPieces
      <4> QED BY <1>17, <4>1, <4>2, <4>3
    <3>3. ((top \o u.row) \o raw) \o buf = (top \o u.row) \o prompted
      <4>1. PICK t \in Text : t = top \o u.row
        BY <1>17
      <4>2. (t \o raw) \o buf = t \o (raw \o buf)
        BY <1>11, TextAssoc
      <4> QED BY <4>1, <4>2
    <3> QED BY <1>6, <1>16, <2>2, <2>4, <3>1, <3>2, <3>3
  <2> QED BY <2>3, <2>4
<1>22. /\ InOrder(r.scrolled \o r.row, g) /\ InOrder(r.scrolled \o r.raw_prompt, g)
       /\ ~impatient_prompt => InOrder((r.scrolled \o r.row) \o r.raw_prompt, g)
  <2>1. r.scrolled \in Text /\ r.row \in Text /\ r.raw_prompt \in Text
        /\ r.scrolled \o r.row \in Text
    <3>1. PICK a \in Text : a = UpToLastNL(row \o shown)
      BY <1>13
    <3>2. top \o a \in Text
      BY <1>9, <1>10, <1>11, <1>12, SomeText
    <3>3. r.scrolled \in Text /\ r.row \in Text /\ r.raw_prompt \in Text
      BY <1>1, <1>13, <3>1, <3>2
    <3> QED BY <3>3, SomeText
  <2>2. CASE impatient_prompt
    BY <1>20, <2>2
  <2>3. CASE ~impatient_prompt
    <3>1. InOrder((r.scrolled \o r.row) \o r.raw_prompt, g)
      BY <1>21, <2>3
    <3> QED BY <2>1, <3>1, InOrderParts, InOrderWithout
  <2> QED BY <2>2, <2>3
<1>23. Ordered(r, g)
  BY <1>1, <1>13, <1>15, <1>22 DEF Ordered
<1> QED BY <1>23 DEF r, g

LEMMA OrderedTheSame ==
  ASSUME NEW u, NEW v, NEW h, Ordered(u, h),
         v.raw_prompt = u.raw_prompt, v.scrolled = u.scrolled, v.row = u.row,
         v.prompt_is_still_uncooked => u.prompt_is_still_uncooked
  PROVE  Ordered(v, h)
BY DEF Ordered

LEMMA SaveOrdered ==
  ASSUME NEW u, Coherent(u), NEW h, Ordered(u, h)
  PROVE  Ordered(save_rl_state(u), h)
<1> DEFINE s == save_rl_state(u)
<1>1. /\ s.raw_prompt = u.raw_prompt /\ s.scrolled = u.scrolled /\ s.row = u.row
      /\ s.prompt_is_still_uncooked = u.prompt_is_still_uncooked
  BY DEF save_rl_state, Coherent, UiType
<1> HIDE DEF s
<1>2. Ordered(s, h)
  BY <1>1, OrderedTheSame
<1> QED BY <1>2 DEF s

LEMMA HandleOutputOrdered ==
  ASSUME NEW u, Ready(u), NEW buf \in Text, NEW h \in Text, Ordered(u, h),
         impatient_prompt \in BOOLEAN, impatient_prompt \/ ~command_is_dead
  PROVE  Ordered(handle_output(u, buf), h \o buf)
<1>1. Coherent(u)
  BY DEF Ready
<1>2. CASE u.within_line_edit
  <2> DEFINE before == save_rl_state(u)
             after  == show_output(before, buf)
  <2>1. Coherent(before) /\ Ordered(before, h)
    BY <1>1, <1>2, SaveCoherent, SaveOrdered DEF Ready, Editing
  <2>2. handle_output(u, buf) = restore_rl_state(after)
    BY <1>2 DEF handle_output
  <2> HIDE DEF before
  <2>3. Coherent(after) /\ Ordered(after, h \o buf)
    BY <2>1, ShowCoherent, ShowOrdered
  <2> HIDE DEF after
  <2> QED BY <2>2, <2>3, RestoreOrdered
<1>3. CASE ~u.within_line_edit
  BY <1>1, <1>3, ShowOrdered DEF handle_output
<1> QED BY <1>2, <1>3

LEMMA CookingOrdered ==
  ASSUME NEW u, Coherent(u), NEW h, Ordered(u, h), ~skip_rlwrap
  PROVE  Ordered(cooking_time(u), h)
<1>1. CASE u.we_just_got_a_signal_or_EOF
  <2> DEFINE v == [u EXCEPT !.we_just_got_a_signal_or_EOF = FALSE]
  <2>1. /\ v.raw_prompt = u.raw_prompt /\ v.scrolled = u.scrolled /\ v.row = u.row
        /\ v.prompt_is_still_uncooked = u.prompt_is_still_uncooked
    BY DEF Coherent, UiType
  <2>2. cooking_time(u) = v
    BY <1>1 DEF cooking_time
  <2> HIDE DEF v
  <2> QED BY <2>1, <2>2, OrderedTheSame
<1>2. CASE ~u.we_just_got_a_signal_or_EOF
  BY <1>2, StartOrdered DEF cooking_time
<1> QED BY <1>1, <1>2

(* The row is wiped: all that is painted again is the prompt.                *)
LEMMA WinsizeOrdered ==
  ASSUME NEW u, Ready(u), NEW h, Ordered(u, h), ~skip_rlwrap
  PROVE  Ordered(adapt_tty_winsize(u), h)
<1> DEFINE wiped == [u EXCEPT !.row = <<>>]
<1>1. /\ Coherent(wiped) /\ wiped.raw_prompt = u.raw_prompt
      /\ wiped.scrolled = u.scrolled /\ wiped.row = <<>>
  BY SomeText DEF Ready, Coherent, UiType
<1>2. u.scrolled \in Text /\ u.raw_prompt \in Text
  BY DEF Ready, Coherent, UiType
<1>3. CASE u.within_line_edit
  <2> DEFINE r == adapt_tty_winsize(u)
  <2>1. u.cooked_prompt = u.raw_prompt /\ ~u.prompt_is_still_uncooked
    BY <1>3 DEF Ready, Editing, Coherent
  <2>2. r = [u EXCEPT !.row = u.cooked_prompt]
    BY <1>3 DEF adapt_tty_winsize, Ready, Coherent, UiType
  <2> HIDE DEF r
  <2>3. /\ r.raw_prompt = u.raw_prompt /\ r.scrolled = u.scrolled
        /\ r.row = u.raw_prompt /\ ~r.prompt_is_still_uncooked
    BY <2>1, <2>2 DEF Ready, Coherent, UiType
  <2>4. Ordered(r, h)
    BY <2>3 DEF Ordered
  <2> QED BY <2>4 DEF r
<1>4. CASE ~u.within_line_edit
  <2>1. adapt_tty_winsize(u) = start_line_edit(wiped)
    BY <1>4 DEF adapt_tty_winsize
  <2> HIDE DEF wiped
  <2>2. CharsOf(<<>>) = {} /\ ~HasNL(<<>>)
    BY SomeText, CharsOfPieces DEF HasNL
  <2>3. u.scrolled \o <<>> = u.scrolled /\ InOrder(u.scrolled, h)
    <3>1. InOrder(u.scrolled \o u.raw_prompt, h)
      BY DEF Ordered
    <3> QED BY <1>2, <3>1, ConcatEmptySeq, InOrderParts DEF Text
  <2>4. Ordered(wiped, h)
    BY <1>1, <2>2, <2>3 DEF Ordered
  <2> QED BY <1>1, <2>1, <2>4, StartOrdered
<1> QED BY <1>3, <1>4

(* A key for readline: a prompt whose line is accepted stays on its row.     *)
LEMMA EditKeyOrdered ==
  ASSUME NEW u, Coherent(u), NEW key, edit_key(u, key), NEW h, Ordered(u, h)
  PROVE  Ordered(ui', h)
<1>1. CASE accept_line(u)
  <2>1. /\ ui'.raw_prompt = <<>> /\ ui'.scrolled = u.scrolled /\ ui'.row = u.row
        /\ ui'.prompt_is_still_uncooked = u.prompt_is_still_uncooked
    BY <1>1 DEF accept_line, line_handler, Coherent, UiType
  <2>2. u.scrolled \in Text /\ u.row \in Text /\ u.raw_prompt \in Text
    BY DEF Coherent, UiType
  <2>3. CharsOf(<<>>) = {} /\ ~HasNL(<<>>)
    BY SomeText, CharsOfPieces DEF HasNL
  <2>4. PICK t \in Text : t = u.scrolled \o u.row
    BY <2>2, SomeText
  <2>5. u.scrolled \o <<>> = u.scrolled /\ t \o <<>> = t
    BY <2>2, ConcatEmptySeq DEF Text
  <2>6. InOrder(u.scrolled \o u.row, h)
    BY DEF Ordered
  <2>7. InOrder(u.scrolled, h)
    BY <2>2, <2>6, InOrderParts
  <2> QED BY <2>1, <2>3, <2>4, <2>5, <2>6, <2>7 DEF Ordered
<1>2. CASE ~accept_line(u)
  <2>1. \/ ui' = u \/ ui' = backward_char(u) \/ ui' = self_insert(u, key)
        \/ ui' = [u EXCEPT !.we_just_got_a_signal_or_EOF = TRUE]
    BY <1>2 DEF edit_key, send_EOF
  <2>2. /\ ui'.raw_prompt = u.raw_prompt /\ ui'.scrolled = u.scrolled /\ ui'.row = u.row
        /\ ui'.prompt_is_still_uncooked = u.prompt_is_still_uncooked
    BY <2>1 DEF backward_char, self_insert, Coherent, UiType
  <2> QED BY <2>2, OrderedTheSame
<1> QED BY <1>1, <1>2

(* Along every step, without direct mode (whose output may overtake a prompt *)
(* that patient mode holds back) and without being suspended (upon which the *)
(* prompt is printed again). In patient mode the command has to be alive.    *)
OrderInv ==
  pc # "stopped" /\ (impatient_prompt \/ ~command_is_dead => Ordered(ui, heard))

LEMMA InitOrderInv == Init => OrderInv
<1> SUFFICES ASSUME Init PROVE OrderInv
  OBVIOUS
<1>1. /\ pc # "stopped" /\ heard = <<>>
      /\ ui.scrolled = <<>> /\ ui.row = <<>> /\ ui.raw_prompt = <<>>
  BY DEF Init, InitialUi
<1>2. CharsOf(<<>>) = {} /\ ~HasNL(<<>>) /\ InOrder(<<>>, <<>>)
  BY SomeText, CharsOfPieces DEF HasNL, InOrder
<1>3. <<>> \o <<>> = <<>>
  BY ConcatEmptySeq, SomeText DEF Text
<1> QED BY <1>1, <1>2, <1>3 DEF OrderInv, Ordered

LEMMA SignalOrdered ==
  ASSUME EditorInv, Ordered(ui, heard), ~skip_rlwrap, PassOnSignal \/ WindowChanges
  PROVE  Ordered(ui', heard)
<1>1. Ready(ui) /\ Coherent(ui)
  BY InvReady DEF PassOnSignal, WindowChanges, Ready
<1> DEFINE noted(b) == [ui EXCEPT !.we_just_got_a_signal_or_EOF = b]
<1>2. ASSUME NEW b \in BOOLEAN
      PROVE  Ready(noted(b)) /\ Ordered(noted(b), heard)
  <2>1. Ready(noted(b))
    BY <1>1 DEF Ready, Editing, Coherent, UiType
  <2>2. /\ noted(b).raw_prompt = ui.raw_prompt
        /\ noted(b).prompt_is_still_uncooked = ui.prompt_is_still_uncooked
        /\ noted(b).scrolled = ui.scrolled /\ noted(b).row = ui.row
    BY <1>1 DEF Coherent, UiType
  <2> HIDE DEF noted
  <2> QED BY <2>1, <2>2, OrderedTheSame
<1>3. \E b \in BOOLEAN : ui' = noted(b) \/ ui' = adapt_tty_winsize(noted(b))
  BY <1>1, MainLoopAssumption DEF PassOnSignal, WindowChanges, EditorInv, TypeOK, Coherent, UiType
<1> HIDE DEF noted
<1> QED BY <1>2, <1>3, WinsizeOrdered

LEMMA ReadStdinOrdered ==
  ASSUME EditorInv, Ordered(ui, heard), ~skip_rlwrap, ReadStdin
  PROVE  Ordered(ui', heard)
<1> DEFINE u == IF ui.within_line_edit THEN ui ELSE start_line_edit(ui)
<1>1. Ready(ui) /\ Coherent(ui)
  BY InvReady DEF ReadStdin, Ready
<1>2. edit_key(u, Head(typed))
  BY DEF ReadStdin
<1>3. Coherent(u) /\ Ordered(u, heard)
  BY <1>1, StartCoherent, StartOrdered
<1> HIDE DEF u
<1> QED BY <1>2, <1>3, EditKeyOrdered

LEMMA StepOrderInv ==
  ASSUME NeverDirect, "TSTP" \notin Signals, EditorInv, TextInv, OrderInv, [Next]_vars
  PROVE  OrderInv'
<1>1. ~skip_rlwrap
  BY NotDirect DEF TextInv
<1>2. pc' # "stopped"
  BY DEF OrderInv, Next, Loop, Handlers, World, ReadPty, ReadPtyFails, ReadStdin, WritePty,
         flush_output_queue, Timeout, PassOnSignal, WindowChanges, Suspend, Resume, ChildDied,
         ClientPrints, ClientAsksPassword, ClientSetsMode, ClientClosesTty, ClientExits,
         UserType, HangUp, vars
<1>3. impatient_prompt' = impatient_prompt /\ (command_is_dead => command_is_dead')
  BY DEF Next, Loop, Handlers, World, ReadPty, ReadPtyFails, ReadStdin, WritePty, Timeout,
         PassOnSignal, WindowChanges, Suspend, Resume, ChildDied, ClientPrints,
         ClientAsksPassword, ClientSetsMode, ClientClosesTty, ClientExits, UserType,
         HangUp, vars
<1>4. ASSUME impatient_prompt \/ ~command_is_dead
      PROVE  Ordered(ui', heard')
  <2>1. Ordered(ui, heard)
    BY <1>4 DEF OrderInv
  <2>2. CASE ReadPty
    <3>1. /\ Ready(ui) /\ pty_out \in Text /\ heard \in Text /\ impatient_prompt \in BOOLEAN
      BY <2>2, InvReady DEF ReadPty, EditorInv, TypeOK
    <3>2. ui' = handle_output(ui, pty_out) /\ heard' = heard \o pty_out
      BY <1>1, <2>2 DEF ReadPty
    <3> QED BY <1>4, <2>1, <3>1, <3>2, HandleOutputOrdered
  <2>3. CASE ReadStdin
    BY <1>1, <2>1, <2>3, ReadStdinOrdered DEF ReadStdin
  <2>4. CASE Timeout
    <3>1. Coherent(ui) /\ heard' = heard /\ (ui' = ui \/ ui' = cooking_time(ui))
      BY <2>4, InvReady DEF Timeout, Ready, loopVars
    <3> QED BY <1>1, <2>1, <3>1, CookingOrdered
  <2>5. CASE PassOnSignal \/ WindowChanges
    BY <1>1, <2>1, <2>5, SignalOrdered DEF PassOnSignal, WindowChanges, loopVars
  <2>6. CASE Suspend \/ Resume
    BY <2>6 DEF Suspend, Resume, OrderInv
  <2>7. CASE ReadPtyFails \/ WritePty \/ ChildDied \/ World \/ UNCHANGED vars
    <3>1. UNCHANGED <<ui, heard>>
      BY <2>7 DEF ReadPtyFails, WritePty, ChildDied, World, ClientPrints, ClientAsksPassword,
                  ClientSetsMode, ClientClosesTty, ClientExits, UserType, HangUp, vars, loopVars
    <3> QED BY <2>1, <3>1
  <2> QED BY <2>2, <2>3, <2>4, <2>5, <2>6, <2>7 DEF Next, Loop, Handlers
<1>5. impatient_prompt' \/ ~command_is_dead' => Ordered(ui, heard)'
  BY <1>3, <1>4 DEF Ordered
<1> QED BY <1>2, <1>5 DEF OrderInv

(* The terminal shows what was read in the order in which it was read, each  *)
(* character as often as it was read.                                        *)
THEOREM ShownInOrder ==
  ASSUME NeverDirect, "TSTP" \notin Signals
  PROVE  Spec => []ShownOnceInOrder
<1>1. OrderInv => ShownOnceInOrder
  BY DEF OrderInv, Ordered, ShownOnceInOrder, Shown
<1>2. Init => OrderInv
  BY InitOrderInv
<1>3. EditorInv /\ TextInv /\ OrderInv /\ [Next]_vars => OrderInv'
  BY StepOrderInv
<1> QED BY <1>1, <1>2, <1>3, TextInvariant, PTL DEF Spec

-----------------------------------------------------------------------------
(* Passwords                                                                *)

SecretsIn(s) == {c \in CharsOf(s) : c <= -100}

(* The user has seen a password prompt that is not answered yet, or is       *)
(* answering it.                                                             *)
Expecting ==
  \/ PWPROMPT \in CharsOf(ui.raw_prompt)
  \/ SecretsIn(EditedLine[1]) # {}
  \/ SecretsIn(typed) # {}

(* The client reads a line without echo, and no line is on its way to it.    *)
AwaitsPassword ==
  client.mode = "noecho" /\ ~Answered /\ NL \notin CharsOf(output_queue)

PasswordInv ==
  /\ PWPROMPT \notin CharsOf(EditedLine[1]) \cup CharsOf(output_queue) \cup CharsOf(typed)
  /\ ~command_is_dead /\ ~always_readline =>
       /\ \A i \in 1 .. Len(history) : SecretsIn(history[i]) = {}
       /\ Expecting \/ PWPROMPT \in CharsOf(pty_out) => AwaitsPassword
       /\ Expecting => (ui.within_line_edit => ~ui.redisplay)
       /\ \A i, j \in 1 .. Len(typed) : i < j /\ typed[j] <= -100 => typed[i] # NL

LEMMA PasswordInvPrimed ==
  PasswordInv' <=>
    /\ PWPROMPT \notin CharsOf(EditedLine'[1]) \cup CharsOf(output_queue') \cup CharsOf(typed')
    /\ ~command_is_dead' /\ ~always_readline =>
         /\ \A i \in 1 .. Len(history') : SecretsIn(history'[i]) = {}
         /\ \/ PWPROMPT \in CharsOf(ui'.raw_prompt) \cup CharsOf(pty_out')
            \/ SecretsIn(EditedLine'[1]) # {} \/ SecretsIn(typed') # {}
            => /\ client'.mode = "noecho" /\ ~Answered'
               /\ NL \notin CharsOf(output_queue')
         /\ \/ PWPROMPT \in CharsOf(ui'.raw_prompt)
            \/ SecretsIn(EditedLine'[1]) # {} \/ SecretsIn(typed') # {}
            => (ui'.within_line_edit => ~ui'.redisplay)
         /\ \A i, j \in 1 .. Len(typed') : i < j /\ typed'[j] <= -100 => typed'[i] # NL
BY DEF PasswordInv, Expecting, AwaitsPassword, SecretsIn, CharsOf

(* The client has its echo off, and rlwrap looks at it.                      *)
EchoIsOff == client.mode = "noecho" /\ ~command_is_dead /\ ~always_readline

(* Readline paints the user's input with stars, and does not remember it.    *)
Hidden(u) == u.within_line_edit => ~u.redisplay

LEMMA RestoreHides ==
  ASSUME NEW u, Coherent(u), EchoIsOff
  PROVE  Hidden(restore_rl_state(u))
<1> DEFINE c == cook_prompt_if_necessary(move_cursor_to_start_of_prompt(u))
           v == mirror_slaves_echo_mode(c)
           r == restore_rl_state(u)
<1>1. Coherent(c)
  BY MoveCoherent, CookCoherent
<1>2. r = [v EXCEPT !.row = v.row \o v.cooked_prompt, !.handler = TRUE,
                  !.line = v.input_buffer, !.rl_point = v.point,
                  !.already_saved = FALSE, !.prompt_is_still_uncooked = FALSE]
  BY DEF restore_rl_state
<1> HIDE DEF c, r
<1>3. v = [c EXCEPT !.redisplay = FALSE]
  BY DEF mirror_slaves_echo_mode, EchoIsOff
<1> HIDE DEF v
<1>4. v.redisplay = FALSE /\ v \in UiType
  BY <1>1, <1>3 DEF Coherent, UiType
<1>5. r.redisplay = FALSE
  BY <1>2, <1>4 DEF UiType
<1> QED BY <1>5 DEF r, Hidden

LEMMA StartHides ==
  ASSUME NEW u, Coherent(u)
  PROVE  LET r == start_line_edit(u)
         IN  r.raw_prompt = u.raw_prompt /\ (EchoIsOff => Hidden(r))
<1> DEFINE w == [u EXCEPT !.within_line_edit = TRUE]
<1>1. Coherent(w)
  BY DEF Coherent, UiType
<1>2. start_line_edit(u) = restore_rl_state(w)
  BY DEF start_line_edit
<1> HIDE DEF w
<1> QED BY <1>1, <1>2, StartCoherent, RestoreHides

(* The prompt after some output, and the one it was before that.             *)
LEMMA ShowPrompt ==
  ASSUME NEW u, Coherent(u), NEW buf \in Text
  PROVE  LET s == show_output(u, buf)
         IN  CharsOf(s.raw_prompt) \subseteq CharsOf(u.raw_prompt) \cup CharsOf(buf)
<1> DEFINE leave    == leave_prompt_alone(u, buf)
           v        == IF ~leave THEN move_cursor_to_start_of_prompt(u)
                       ELSE IF forgets_prompt(u, buf) THEN [u EXCEPT !.raw_prompt = <<>>]
                       ELSE u
           prompted == v.raw_prompt \o buf
           shown    == IF ~impatient_prompt THEN UpToLastNL(prompted)
                       ELSE IF leave THEN buf ELSE prompted
           w        == process_new_output(v, buf)
           put      == my_putstr(w, shown)
           s        == show_output(u, buf)
<1>1. v \in UiType /\ v.raw_prompt \in {u.raw_prompt, <<>>}
  <2>1. v = u \/ v = [u EXCEPT !.raw_prompt = <<>>] \/ v = [u EXCEPT !.row = <<>>]
    BY DEF move_cursor_to_start_of_prompt
  <2> HIDE DEF v
  <2> QED BY <2>1, SomeText DEF Coherent, UiType
<1>2. s = [put EXCEPT !.prompt_is_still_uncooked = TRUE]
  BY DEF show_output
<1>3. w = [v EXCEPT !.raw_prompt = AfterLastNL(prompted), !.cooked_prompt = NULL]
  BY DEF process_new_output
<1> HIDE DEF v, w, s, shown
<1>4. put = [w EXCEPT !.scrolled = w.scrolled \o UpToLastNL(w.row \o shown),
                      !.row = AfterLastNL(w.row \o shown)]
  BY <1>1, <1>3 DEF put, my_putstr, UiType
<1> HIDE DEF put
<1>5. s.raw_prompt = AfterLastNL(prompted)
  BY <1>1, <1>2, <1>3, <1>4 DEF UiType
<1>6. /\ v.raw_prompt \in Text /\ CharsOf(v.raw_prompt) \subseteq CharsOf(u.raw_prompt)
  BY <1>1, CharsOfPieces DEF UiType
<1>7. prompted \in Text /\ CharsOf(prompted) = CharsOf(v.raw_prompt) \cup CharsOf(buf)
  BY <1>6, SomeText, CharsOfPieces
<1> HIDE DEF prompted
<1>8. CharsOf(s.raw_prompt) \subseteq CharsOf(prompted)
  BY <1>5, <1>7, CharsOfPieces
<1> QED BY <1>6, <1>7, <1>8 DEF s

LEMMA HandleOutputHides ==
  ASSUME NEW u, Ready(u), NEW buf \in Text
  PROVE  LET h == handle_output(u, buf)
         IN  /\ CharsOf(h.raw_prompt) \subseteq CharsOf(u.raw_prompt) \cup CharsOf(buf)
             /\ EchoIsOff => Hidden(h)
<1>1. Coherent(u)
  BY DEF Ready
<1>2. CASE u.within_line_edit
  <2> DEFINE before == save_rl_state(u)
             after  == show_output(before, buf)
  <2>1. Coherent(before) /\ before.raw_prompt = u.raw_prompt
    BY <1>1, <1>2, SaveCoherent DEF Ready, Editing
  <2>2. handle_output(u, buf) = restore_rl_state(after)
    BY <1>2 DEF handle_output
  <2> HIDE DEF before
  <2>3. /\ Coherent(after)
        /\ CharsOf(after.raw_prompt) \subseteq CharsOf(u.raw_prompt) \cup CharsOf(buf)
    BY <2>1, ShowCoherent, ShowPrompt
  <2> HIDE DEF after
  <2> QED BY <2>2, <2>3, RestoreCoherent, RestoreHides
<1>3. CASE ~u.within_line_edit
  <2>1. handle_output(u, buf) = show_output(u, buf)
    BY <1>3 DEF handle_output
  <2> QED BY <1>1, <1>3, <2>1, ShowCoherent, ShowPrompt DEF Hidden
<1> QED BY <1>2, <1>3

(* What else happens to ui between two keys keeps the prompt, and hides what *)
(* was hidden.                                                               *)
Calm(u, v) == v.raw_prompt = u.raw_prompt /\ (EchoIsOff /\ Hidden(u) => Hidden(v))

LEMMA CookingCalm ==
  ASSUME NEW u, Coherent(u)
  PROVE  Calm(u, cooking_time(u))
<1>1. \/ cooking_time(u) = [u EXCEPT !.we_just_got_a_signal_or_EOF = FALSE]
      \/ cooking_time(u) = [u EXCEPT !.prompt_is_still_uncooked = FALSE]
      \/ cooking_time(u) = start_line_edit(u)
  BY DEF cooking_time
<1>2. CASE cooking_time(u) = start_line_edit(u)
  BY <1>2, StartHides DEF Calm
<1>3. CASE cooking_time(u) # start_line_edit(u)
  BY <1>1, <1>3 DEF Calm, Hidden, Coherent, UiType
<1> QED BY <1>2, <1>3

LEMMA WinsizeCalm ==
  ASSUME NEW u, Coherent(u)
  PROVE  Calm(u, adapt_tty_winsize(u))
<1> DEFINE wiped == [u EXCEPT !.row = <<>>]
<1>1. \/ adapt_tty_winsize(u) = [wiped EXCEPT !.row = u.cooked_prompt]
      \/ adapt_tty_winsize(u) = u
      \/ adapt_tty_winsize(u) = start_line_edit(wiped)
  BY DEF adapt_tty_winsize
<1>2. Coherent(wiped) /\ wiped.raw_prompt = u.raw_prompt
  BY SomeText DEF Coherent, UiType
<1>3. CASE adapt_tty_winsize(u) = [wiped EXCEPT !.row = u.cooked_prompt]
  BY <1>3 DEF Calm, Hidden, Coherent, UiType
<1>4. CASE adapt_tty_winsize(u) = u
  BY <1>4 DEF Calm
<1>5. CASE adapt_tty_winsize(u) = start_line_edit(wiped)
  <2> HIDE DEF wiped
  <2> QED BY <1>2, <1>5, StartHides DEF Calm
<1> QED BY <1>1, <1>3, <1>4, <1>5

LEMMA SaveCalm ==
  ASSUME NEW u, Coherent(u)
  PROVE  Calm(u, save_rl_state(u))
BY DEF save_rl_state, Calm, Hidden, Coherent, UiType

LEMMA WokenCalm ==
  ASSUME NEW u, Coherent(u)
  PROVE  Calm(u, woken_up(u))
<1> DEFINE fresh == [u EXCEPT !.scrolled = @ \o Append(u.row, NL), !.row = <<>>]
<1>1. u.scrolled \o Append(u.row, NL) \in Text
  BY SomeText DEF Coherent, UiType, NL, Char
<1>2. /\ Coherent(fresh) /\ fresh.raw_prompt = u.raw_prompt
      /\ fresh.within_line_edit = u.within_line_edit /\ fresh.redisplay = u.redisplay
  BY <1>1, SomeText DEF Coherent, UiType
<1>3. CASE u.within_line_edit
  <2>1. woken_up(u) = restore_rl_state(fresh)
    BY <1>3 DEF woken_up
  <2> HIDE DEF fresh
  <2> QED BY <1>2, <2>1, RestoreCoherent, RestoreHides DEF Calm
<1>4. CASE ~u.within_line_edit /\ skip_rlwrap
  <2>1. woken_up(u) = fresh
    BY <1>4 DEF woken_up
  <2> HIDE DEF fresh
  <2> QED BY <1>2, <2>1 DEF Calm, Hidden
<1>5. CASE ~u.within_line_edit /\ ~skip_rlwrap
  <2> DEFINE m   == move_cursor_to_start_of_prompt(fresh)
             v   == cook_prompt_if_necessary(m)
             put == my_putstr(v, v.cooked_prompt)
  <2>1. woken_up(u) = put
    BY <1>5 DEF woken_up
  <2> HIDE DEF fresh
  <2>2. /\ Coherent(m) /\ m.raw_prompt = u.raw_prompt
        /\ m.within_line_edit = u.within_line_edit
    BY <1>2, MoveCoherent DEF move_cursor_to_start_of_prompt, Coherent, UiType
  <2> HIDE DEF m
  <2>3. /\ Coherent(v) /\ v = [m EXCEPT !.cooked_prompt = m.raw_prompt]
    BY <2>2, CookCoherent
  <2> HIDE DEF v
  <2>4. put.raw_prompt = v.raw_prompt /\ put.within_line_edit = v.within_line_edit
    BY <2>3 DEF my_putstr, Coherent, UiType
  <2> HIDE DEF put
  <2>5. put.raw_prompt = u.raw_prompt /\ ~put.within_line_edit
    BY <1>5, <2>2, <2>3, <2>4 DEF Coherent, UiType
  <2> QED BY <2>1, <2>5 DEF Calm, Hidden
<1> QED BY <1>3, <1>4, <1>5

(* Steps that neither move input nor change what the client waits for.       *)
LEMMA QuietPasswordInv ==
  ASSUME EditorInv, PasswordInv,
         UNCHANGED <<output_queue, history, pty_in, typed, pty_out>>,
         client'.mode = client.mode, client'.asked = client.asked,
         EditedLine' = EditedLine,
         command_is_dead' = FALSE => command_is_dead = FALSE, Calm(ui, ui')
  PROVE  PasswordInv'
<1>1. Answered' <=> Answered
  BY DEF Answered
<1>2. command_is_dead \in BOOLEAN
  BY DEF EditorInv, TypeOK
<1>3. PWPROMPT \notin CharsOf(EditedLine'[1]) \cup CharsOf(output_queue') \cup CharsOf(typed')
  BY DEF PasswordInv
<1>4. ASSUME ~command_is_dead', ~always_readline
      PROVE  /\ \A i \in 1 .. Len(history') : SecretsIn(history'[i]) = {}
             /\ \A i, j \in 1 .. Len(typed') : i < j /\ typed'[j] <= -100 => typed'[i] # NL
  BY <1>2, <1>4, SMTT(40) DEF PasswordInv
<1>5. ASSUME ~command_is_dead', ~always_readline,
             \/ PWPROMPT \in CharsOf(ui'.raw_prompt) \cup CharsOf(pty_out')
             \/ SecretsIn(EditedLine'[1]) # {} \/ SecretsIn(typed') # {}
      PROVE  client'.mode = "noecho" /\ ~Answered' /\ NL \notin CharsOf(output_queue')
  <2>1. Expecting \/ PWPROMPT \in CharsOf(pty_out)
    BY <1>5 DEF Expecting, Calm
  <2>2. AwaitsPassword
    BY <1>2, <1>5, <2>1 DEF PasswordInv
  <2> QED BY <1>1, <2>2 DEF AwaitsPassword
<1>6. ASSUME ~command_is_dead', ~always_readline,
             \/ PWPROMPT \in CharsOf(ui'.raw_prompt)
             \/ SecretsIn(EditedLine'[1]) # {} \/ SecretsIn(typed') # {}
      PROVE  ui'.within_line_edit => ~ui'.redisplay
  <2>1. Expecting
    BY <1>6 DEF Expecting, Calm
  <2>2. AwaitsPassword /\ Hidden(ui) /\ ~command_is_dead
    BY <1>2, <1>6, <2>1 DEF PasswordInv, Hidden
  <2>3. EchoIsOff
    BY <1>6, <2>2 DEF AwaitsPassword, EchoIsOff
  <2> QED BY <2>2, <2>3 DEF Calm, Hidden
<1> QED BY <1>3, <1>4, <1>5, <1>6, PasswordInvPrimed

LEMMA QuietStepPasswordInv ==
  ASSUME EditorInv, PasswordInv,
         \/ ReadPtyFails \/ Timeout \/ Handlers \/ ClientClosesTty \/ ClientExits
         \/ HangUp \/ UNCHANGED vars
  PROVE  PasswordInv'
<1>1. UNCHANGED <<output_queue, history, pty_in, typed, pty_out>>
  BY DEF ReadPtyFails, Timeout, Handlers, PassOnSignal, WindowChanges, Suspend, Resume,
         ChildDied, ClientClosesTty, ClientExits, HangUp, vars, loopVars, worldVars
<1>2. client'.mode = client.mode /\ client'.asked = client.asked
  <2>1. client \in [running : BOOLEAN, tty_open : BOOLEAN,
                    mode : {"echo", "noecho", "raw"}, asked : Nat]
    BY DEF EditorInv, TypeOK
  <2>2. \/ client' = client \/ client' = [client EXCEPT !.tty_open = FALSE]
        \/ client' = [client EXCEPT !.running = FALSE]
    BY DEF ReadPtyFails, Timeout, Handlers, PassOnSignal, WindowChanges, Suspend, Resume,
           ChildDied, ClientClosesTty, ClientExits, HangUp, vars, loopVars, worldVars
  <2> QED BY <2>1, <2>2
<1>3. EditedLine' = EditedLine
  BY ReadPtyFailsStep, TimeoutStep, SignalStep, SuspendStep, ResumeStep, OtherSteps,
     StutterStep DEF Handlers, World
<1>4. command_is_dead' = FALSE => command_is_dead = FALSE
  BY DEF ReadPtyFails, Timeout, Handlers, PassOnSignal, WindowChanges, Suspend, Resume,
         ChildDied, ClientClosesTty, ClientExits, HangUp, vars, loopVars, worldVars
<1>5. Coherent(ui)
  BY InvReady DEF Ready, Asleep
<1>6. Calm(ui, ui')
  <2>1. CASE Timeout
    BY <1>5, <2>1, CookingCalm DEF Timeout, Calm
  <2>2. CASE PassOnSignal \/ WindowChanges
    <3> DEFINE noted(b) == [ui EXCEPT !.we_just_got_a_signal_or_EOF = b]
    <3>1. \A b \in BOOLEAN : Coherent(noted(b)) /\ Calm(ui, noted(b))
      BY <1>5 DEF Calm, Hidden, Coherent, UiType
    <3>2. \E b \in BOOLEAN : ui' = noted(b) \/ ui' = adapt_tty_winsize(noted(b))
      BY <1>5, <2>2, MainLoopAssumption
         DEF PassOnSignal, WindowChanges, EditorInv, TypeOK, Coherent, UiType
    <3> HIDE DEF noted
    <3>3. PICK b \in BOOLEAN : ui' = noted(b) \/ ui' = adapt_tty_winsize(noted(b))
      BY <3>2
    <3>4. Calm(noted(b), adapt_tty_winsize(noted(b)))
      BY <3>1, WinsizeCalm
    <3> QED BY <3>1, <3>3, <3>4 DEF Calm
  <2>3. CASE Suspend
    BY <1>5, <2>3, SaveCalm DEF Suspend, Calm
  <2>4. CASE Resume
    <3>1. PICK b \in BOOLEAN : /\ Asleep(Noted(ui, b)) /\ Edited(Noted(ui, b)) = Edited(ui)
                              /\ \/ ui' = woken_up(Noted(ui, b))
                                 \/ ui' = adapt_tty_winsize(woken_up(Noted(ui, b)))
      BY <2>4, ResumeWakes
    <3> DEFINE v == Noted(ui, b)
    <3>2. Calm(ui, v)
      BY <1>5 DEF Noted, Calm, Hidden, Coherent, UiType
    <3>3. Asleep(v) /\ (ui' = woken_up(v) \/ ui' = adapt_tty_winsize(woken_up(v)))
      BY <3>1
    <3> HIDE DEF v
    <3>4. Calm(v, woken_up(v)) /\ Coherent(woken_up(v))
      BY <3>3, WokenCalm, WokenReady DEF Asleep, Ready
    <3>5. Calm(woken_up(v), adapt_tty_winsize(woken_up(v)))
      BY <3>4, WinsizeCalm
    <3> QED BY <3>2, <3>3, <3>4, <3>5 DEF Calm
  <2>5. CASE ReadPtyFails \/ ChildDied \/ ClientClosesTty \/ ClientExits \/ HangUp
             \/ UNCHANGED vars
    <3>1. ui' = ui
      BY <2>5 DEF ReadPtyFails, ChildDied, ClientClosesTty, ClientExits, HangUp, vars
    <3> QED BY <3>1 DEF Calm
  <2> QED BY <2>1, <2>2, <2>3, <2>4, <2>5 DEF Handlers
<1> QED BY <1>1, <1>2, <1>3, <1>4, <1>6, QuietPasswordInv

(* A password prompt that is read from the pty makes the user wait for it.   *)
LEMMA ReadPtyPasswordInv ==
  ASSUME EditorInv, PasswordInv, ReadPty
  PROVE  PasswordInv'
<1>1. /\ UNCHANGED <<output_queue, history, pty_in, typed, client, command_is_dead>>
      /\ pty_out' = <<>> /\ EditedLine' = EditedLine /\ (Answered' <=> Answered)
  BY ReadPtyStep DEF ReadPty, Answered
<1>2. Ready(ui) /\ Coherent(ui) /\ pty_out \in Text
  BY InvReady DEF ReadPty, EditorInv, TypeOK, Ready
<1>3. CharsOf(pty_out') = {}
  BY <1>1, CharsOfPieces
<1>4. CharsOf(ui'.raw_prompt) \subseteq CharsOf(ui.raw_prompt) \cup CharsOf(pty_out)
  <2>1. CASE skip_rlwrap
    BY <1>2, <2>1 DEF ReadPty, pass_output_through, my_putstr, Coherent, UiType
  <2>2. CASE ~skip_rlwrap
    BY <1>2, <2>2, HandleOutputHides DEF ReadPty
  <2> QED BY <2>1, <2>2
<1>5. ASSUME ~command_is_dead, ~always_readline,
             \/ PWPROMPT \in CharsOf(ui'.raw_prompt)
             \/ SecretsIn(EditedLine[1]) # {} \/ SecretsIn(typed) # {}
      PROVE  AwaitsPassword
  BY <1>4, <1>5 DEF PasswordInv, Expecting
<1>6. ASSUME ~command_is_dead, ~always_readline, AwaitsPassword
      PROVE  ui'.within_line_edit => ~ui'.redisplay
  <2>1. EchoIsOff /\ ~skip_rlwrap
    BY <1>6 DEF EchoIsOff, AwaitsPassword, skip_rlwrap
  <2>2. Hidden(ui')
    BY <1>2, <2>1, HandleOutputHides DEF ReadPty
  <2> QED BY <2>2 DEF Hidden
<1>7. PWPROMPT \notin CharsOf(EditedLine[1]) \cup CharsOf(output_queue) \cup CharsOf(typed)
  BY DEF PasswordInv
<1>8. ~command_is_dead /\ ~always_readline =>
        /\ \A i \in 1 .. Len(history) : SecretsIn(history[i]) = {}
        /\ \A i, j \in 1 .. Len(typed) : i < j /\ typed[j] <= -100 => typed[i] # NL
  BY DEF PasswordInv
<1> QED BY <1>1, <1>3, <1>5, <1>6, <1>7, <1>8, PasswordInvPrimed DEF AwaitsPassword

(* The pieces of a line that is edited. *)
LEMMA CharsOfInsertAt ==
  ASSUME NEW s \in Text, NEW p \in 0 .. Len(s), NEW c \in Char
  PROVE  CharsOf(InsertAt(s, p, c)) = CharsOf(s) \cup {c}
<1> DEFINE before == SubSeq(s, 1, p)
           after  == SubSeq(s, p + 1, Len(s))
<1>1. Len(s) \in Nat /\ s \in Seq(Char) /\ \A i \in 1 .. Len(s) : s[i] \in Char
  BY SomeText, ElementOfSeq DEF Text
<1>2. before \in Text /\ after \in Text
  <2>1. before \in Seq(Char)
    BY <1>1, SubSeqProperties, \A i \in 1 .. p : s[i] \in Char
  <2>2. after \in Seq(Char)
    BY <1>1, SubSeqProperties, \A i \in p + 1 .. Len(s) : s[i] \in Char
  <2> QED BY <2>1, <2>2 DEF Text
<1>3. before \o after = s
  <2>1. 1 \in 1 .. Len(s) + 1 /\ p \in 1 - 1 .. Len(s) /\ Len(s) \in p .. Len(s)
    BY <1>1
  <2>2. before \o after = SubSeq(s, 1, Len(s))
    BY <1>1, <2>1, ConcatAdjacentSubSeq
  <2> QED BY <1>1, <2>2, SubSeqFull
<1>4. InsertAt(s, p, c) = before \o <<c>> \o after
  BY DEF InsertAt
<1> HIDE DEF before, after
<1>5. CharsOf(before \o after) = CharsOf(before) \cup CharsOf(after)
  BY <1>2, CharsOfPieces
<1>6. <<c>> \in Text /\ before \o <<c>> \in Text
  BY <1>2, SomeText
<1>7. CharsOf(before \o <<c>>) = CharsOf(before) \cup {c}
  BY <1>2, <1>6, CharsOfPieces
<1>8. PICK b : b = before \o <<c>>
  OBVIOUS
<1>9. CharsOf(b \o after) = CharsOf(b) \cup CharsOf(after)
  BY <1>2, <1>6, <1>8, CharsOfPieces
<1> QED BY <1>3, <1>4, <1>5, <1>7, <1>8, <1>9

(* The text of the edited line after a key. *)
LEMMA EditKeyText ==
  ASSUME NEW u, Ready(u), u.within_line_edit, NEW key \in Char, edit_key(u, key),
         output_queue \in Text
  PROVE  \/ /\ key = NL /\ Edited(ui')[1] = <<>> /\ ui'.raw_prompt = <<>>
            /\ output_queue' = output_queue \o u.line \o <<NL>>
            /\ history' = remembered(u) /\ ~ui'.within_line_edit
         \/ /\ key # NL /\ history' = history
            /\ \/ output_queue' = output_queue /\ key \in {EOFCHAR, LEFT}
                  /\ Edited(ui')[1] = u.line
               \/ output_queue' = Append(output_queue, EOFCHAR) /\ key = EOFCHAR
                  /\ Edited(ui')[1] = u.line
               \/ output_queue' = output_queue /\ key \notin {EOFCHAR, LEFT}
                  /\ Edited(ui')[1] = InsertAt(u.line, u.rl_point, key)
            /\ ui'.raw_prompt = u.raw_prompt /\ ui'.redisplay = u.redisplay
<1> USE DEF NL, EOFCHAR, LEFT
<1>1. u \in UiType /\ u.handler
  BY DEF Ready, Editing, Coherent
<1>2. CASE key = NL /\ accept_line(u)
  <2>1. ui' = line_handler(u)
    BY <1>2 DEF accept_line
  <2>2. ~ui'.handler /\ ui'.input_buffer = <<>> /\ ui'.raw_prompt = <<>> /\ ~ui'.within_line_edit
    BY <1>1, <2>1 DEF line_handler, UiType
  <2> QED BY <1>2, <2>2 DEF accept_line, Edited
<1>3. CASE key = EOFCHAR /\ u.line = <<>> /\ send_EOF(u) /\ UNCHANGED <<history, let_go>>
  <2>1. ui' = [u EXCEPT !.we_just_got_a_signal_or_EOF = TRUE]
    BY <1>3 DEF send_EOF
  <2>2. /\ ui'.handler /\ ui'.line = u.line /\ ui'.raw_prompt = u.raw_prompt
        /\ ui'.redisplay = u.redisplay
    BY <1>1, <2>1 DEF UiType
  <2> QED BY <1>3, <2>2 DEF send_EOF, Edited
<1>4. CASE /\ ui' = CASE key = EOFCHAR -> u
                      [] key = LEFT -> backward_char(u)
                      [] OTHER -> self_insert(u, key)
           /\ key # NL /\ UNCHANGED <<output_queue, history, let_go>>
  <2>1. CASE key = EOFCHAR
    BY <1>1, <1>4, <2>1 DEF Edited
  <2>2. CASE key = LEFT
    <3>1. ui' = [u EXCEPT !.rl_point = IF @ > 0 THEN @ - 1 ELSE 0]
      BY <1>4, <2>2 DEF backward_char
    <3>2. /\ ui'.handler /\ ui'.line = u.line /\ ui'.raw_prompt = u.raw_prompt
          /\ ui'.redisplay = u.redisplay
      BY <1>1, <3>1 DEF UiType
    <3> QED BY <1>4, <2>2, <3>2 DEF Edited
  <2>3. CASE key \notin {EOFCHAR, LEFT}
    <3>1. ui' = self_insert(u, key)
      BY <1>4, <2>3
    <3>2. /\ ui'.handler /\ ui'.line = InsertAt(u.line, u.rl_point, key)
          /\ ui'.raw_prompt = u.raw_prompt /\ ui'.redisplay = u.redisplay
      BY <1>1, <3>1 DEF self_insert, UiType
    <3> QED BY <1>4, <2>3, <3>2 DEF Edited
  <2> QED BY <2>1, <2>2, <2>3
<1> QED BY <1>2, <1>3, <1>4 DEF edit_key

(* The first key that is waiting, and the others. *)
LEMMA HeadAndTail ==
  ASSUME NEW s \in Text, s # <<>>
  PROVE  /\ Head(s) \in Char /\ Tail(s) \in Text
         /\ s = <<Head(s)>> \o Tail(s)
         /\ CharsOf(s) = {Head(s)} \cup CharsOf(Tail(s))
         /\ Len(s) = Len(Tail(s)) + 1 /\ Head(s) = s[1]
         /\ \A i \in 1 .. Len(Tail(s)) : Tail(s)[i] = s[i + 1]
<1>1. /\ Head(s) \in Char /\ Tail(s) \in Text /\ Len(Tail(s)) = Len(s) - 1
      /\ \A i \in 1 .. Len(Tail(s)) : Tail(s)[i] = s[i + 1]
      /\ Len(s) \in Nat
  BY HeadTailProperties, LenProperties DEF Text
<1>2. Head(s) = s[1]
  OBVIOUS
<1>3. s = <<Head(s)>> \o Tail(s)
  <2>1. PICK h : h = Head(s)
    OBVIOUS
  <2>2. PICK t : t = Tail(s)
    OBVIOUS
  <2>3. /\ <<h>> \in Seq(Char) /\ t \in Seq(Char) /\ Len(<<h>>) = 1 /\ <<h>>[1] = h
    BY <1>1, <2>1, <2>2, SomeText DEF Text
  <2>4. /\ <<h>> \o t \in Seq(Char) /\ Len(<<h>> \o t) = 1 + Len(t)
        /\ \A i \in 1 .. 1 + Len(t) :
             (<<h>> \o t)[i] = IF i <= 1 THEN <<h>>[i] ELSE t[i - 1]
    BY <2>3, ConcatProperties
  <2>5. \A i \in 1 .. Len(s) : s[i] = (<<h>> \o t)[i]
    <3> SUFFICES ASSUME NEW i \in 1 .. Len(s) PROVE s[i] = (<<h>> \o t)[i]
      OBVIOUS
    <3>1. CASE i = 1
      BY <1>1, <1>2, <2>1, <2>2, <2>3, <2>4, <3>1
    <3>2. CASE i # 1
      <4>1. i - 1 \in 1 .. Len(t) /\ i \in 1 .. 1 + Len(t) /\ ~(i <= 1) /\ i - 1 + 1 = i
        BY <1>1, <2>2, <3>2
      <4>2. t[i - 1] = s[i]
        BY <1>1, <2>2, <4>1
      <4> QED BY <2>4, <4>1, <4>2
    <3> QED BY <3>1, <3>2
  <2>6. Len(s) = Len(<<h>> \o t)
    BY <1>1, <2>2, <2>4
  <2>7. s = <<h>> \o t
    BY <2>4, <2>5, <2>6, SeqEqual DEF Text
  <2> QED BY <2>1, <2>2, <2>7
<1>4. CharsOf(s) = {Head(s)} \cup CharsOf(Tail(s))
  <2>1. PICK h \in Char : h = Head(s)
    BY <1>1
  <2>2. PICK t \in Text : t = Tail(s)
    BY <1>1
  <2>3. <<h>> \in Text
    BY SomeText
  <2>4. CharsOf(<<h>> \o t) = CharsOf(<<h>>) \cup CharsOf(t)
    BY <2>3, CharsOfPieces
  <2> QED BY <1>3, <2>1, <2>2, <2>4, CharsOfPieces
<1> QED BY <1>1, <1>2, <1>3, <1>4

LEMMA ReadStdinPasswordInv ==
  ASSUME EditorInv, PasswordInv, ReadStdin
  PROVE  PasswordInv'
<1> USE DEF NL, EOFCHAR, PWPROMPT, LEFT, Char
<1>1. /\ typed \in Text /\ typed # <<>> /\ typed' = Tail(typed) /\ pty_out = <<>>
      /\ UNCHANGED <<client, pty_out, command_is_dead>>
      /\ output_queue \in Text /\ history \in Seq(Text)
      /\ command_is_dead \in BOOLEAN
  BY DEF ReadStdin, EditorInv, TypeOK
<1>2. Ready(ui) /\ Coherent(ui) /\ EditedLine = Edited(ui) /\ EditedLine' = Edited(ui')
  BY InvReady, EditedIsEditedLine DEF ReadStdin, Ready
<1>3. PICK key \in Char : key = Head(typed)
  BY <1>1, HeadAndTail
<1>4. /\ typed' \in Text /\ CharsOf(typed) = {key} \cup CharsOf(typed')
      /\ Len(typed) = Len(typed') + 1 /\ key = typed[1] /\ Len(typed') \in Nat
      /\ \A i \in 1 .. Len(typed') : typed'[i] = typed[i + 1]
  BY <1>1, <1>3, HeadAndTail, SomeText
<1>5. CharsOf(pty_out') = {}
  BY <1>1, CharsOfPieces
<1>6. ASSUME ~command_is_dead, ~always_readline
      PROVE  /\ \A i, j \in 1 .. Len(typed') : i < j /\ typed'[j] <= -100 => typed'[i] # NL
             /\ key = NL => SecretsIn(typed') = {}
  <2>1. \A i, j \in 1 .. Len(typed) : i < j /\ typed[j] <= -100 => typed[i] # NL
    BY <1>6 DEF PasswordInv
  <2>2. \A i, j \in 1 .. Len(typed') : i < j /\ typed'[j] <= -100 => typed'[i] # NL
    <3> SUFFICES ASSUME NEW i \in 1 .. Len(typed'), NEW j \in 1 .. Len(typed'),
                        i < j, typed'[j] <= -100
                 PROVE  typed'[i] # NL
      OBVIOUS
    <3>1. i + 1 \in 1 .. Len(typed) /\ j + 1 \in 1 .. Len(typed) /\ i + 1 < j + 1
      BY <1>4
    <3>2. typed[j + 1] <= -100
      BY <1>4
    <3>3. typed[i + 1] # NL
      BY <2>1, <3>1, <3>2
    <3> QED BY <1>4, <3>3
  <2>3. ASSUME key = NL PROVE SecretsIn(typed') = {}
    <3> SUFFICES ASSUME NEW j \in 1 .. Len(typed'), typed'[j] <= -100 PROVE FALSE
      BY DEF SecretsIn, CharsOf
    <3>1. 1 \in 1 .. Len(typed) /\ j + 1 \in 1 .. Len(typed) /\ 1 < j + 1
      BY <1>4
    <3>2. typed[j + 1] <= -100 /\ typed[1] = NL
      BY <1>4, <2>3
    <3> QED BY <2>1, <3>1, <3>2
  <2> QED BY <2>2, <2>3
<1>7. SecretsIn(typed') \subseteq SecretsIn(typed)
      /\ (key <= -100 => SecretsIn(typed) # {})
  BY <1>4 DEF SecretsIn
<1>8. CASE skip_rlwrap
  <2>1. UNCHANGED <<ui, output_queue, history>> /\ EditedLine' = EditedLine
    BY <1>2, <1>8 DEF ReadStdin
  <2>2. ASSUME ~command_is_dead, ~always_readline
        PROVE  ~Expecting
    BY <1>8, <2>2 DEF PasswordInv, AwaitsPassword, skip_rlwrap
  <2>3. PWPROMPT \notin CharsOf(EditedLine[1]) \cup CharsOf(output_queue) \cup CharsOf(typed')
    BY <1>4 DEF PasswordInv
  <2>4. ASSUME ~command_is_dead, ~always_readline
        PROVE  /\ ~ \/ PWPROMPT \in CharsOf(ui.raw_prompt)
                    \/ SecretsIn(EditedLine[1]) # {} \/ SecretsIn(typed') # {}
               /\ \A i \in 1 .. Len(history) : SecretsIn(history[i]) = {}
    BY <1>7, <2>2, <2>4 DEF Expecting, PasswordInv
  <2> QED BY <1>1, <1>5, <1>6, <2>1, <2>3, <2>4, PasswordInvPrimed
<1>9. CASE ~skip_rlwrap
  <2> DEFINE u == IF ui.within_line_edit THEN ui ELSE start_line_edit(ui)
  <2>1. edit_key(u, key) /\ pty_in' = pty_in
    BY <1>3, <1>9 DEF ReadStdin
  <2>2. /\ Ready(u) /\ u.within_line_edit /\ Edited(u) = Edited(ui)
        /\ u.raw_prompt = ui.raw_prompt
    BY <1>2, StartReady, StartCoherent, StartHides DEF Ready, Editing
  <2>3. EchoIsOff /\ Hidden(ui) => ~u.redisplay
    BY <1>2, <2>2, StartHides DEF Hidden
  <2> HIDE DEF u
  <2>4. /\ u \in UiType /\ u.line = EditedLine[1] /\ u.line \in Text
        /\ u.rl_point \in 0 .. Len(u.line)
    BY <1>2, <2>2 DEF Ready, Editing, Edited, Coherent, UiType
  <2>5. ASSUME ~command_is_dead, ~always_readline, Expecting
        PROVE  AwaitsPassword /\ ~u.redisplay
    <3>1. AwaitsPassword /\ Hidden(ui)
      BY <2>5 DEF PasswordInv, Hidden
    <3>2. EchoIsOff
      BY <2>5, <3>1 DEF EchoIsOff, AwaitsPassword
    <3> QED BY <2>3, <3>1, <3>2
  <2>6. PWPROMPT \notin CharsOf(u.line) \cup CharsOf(output_queue) \cup CharsOf(typed)
    BY <2>4 DEF PasswordInv
  <2>7. Answered' <=> Answered
    BY <1>1, <2>1 DEF Answered
  <2>8. CASE key = NL
    <3>1. /\ EditedLine'[1] = <<>> /\ ui'.raw_prompt = <<>> /\ ~ui'.within_line_edit
          /\ output_queue' = output_queue \o u.line \o <<NL>>
          /\ history' = remembered(u)
      BY <1>1, <1>2, <2>1, <2>2, <2>8, EditKeyText
    <3>2. CharsOf(output_queue') = CharsOf(output_queue) \cup CharsOf(u.line) \cup {NL}
      <4>1. PICK q : q = output_queue \o u.line
        OBVIOUS
      <4>2. q \in Text /\ CharsOf(q) = CharsOf(output_queue) \cup CharsOf(u.line)
        BY <1>1, <2>4, <4>1, SomeText, CharsOfPieces
      <4>3. <<NL>> \in Text
        BY SomeText
      <4>4. CharsOf(q \o <<NL>>) = CharsOf(q) \cup CharsOf(<<NL>>)
        BY <4>2, <4>3, CharsOfPieces
      <4> QED BY <3>1, <4>1, <4>2, <4>4, CharsOfPieces
    <3>3. CharsOf(EditedLine'[1]) = {} /\ CharsOf(ui'.raw_prompt) = {}
      BY <3>1, CharsOfPieces
    <3>4. PWPROMPT \notin CharsOf(EditedLine'[1]) \cup CharsOf(output_queue') \cup CharsOf(typed')
      BY <1>4, <2>6, <3>2, <3>3
    <3>5. ASSUME ~command_is_dead, ~always_readline
          PROVE  \A i \in 1 .. Len(history') : SecretsIn(history'[i]) = {}
      <4>1. \A i \in 1 .. Len(history) : SecretsIn(history[i]) = {}
        BY <3>5 DEF PasswordInv
      <4>2. CASE history' = history
        BY <4>1, <4>2
      <4>3. CASE u.redisplay /\ history' = Append(history, u.line)
        <5>1. SecretsIn(u.line) = {}
          BY <2>4, <2>5, <3>5, <4>3 DEF Expecting
        <5>2. /\ Len(history') = Len(history) + 1 /\ Len(history) \in Nat
              /\ \A i \in 1 .. Len(history) : history'[i] = history[i]
              /\ history'[Len(history) + 1] = u.line
          BY <1>1, <2>4, <4>3, AppendProperties, LenProperties
        <5> QED BY <4>1, <5>1, <5>2
      <4> QED BY <3>1, <4>2, <4>3 DEF remembered
    <3>6. ASSUME ~command_is_dead, ~always_readline
          PROVE  SecretsIn(EditedLine'[1]) = {} /\ SecretsIn(typed') = {}
      BY <1>6, <2>8, <3>3, <3>6 DEF SecretsIn
    <3> QED BY <1>1, <1>5, <1>6, <3>3, <3>4, <3>5, <3>6, PasswordInvPrimed
  <2>9. CASE key # NL
    <3>1. /\ history' = history
          /\ \/ output_queue' = output_queue \/ output_queue' = Append(output_queue, EOFCHAR)
          /\ EditedLine'[1] = u.line \/ EditedLine'[1] = InsertAt(u.line, u.rl_point, key)
          /\ ui'.raw_prompt = ui.raw_prompt /\ ui'.redisplay = u.redisplay
      BY <1>1, <1>2, <2>1, <2>2, <2>9, EditKeyText
    <3>2. CharsOf(output_queue') \subseteq CharsOf(output_queue) \cup {EOFCHAR}
      <4>1. PICK e \in Char : e = EOFCHAR
        OBVIOUS
      <4>2. CharsOf(Append(output_queue, e)) = CharsOf(output_queue) \cup {e}
        BY <1>1, CharsOfAppend
      <4> QED BY <3>1, <4>1, <4>2
    <3>3. CharsOf(EditedLine'[1]) \subseteq CharsOf(u.line) \cup {key}
      BY <2>4, <3>1, CharsOfInsertAt
    <3>4. PWPROMPT \notin CharsOf(EditedLine'[1]) \cup CharsOf(output_queue') \cup CharsOf(typed')
      BY <1>4, <2>6, <3>2, <3>3
    <3>5. ASSUME \/ PWPROMPT \in CharsOf(ui'.raw_prompt)
                 \/ SecretsIn(EditedLine'[1]) # {} \/ SecretsIn(typed') # {}
          PROVE  Expecting
      <4>1. ASSUME SecretsIn(EditedLine'[1]) # {} PROVE Expecting
        BY <1>7, <2>4, <3>3, <4>1 DEF Expecting, SecretsIn
      <4> QED BY <1>7, <3>1, <3>5, <4>1 DEF Expecting
    <3>6. NL \notin CharsOf(output_queue) => NL \notin CharsOf(output_queue')
      BY <3>2
    <3>7. ~command_is_dead /\ ~always_readline =>
            \A i \in 1 .. Len(history') : SecretsIn(history'[i]) = {}
      BY <3>1 DEF PasswordInv
    <3>8. ASSUME ~command_is_dead, ~always_readline,
                 \/ PWPROMPT \in CharsOf(ui'.raw_prompt)
                 \/ SecretsIn(EditedLine'[1]) # {} \/ SecretsIn(typed') # {}
          PROVE  /\ client.mode = "noecho" /\ ~Answered' /\ NL \notin CharsOf(output_queue')
                 /\ ~ui'.redisplay
      BY <2>5, <2>7, <3>1, <3>5, <3>6, <3>8 DEF AwaitsPassword
    <3> QED BY <1>1, <1>5, <1>6, <3>4, <3>7, <3>8, PasswordInvPrimed
  <2> QED BY <2>8, <2>9
<1> QED BY <1>8, <1>9

(* What write() took and what it left. *)
LEMMA WrittenPart ==
  ASSUME NEW s \in Text, NEW n \in 1 .. Len(s)
  PROVE  LET sent == SubSeq(s, 1, n)
             rest == SubSeq(s, n + 1, Len(s))
         IN  sent \in Text /\ rest \in Text /\ sent \o rest = s
<1>1. Len(s) \in Nat /\ s \in Seq(Char) /\ \A i \in 1 .. Len(s) : s[i] \in Char
  BY SomeText, ElementOfSeq DEF Text
<1>2. SubSeq(s, 1, n) \in Seq(Char)
  BY <1>1, SubSeqProperties, \A i \in 1 .. n : s[i] \in Char
<1>3. SubSeq(s, n + 1, Len(s)) \in Seq(Char)
  BY <1>1, SubSeqProperties, \A i \in n + 1 .. Len(s) : s[i] \in Char
<1>4. 1 \in 1 .. Len(s) + 1 /\ n \in 1 - 1 .. Len(s) /\ Len(s) \in n .. Len(s)
  BY <1>1
<1>5. SubSeq(s, 1, n) \o SubSeq(s, n + 1, Len(s)) = SubSeq(s, 1, Len(s))
  BY <1>1, <1>4, ConcatAdjacentSubSeq
<1>6. SubSeq(s, 1, Len(s)) = s
  BY <1>1, SubSeqFull
<1> QED BY <1>2, <1>3, <1>5, <1>6 DEF Text

(* A write is one of part of the queue, or fails and changes nothing here. *)
LEMMA WriteParts ==
  ASSUME EditorInv, WritePty
  PROVE  \/ UNCHANGED <<output_queue, pty_in, pty_out>>
         \/ \E sent, rest \in Text :
              /\ output_queue = sent \o rest /\ output_queue' = rest
              /\ pty_in' = pty_in \o sent
              /\ pty_out' = IF client.mode = "echo" THEN pty_out \o sent ELSE pty_out
<1>1. output_queue \in Text
  BY DEF EditorInv, TypeOK
<1>2. CASE ~client.tty_open
  BY <1>2 DEF WritePty, flush_output_queue
<1>3. CASE client.tty_open
  <2> DEFINE sent(n) == SubSeq(output_queue, 1, n)
             rest(n) == SubSeq(output_queue, n + 1, Len(output_queue))
  <2>1. PICK n \in how_much :
          /\ output_queue' = rest(n)
          /\ pty_in' = pty_in \o sent(n)
          /\ pty_out' = IF client.mode = "echo" THEN pty_out \o sent(n) ELSE pty_out
    BY <1>3 DEF WritePty, flush_output_queue
  <2>2. sent(n) \in Text /\ rest(n) \in Text /\ sent(n) \o rest(n) = output_queue
    BY <1>1, WrittenPart DEF how_much
  <2> HIDE DEF sent, rest
  <2> QED BY <2>1, <2>2
<1> QED BY <1>2, <1>3

LEMMA WritePtyPasswordInv ==
  ASSUME EditorInv, PasswordInv, WritePty
  PROVE  PasswordInv'
<1>1. /\ UNCHANGED <<ui, history, typed, client, command_is_dead>>
      /\ EditedLine' = EditedLine
  BY WritePtyStep DEF WritePty
<1>2. CASE UNCHANGED <<output_queue, pty_in, pty_out>>
  <2>1. Calm(ui, ui')
    BY <1>1 DEF Calm
  <2> QED BY <1>1, <1>2, <2>1, QuietPasswordInv
<1>3. ASSUME NEW sent \in Text, NEW rest \in Text,
             output_queue = sent \o rest, output_queue' = rest, pty_in' = pty_in \o sent,
             pty_out' = IF client.mode = "echo" THEN pty_out \o sent ELSE pty_out
      PROVE  PasswordInv'
  <2>1. pty_in \in Text /\ pty_out \in Text
    BY DEF EditorInv, TypeOK
  <2>2. CharsOf(output_queue) = CharsOf(sent) \cup CharsOf(rest)
    BY <1>3, CharsOfPieces
  <2>3. CharsOf(pty_out') \subseteq CharsOf(pty_out) \cup CharsOf(sent)
    BY <1>3, <2>1, CharsOfPieces
  <2>4. PWPROMPT \notin CharsOf(EditedLine[1]) \cup CharsOf(rest) \cup CharsOf(typed)
        /\ PWPROMPT \notin CharsOf(sent)
    BY <2>2 DEF PasswordInv
  <2>5. ASSUME AwaitsPassword
        PROVE  ~Answered' /\ NL \notin CharsOf(rest)
    <3>1. NL \notin CharsOf(sent) /\ NL \notin CharsOf(rest)
      BY <2>2, <2>5 DEF AwaitsPassword
    <3>2. /\ Len(pty_in) \in Nat /\ Len(sent) \in Nat
          /\ Len(pty_in \o sent) = Len(pty_in) + Len(sent)
          /\ \A i \in 1 .. Len(pty_in) + Len(sent) : (pty_in \o sent)[i] =
               IF i <= Len(pty_in) THEN pty_in[i] ELSE sent[i - Len(pty_in)]
      BY <2>1, SomeText, ConcatProperties DEF Text
    <3>3. ~Answered /\ client.asked # 0
      BY <2>5 DEF AwaitsPassword, Answered
    <3>4. ASSUME NEW i \in 1 .. Len(pty_in) + Len(sent), i >= client.asked,
                 (pty_in \o sent)[i] = NL
          PROVE  FALSE
      <4>1. CASE i <= Len(pty_in)
        BY <3>2, <3>3, <3>4, <4>1 DEF Answered
      <4>2. CASE ~(i <= Len(pty_in))
        <5>1. i - Len(pty_in) \in 1 .. Len(sent) /\ sent[i - Len(pty_in)] = NL
          BY <3>2, <3>4, <4>2
        <5> QED BY <3>1, <5>1 DEF CharsOf
      <4> QED BY <4>1, <4>2
    <3>5. ~Answered'
      BY <1>1, <1>3, <3>2, <3>3, <3>4 DEF Answered
    <3> QED BY <3>1, <3>5
  <2>6. ASSUME ~command_is_dead, ~always_readline
        PROVE  /\ \A i \in 1 .. Len(history) : SecretsIn(history[i]) = {}
               /\ Expecting \/ PWPROMPT \in CharsOf(pty_out) => AwaitsPassword
               /\ Expecting => (ui.within_line_edit => ~ui.redisplay)
               /\ \A i, j \in 1 .. Len(typed) : i < j /\ typed[j] <= -100 => typed[i] # NL
    BY <2>6 DEF PasswordInv
  <2>7. Expecting <=> \/ PWPROMPT \in CharsOf(ui.raw_prompt)
                      \/ SecretsIn(EditedLine[1]) # {} \/ SecretsIn(typed) # {}
    BY DEF Expecting
  <2>8. AwaitsPassword => client.mode = "noecho"
    BY DEF AwaitsPassword
  <2> QED BY <1>1, <1>3, <2>3, <2>4, <2>5, <2>6, <2>7, <2>8, PasswordInvPrimed
<1> QED BY <1>2, <1>3, WriteParts

(* The client: it prints other characters, or asks for a password when it    *)
(* has switched the echo off and nothing is on its way to it.                *)
LEMMA ClientPasswordInv ==
  ASSUME EditorInv, PasswordInv, ClientPrints \/ ClientAsksPassword \/ ClientSetsMode
  PROVE  PasswordInv'
<1>1. /\ UNCHANGED <<ui, output_queue, history, typed, pty_in, command_is_dead>>
      /\ EditedLine' = EditedLine
  BY OtherSteps DEF World, ClientPrints, ClientAsksPassword, ClientSetsMode, loopVars
<1>2. /\ pty_out \in Text /\ pty_in \in Text /\ printed \in Nat
      /\ client \in [running : BOOLEAN, tty_open : BOOLEAN,
                     mode : {"echo", "noecho", "raw"}, asked : Nat]
  BY DEF EditorInv, TypeOK
<1>3. PWPROMPT \notin CharsOf(EditedLine[1]) \cup CharsOf(output_queue) \cup CharsOf(typed)
  BY DEF PasswordInv
<1>4. ASSUME ~command_is_dead, ~always_readline
      PROVE  /\ \A i \in 1 .. Len(history) : SecretsIn(history[i]) = {}
             /\ Expecting \/ PWPROMPT \in CharsOf(pty_out) => AwaitsPassword
             /\ Expecting => (ui.within_line_edit => ~ui.redisplay)
             /\ \A i, j \in 1 .. Len(typed) : i < j /\ typed[j] <= -100 => typed[i] # NL
  BY <1>4 DEF PasswordInv
<1>5. Expecting <=> \/ PWPROMPT \in CharsOf(ui.raw_prompt)
                    \/ SecretsIn(EditedLine[1]) # {} \/ SecretsIn(typed) # {}
  BY DEF Expecting
<1>6. AwaitsPassword <=> client.mode = "noecho" /\ ~Answered /\ NL \notin CharsOf(output_queue)
  BY DEF AwaitsPassword
<1>7. CASE ClientPrints
  <2>1. client' = client /\ \E c \in {printed + 1, NL} : pty_out' = Append(pty_out, c)
    BY <1>7 DEF ClientPrints
  <2>2. PICK c \in Char : c # PWPROMPT /\ pty_out' = Append(pty_out, c)
    BY <1>2, <2>1 DEF Char, NL, PWPROMPT
  <2>3. CharsOf(pty_out') = CharsOf(pty_out) \cup {c}
    BY <1>2, <2>2, CharsOfAppend
  <2>4. Answered' <=> Answered
    BY <1>1, <2>1 DEF Answered
  <2> QED BY <1>1, <1>3, <1>4, <1>5, <1>6, <2>1, <2>2, <2>3, <2>4, PasswordInvPrimed
<1>8. CASE ClientAsksPassword
  <2>1. /\ client.mode = "noecho" /\ Answered /\ NL \notin CharsOf(output_queue)
        /\ client'.mode = client.mode /\ client'.asked = Len(pty_in) + 1
    BY <1>2, <1>8 DEF ClientAsksPassword
  <2>2. ~Answered'
    <3>1. Len(pty_in) \in Nat
      BY <1>2, SomeText
    <3>2. \A i \in 1 .. Len(pty_in) : ~(i >= Len(pty_in) + 1)
      BY <3>1
    <3> QED BY <1>1, <2>1, <3>1, <3>2 DEF Answered
  <2>3. ~AwaitsPassword
    BY <1>6, <2>1
  <2> QED BY <1>1, <1>3, <1>4, <1>5, <2>1, <2>2, <2>3, PasswordInvPrimed
<1>9. CASE ClientSetsMode
  <2>1. pty_out' = pty_out /\ Answered
    BY <1>9 DEF ClientSetsMode
  <2>2. ~AwaitsPassword
    BY <1>6, <2>1
  <2> QED BY <1>1, <1>3, <1>4, <1>5, <2>1, <2>2, PasswordInvPrimed
<1> QED BY <1>7, <1>8, <1>9

(* The user types a secret only in answer to a password prompt.              *)
LEMMA UserTypePasswordInv ==
  ASSUME EditorInv, PasswordInv, UserType
  PROVE  PasswordInv'
<1>1. /\ UNCHANGED <<ui, output_queue, history, pty_in, pty_out, client, command_is_dead>>
      /\ EditedLine' = EditedLine /\ (Answered' <=> Answered)
  BY OtherSteps DEF World, UserType, loopVars, Answered
<1>2. typed \in Text /\ Len(keys) \in Nat /\ Len(typed) \in Nat
  BY SomeText DEF EditorInv, TypeOK
<1>3. PICK kind \in UserKeys : typed' = Append(typed, KeyFor(kind))
  BY DEF UserType
<1>4. PICK key : key = KeyFor(kind)
  OBVIOUS
<1>5. /\ key \in Char /\ key # PWPROMPT
      /\ key <= -100 => PWPROMPT \in CharsOf(ui.raw_prompt) /\ NL \notin CharsOf(typed)
  <2>1. kind \in {"letter", "return", "eof", "left"}
    BY MainLoopAssumption
  <2>2. CASE kind = "letter" /\ SeesPasswordPrompt
    <3>1. key = -(100 + Len(keys))
      BY <1>4, <2>2 DEF KeyFor
    <3>2. PWPROMPT \in CharsOf(ui.raw_prompt) /\ NL \notin CharsOf(typed)
      BY <2>2 DEF SeesPasswordPrompt
    <3> QED BY <1>2, <3>1, <3>2 DEF Char, PWPROMPT
  <2>3. CASE kind = "letter" /\ ~SeesPasswordPrompt
    <3>1. key = 100 + Len(keys)
      BY <1>4, <2>3 DEF KeyFor
    <3> QED BY <1>2, <3>1 DEF Char, PWPROMPT
  <2>4. CASE kind # "letter"
    <3>1. key \in {0, -1, -2}
      BY <1>4, <2>1, <2>4 DEF KeyFor, NL, EOFCHAR, LEFT
    <3> QED BY <3>1 DEF Char, PWPROMPT
  <2> QED BY <2>2, <2>3, <2>4
<1>6. /\ CharsOf(typed') = CharsOf(typed) \cup {key} /\ Len(typed') = Len(typed) + 1
      /\ \A i \in 1 .. Len(typed) : typed'[i] = typed[i]
      /\ typed'[Len(typed) + 1] = key
  BY <1>2, <1>3, <1>4, <1>5, CharsOfAppend, AppendProperties DEF Text
<1>7. PWPROMPT \notin CharsOf(EditedLine[1]) \cup CharsOf(output_queue) \cup CharsOf(typed')
  BY <1>5, <1>6 DEF PasswordInv
<1>8. ASSUME ~command_is_dead, ~always_readline
      PROVE  /\ \A i \in 1 .. Len(history) : SecretsIn(history[i]) = {}
             /\ Expecting \/ PWPROMPT \in CharsOf(pty_out) => AwaitsPassword
             /\ Expecting => (ui.within_line_edit => ~ui.redisplay)
             /\ \A i, j \in 1 .. Len(typed) : i < j /\ typed[j] <= -100 => typed[i] # NL
  BY <1>8 DEF PasswordInv
<1>9. ASSUME \/ PWPROMPT \in CharsOf(ui.raw_prompt)
             \/ SecretsIn(EditedLine[1]) # {} \/ SecretsIn(typed') # {}
      PROVE  Expecting
  <2>1. CASE SecretsIn(typed') # {}
    <3>1. SecretsIn(typed) # {} \/ key <= -100
      BY <1>6, <2>1 DEF SecretsIn
    <3> QED BY <1>5, <3>1 DEF Expecting
  <2> QED BY <1>9, <2>1 DEF Expecting
<1>10. ASSUME ~command_is_dead, ~always_readline
       PROVE  \A i, j \in 1 .. Len(typed') : i < j /\ typed'[j] <= -100 => typed'[i] # NL
  <2> SUFFICES ASSUME NEW i \in 1 .. Len(typed'), NEW j \in 1 .. Len(typed'),
                      i < j, typed'[j] <= -100
               PROVE  typed'[i] # NL
    OBVIOUS
  <2>1. i \in 1 .. Len(typed) /\ typed'[i] = typed[i]
    BY <1>2, <1>6
  <2>2. CASE j \in 1 .. Len(typed)
    BY <1>6, <1>8, <1>10, <2>1, <2>2
  <2>3. CASE j = Len(typed) + 1
    BY <1>5, <1>6, <2>1, <2>3 DEF CharsOf
  <2> QED BY <1>2, <1>6, <2>2, <2>3
<1>11. AwaitsPassword <=> client.mode = "noecho" /\ ~Answered /\ NL \notin CharsOf(output_queue)
  BY DEF AwaitsPassword
<1> QED BY <1>1, <1>7, <1>8, <1>9, <1>10, <1>11, PasswordInvPrimed

LEMMA InitPasswordInv == Init => PasswordInv
<1> SUFFICES ASSUME Init PROVE PasswordInv
  OBVIOUS
<1>1. /\ EditedLine[1] = PreGiven /\ output_queue = <<>> /\ typed = <<>>
      /\ pty_out = <<>> /\ ui.raw_prompt = <<>> /\ history = <<>>
  BY DEF Init, InitialUi, EditedLine
<1>2. CharsOf(<<>>) = {} /\ Len(<<>>) = 0
  BY CharsOfPieces, SomeText
<1>3. \A c \in CharsOf(PreGiven) : c \in -99 .. -4
  BY MainLoopAssumption DEF CharsOf
<1>4. SecretsIn(PreGiven) = {} /\ PWPROMPT \notin CharsOf(PreGiven)
  BY <1>3 DEF SecretsIn, PWPROMPT
<1>5. ~Expecting
  BY <1>1, <1>2, <1>4 DEF Expecting, SecretsIn
<1> QED BY <1>1, <1>2, <1>4, <1>5 DEF PasswordInv

LEMMA StepPasswordInv ==
  ASSUME EditorInv, PasswordInv, [Next]_vars
  PROVE  PasswordInv'
BY QuietStepPasswordInv, ReadPtyPasswordInv, ReadStdinPasswordInv, WritePtyPasswordInv,
   ClientPasswordInv, UserTypePasswordInv DEF Next, Loop, World

THEOREM PasswordInvariant == Spec => [](EditorInv /\ PasswordInv)
<1>1. Init => EditorInv /\ PasswordInv
  BY InitEditorInv, InitPasswordInv
<1>2. EditorInv /\ PasswordInv /\ [Next]_vars => (EditorInv /\ PasswordInv)'
  BY StepEditorInv, StepPasswordInv
<1> QED BY <1>1, <1>2, PTL DEF Spec

(* No character of a password gets into the history. *)
THEOREM PasswordsAreForgotten == Spec => []PasswordsForgotten
<1>1. EditorInv /\ PasswordInv => PasswordsForgotten
  <2> SUFFICES ASSUME EditorInv, PasswordInv, ~command_is_dead, ~always_readline,
                      NEW i \in 1 .. Len(history), NEW c \in CharsOf(history[i])
               PROVE  c > -100
    BY DEF PasswordsForgotten
  <2>1. history[i] \in Text
    BY ElementOfSeq DEF EditorInv, TypeOK
  <2>2. c \in Int
    BY <2>1, CharsOfText DEF Char
  <2>3. SecretsIn(history[i]) = {}
    BY DEF PasswordInv
  <2> QED BY <2>2, <2>3 DEF SecretsIn
<1> QED BY <1>1, PasswordInvariant, PTL

-----------------------------------------------------------------------------
(* The keys the user has typed                                              *)

LettersOf(s) == {c \in CharsOf(s) : IsLetter(c)}

(* No letter occurs twice in s. *)
OnceIn(s) == \A i, j \in 1 .. Len(s) : s[i] = s[j] => i = j \/ ~IsLetter(s[i])

LEMMA LettersOfPieces ==
  /\ LettersOf(<<>>) = {} /\ OnceIn(<<>>)
  /\ \A c : LettersOf(<<c>>) = (IF IsLetter(c) THEN {c} ELSE {}) /\ OnceIn(<<c>>)
  /\ \A s, t \in Text :
       /\ LettersOf(s \o t) = LettersOf(s) \cup LettersOf(t)
       /\ OnceIn(s \o t) <=> OnceIn(s) /\ OnceIn(t) /\ LettersOf(s) \cap LettersOf(t) = {}
<1>1. LettersOf(<<>>) = {} /\ OnceIn(<<>>)
  BY SomeText, CharsOfPieces DEF LettersOf, OnceIn
<1>2. ASSUME NEW c
      PROVE  LettersOf(<<c>>) = (IF IsLetter(c) THEN {c} ELSE {}) /\ OnceIn(<<c>>)
  <2>1. CharsOf(<<c>>) = {c}
    BY CharsOfPieces
  <2>2. Len(<<c>>) = 1
    OBVIOUS
  <2> QED BY <2>1, <2>2 DEF LettersOf, OnceIn
<1>3. ASSUME NEW s \in Text, NEW t \in Text
      PROVE  /\ LettersOf(s \o t) = LettersOf(s) \cup LettersOf(t)
             /\ OnceIn(s \o t) <=>
                  OnceIn(s) /\ OnceIn(t) /\ LettersOf(s) \cap LettersOf(t) = {}
  <2>1. CharsOf(s \o t) = CharsOf(s) \cup CharsOf(t)
    BY CharsOfPieces
  <2>2. LettersOf(s \o t) = LettersOf(s) \cup LettersOf(t)
    BY <2>1 DEF LettersOf
  <2>3. /\ Len(s) \in Nat /\ Len(t) \in Nat
        /\ Len(s \o t) = Len(s) + Len(t)
        /\ \A i \in 1 .. Len(s) + Len(t) :
             (s \o t)[i] = IF i <= Len(s) THEN s[i] ELSE t[i - Len(s)]
    BY SomeText, ConcatProperties DEF Text
  <2>4. ASSUME OnceIn(s \o t) PROVE OnceIn(s)
    <3> SUFFICES ASSUME NEW i \in 1 .. Len(s), NEW j \in 1 .. Len(s), s[i] = s[j]
                 PROVE  i = j \/ ~IsLetter(s[i])
      BY DEF OnceIn
    <3>1. i \in 1 .. Len(s \o t) /\ j \in 1 .. Len(s \o t)
          /\ (s \o t)[i] = s[i] /\ (s \o t)[j] = s[j]
      BY <2>3
    <3> QED BY <2>4, <3>1 DEF OnceIn
  <2>5. ASSUME OnceIn(s \o t) PROVE OnceIn(t)
    <3> SUFFICES ASSUME NEW i \in 1 .. Len(t), NEW j \in 1 .. Len(t), t[i] = t[j]
                 PROVE  i = j \/ ~IsLetter(t[i])
      BY DEF OnceIn
    <3>1. Len(s) + i \in 1 .. Len(s \o t) /\ Len(s) + j \in 1 .. Len(s \o t)
          /\ (s \o t)[Len(s) + i] = t[i] /\ (s \o t)[Len(s) + j] = t[j]
      BY <2>3
    <3>2. Len(s) + i = Len(s) + j \/ ~IsLetter(t[i])
      BY <2>5, <3>1 DEF OnceIn
    <3> QED BY <2>3, <3>2
  <2>6. ASSUME OnceIn(s \o t), NEW c \in LettersOf(s), c \in LettersOf(t) PROVE FALSE
    <3>1. PICK i \in 1 .. Len(s) : s[i] = c
      BY DEF LettersOf, CharsOf
    <3>2. PICK j \in 1 .. Len(t) : t[j] = c
      BY <2>6 DEF LettersOf, CharsOf
    <3>3. i \in 1 .. Len(s \o t) /\ Len(s) + j \in 1 .. Len(s \o t) /\ i # Len(s) + j
          /\ (s \o t)[i] = c /\ (s \o t)[Len(s) + j] = c
      BY <2>3, <3>1, <3>2
    <3>4. IsLetter(c)
      BY DEF LettersOf
    <3> QED BY <2>6, <3>3, <3>4 DEF OnceIn
  <2>7. ASSUME OnceIn(s), OnceIn(t), LettersOf(s) \cap LettersOf(t) = {}
        PROVE  OnceIn(s \o t)
    <3> SUFFICES ASSUME NEW i \in 1 .. Len(s) + Len(t), NEW j \in 1 .. Len(s) + Len(t),
                        (s \o t)[i] = (s \o t)[j], IsLetter((s \o t)[i])
                 PROVE  i = j
      BY <2>3 DEF OnceIn
    <3>1. PICK c : c = (s \o t)[i]
      OBVIOUS
    <3>2. ASSUME NEW k \in 1 .. Len(s) + Len(t), (s \o t)[k] = c
          PROVE  \/ k \in 1 .. Len(s) /\ s[k] = c /\ c \in LettersOf(s)
                 \/ k - Len(s) \in 1 .. Len(t) /\ t[k - Len(s)] = c /\ c \in LettersOf(t)
      <4>1. CASE k <= Len(s)
        <5>1. k \in 1 .. Len(s) /\ s[k] = c
          BY <2>3, <3>2, <4>1
        <5> QED BY <3>1, <5>1 DEF LettersOf, CharsOf
      <4>2. CASE ~(k <= Len(s))
        <5>1. k - Len(s) \in 1 .. Len(t) /\ t[k - Len(s)] = c
          BY <2>3, <3>2, <4>2
        <5> QED BY <3>1, <5>1 DEF LettersOf, CharsOf
      <4> QED BY <4>1, <4>2
    <3>3. \/ i \in 1 .. Len(s) /\ j \in 1 .. Len(s) /\ s[i] = c /\ s[j] = c
          \/ /\ i - Len(s) \in 1 .. Len(t) /\ j - Len(s) \in 1 .. Len(t)
             /\ t[i - Len(s)] = c /\ t[j - Len(s)] = c
      BY <2>7, <3>1, <3>2
    <3>4. i = j \/ i - Len(s) = j - Len(s)
      BY <2>7, <3>1, <3>3 DEF OnceIn
    <3> QED BY <2>3, <3>4
  <2> QED BY <2>2, <2>4, <2>5, <2>6, <2>7
<1> QED BY <1>1, <1>2, <1>3

(* The four places where a letter can be, e, q, p and t: it is in one of     *)
(* them, once, and all letters in ls are there.                              *)
InOnePlace(e, q, p, t, ls) ==
  /\ OnceIn(e) /\ OnceIn(q) /\ OnceIn(p) /\ OnceIn(t)
  /\ LettersOf(e) \cap LettersOf(q) = {} /\ LettersOf(e) \cap LettersOf(p) = {}
  /\ LettersOf(e) \cap LettersOf(t) = {} /\ LettersOf(q) \cap LettersOf(p) = {}
  /\ LettersOf(q) \cap LettersOf(t) = {} /\ LettersOf(p) \cap LettersOf(t) = {}
  /\ ls \subseteq LettersOf(e) \cup LettersOf(q) \cup LettersOf(p) \cup LettersOf(t)

KeysInv ==
  /\ InOnePlace(EditedLine[1], output_queue, pty_in, typed, LettersOf(keys))
  /\ \A c \in LettersOf(EditedLine[1]) \cup LettersOf(output_queue) \cup LettersOf(pty_in)
              \cup LettersOf(typed) :
       c < 100 + Len(keys) /\ c > -(100 + Len(keys))

LEMMA InOnePlaceText ==
  ASSUME NEW e \in Text, NEW q \in Text, NEW p \in Text, NEW t \in Text, NEW ls,
         InOnePlace(e, q, p, t, ls)
  PROVE  /\ OnceIn(e \o q \o p \o t)
         /\ ls \subseteq CharsOf(e \o q \o p \o t)
<1>1. PICK a \in Text : a = e \o q
  BY SomeText
<1>2. LettersOf(a) = LettersOf(e) \cup LettersOf(q) /\ OnceIn(a)
  BY <1>1, LettersOfPieces DEF InOnePlace
<1>3. PICK b \in Text : b = a \o p
  BY SomeText
<1>4. LettersOf(b) = LettersOf(a) \cup LettersOf(p) /\ OnceIn(b)
  BY <1>2, <1>3, LettersOfPieces DEF InOnePlace
<1>5. LettersOf(b \o t) = LettersOf(b) \cup LettersOf(t) /\ OnceIn(b \o t)
  BY <1>2, <1>4, LettersOfPieces DEF InOnePlace
<1>6. e \o q \o p \o t = b \o t
  BY <1>1, <1>3
<1>7. ls \subseteq LettersOf(b \o t)
  BY <1>2, <1>4, <1>5 DEF InOnePlace
<1> QED BY <1>5, <1>6, <1>7 DEF LettersOf

(* A letter is inserted into the edited line. *)
LEMMA LettersOfInsertAt ==
  ASSUME NEW s \in Text, NEW p \in 0 .. Len(s), NEW c \in Char, OnceIn(s),
         c \notin LettersOf(s)
  PROVE  /\ OnceIn(InsertAt(s, p, c))
         /\ LettersOf(InsertAt(s, p, c)) = LettersOf(s) \cup LettersOf(<<c>>)
<1> DEFINE before == SubSeq(s, 1, p)
           after  == SubSeq(s, p + 1, Len(s))
<1>1. Len(s) \in Nat /\ s \in Seq(Char) /\ \A i \in 1 .. Len(s) : s[i] \in Char
  BY SomeText, ElementOfSeq DEF Text
<1>2. before \in Text /\ after \in Text
  <2>1. before \in Seq(Char)
    BY <1>1, SubSeqProperties, \A i \in 1 .. p : s[i] \in Char
  <2>2. after \in Seq(Char)
    BY <1>1, SubSeqProperties, \A i \in p + 1 .. Len(s) : s[i] \in Char
  <2> QED BY <2>1, <2>2 DEF Text
<1>3. before \o after = s
  <2>1. 1 \in 1 .. Len(s) + 1 /\ p \in 1 - 1 .. Len(s) /\ Len(s) \in p .. Len(s)
    BY <1>1
  <2>2. before \o after = SubSeq(s, 1, Len(s))
    BY <1>1, <2>1, ConcatAdjacentSubSeq
  <2> QED BY <1>1, <2>2, SubSeqFull
<1>4. InsertAt(s, p, c) = before \o <<c>> \o after
  BY DEF InsertAt
<1> HIDE DEF before, after
<1>5. /\ LettersOf(s) = LettersOf(before) \cup LettersOf(after)
      /\ OnceIn(before) /\ OnceIn(after) /\ LettersOf(before) \cap LettersOf(after) = {}
  BY <1>2, <1>3, LettersOfPieces
<1>6. PICK m \in Text : m = <<c>>
  BY SomeText
<1>7. OnceIn(m) /\ LettersOf(m) = IF IsLetter(c) THEN {c} ELSE {}
  BY <1>6, LettersOfPieces
<1>8. PICK b \in Text : b = before \o m
  BY <1>2, SomeText
<1>9. LettersOf(b) = LettersOf(before) \cup LettersOf(m) /\ OnceIn(b)
  BY <1>2, <1>5, <1>7, <1>8, LettersOfPieces
<1>10. LettersOf(b \o after) = LettersOf(b) \cup LettersOf(after) /\ OnceIn(b \o after)
  BY <1>2, <1>5, <1>7, <1>9, LettersOfPieces
<1>11. InsertAt(s, p, c) = b \o after
  BY <1>4, <1>6, <1>8
<1> QED BY <1>5, <1>6, <1>9, <1>10, <1>11

LEMMA AppendLetters ==
  ASSUME NEW s \in Text, NEW c \in Char
  PROVE  /\ LettersOf(Append(s, c)) = LettersOf(s) \cup LettersOf(<<c>>)
         /\ OnceIn(s) /\ c \notin LettersOf(s) => OnceIn(Append(s, c))
<1>1. PICK m \in Text : m = <<c>>
  BY SomeText
<1>2. Append(s, c) = s \o m
  BY <1>1, AppendIsConcat DEF Text
<1>3. OnceIn(m) /\ LettersOf(m) = IF IsLetter(c) THEN {c} ELSE {}
  BY <1>1, LettersOfPieces
<1>4. /\ LettersOf(s \o m) = LettersOf(s) \cup LettersOf(m)
      /\ OnceIn(s \o m) <=> OnceIn(s) /\ OnceIn(m) /\ LettersOf(s) \cap LettersOf(m) = {}
  BY LettersOfPieces
<1> QED BY <1>1, <1>2, <1>3, <1>4

LEMMA KeysInvPrimed ==
  KeysInv' <=>
    /\ InOnePlace(EditedLine'[1], output_queue', pty_in', typed', LettersOf(keys'))
    /\ \A c \in LettersOf(EditedLine'[1]) \cup LettersOf(output_queue')
                \cup LettersOf(pty_in') \cup LettersOf(typed') :
         c < 100 + Len(keys') /\ c > -(100 + Len(keys'))
BY DEF KeysInv, InOnePlace, OnceIn, LettersOf, CharsOf

(* Steps that have nothing to do with the input. *)
LEMMA QuietStep ==
  ASSUME EditorInv,
         \/ ReadPty \/ ReadPtyFails \/ Timeout \/ Handlers
         \/ ClientPrints \/ ClientAsksPassword \/ ClientSetsMode \/ ClientClosesTty
         \/ ClientExits \/ HangUp \/ UNCHANGED vars
  PROVE  UNCHANGED <<EditedLine, typed, output_queue, pty_in>>
<1>1. EditedLine' = EditedLine
  BY ReadPtyStep, ReadPtyFailsStep, TimeoutStep, SignalStep, SuspendStep, ResumeStep,
     OtherSteps, StutterStep DEF Handlers, World
<1>2. UNCHANGED <<typed, output_queue, pty_in>>
  BY DEF ReadPty, ReadPtyFails, Timeout, Handlers, PassOnSignal, WindowChanges, Suspend,
         Resume, ChildDied, ClientPrints, ClientAsksPassword, ClientSetsMode,
         ClientClosesTty, ClientExits, HangUp, vars, loopVars, worldVars
<1> QED BY <1>1, <1>2

(* Steps that do not move any of the user's input.                           *)
LEMMA QuietStepKeysInv ==
  ASSUME EditorInv, KeysInv,
         \/ ReadPty \/ ReadPtyFails \/ Timeout \/ Handlers
         \/ ClientPrints \/ ClientAsksPassword \/ ClientSetsMode \/ ClientClosesTty
         \/ ClientExits \/ HangUp \/ UNCHANGED vars
  PROVE  KeysInv'
<1>1. keys' = keys
  BY DEF ReadPty, ReadPtyFails, Timeout, Handlers, PassOnSignal, WindowChanges, Suspend,
         Resume, ChildDied, ClientPrints, ClientAsksPassword, ClientSetsMode,
         ClientClosesTty, ClientExits, HangUp, vars, loopVars, worldVars
<1> QED BY <1>1, QuietStep, KeysInvPrimed DEF KeysInv

(* A letter goes from the keyboard to the edited line, or straight to the    *)
(* client; with the return key the line goes to the queue.                   *)
LEMMA ReadStdinKeysInv ==
  ASSUME EditorInv, KeysInv, ReadStdin
  PROVE  KeysInv'
<1>1. /\ typed \in Text /\ typed # <<>> /\ typed' = Tail(typed) /\ keys' = keys
      /\ output_queue \in Text /\ pty_in \in Text
  BY DEF ReadStdin, EditorInv, TypeOK
<1>2. Ready(ui) /\ Coherent(ui) /\ EditedLine = Edited(ui) /\ EditedLine' = Edited(ui')
  BY InvReady, EditedIsEditedLine DEF ReadStdin, Ready
<1>3. PICK key \in Char : key = Head(typed)
  BY <1>1, HeadAndTail
<1>4. PICK k \in Text : k = <<key>>
  BY SomeText
<1>5. typed' \in Text /\ typed = k \o typed'
  BY <1>1, <1>3, <1>4, HeadAndTail
<1>6. /\ LettersOf(typed) = LettersOf(k) \cup LettersOf(typed')
      /\ OnceIn(typed) /\ OnceIn(typed') /\ LettersOf(k) \cap LettersOf(typed') = {}
  BY <1>5, LettersOfPieces DEF KeysInv, InOnePlace
<1>7. LettersOf(k) = (IF IsLetter(key) THEN {key} ELSE {})
  BY <1>4, LettersOfPieces
<1>8. CASE skip_rlwrap
  <2>1. /\ UNCHANGED <<ui, output_queue>> /\ EditedLine' = EditedLine
        /\ pty_in' = Append(pty_in, key)
    BY <1>2, <1>3, <1>8 DEF ReadStdin
  <2>2. key \notin LettersOf(pty_in)
    BY <1>6, <1>7 DEF KeysInv, InOnePlace, LettersOf
  <2>3. LettersOf(pty_in') = LettersOf(pty_in) \cup LettersOf(k) /\ OnceIn(pty_in')
    BY <1>1, <1>4, <2>1, <2>2, AppendLetters DEF KeysInv, InOnePlace
  <2> QED BY <1>1, <1>6, <2>1, <2>3, KeysInvPrimed DEF KeysInv, InOnePlace
<1>9. CASE ~skip_rlwrap
  <2> DEFINE u == IF ui.within_line_edit THEN ui ELSE start_line_edit(ui)
  <2>1. edit_key(u, key) /\ pty_in' = pty_in
    BY <1>3, <1>9 DEF ReadStdin
  <2>2. Ready(u) /\ u.within_line_edit /\ Edited(u) = Edited(ui)
    BY <1>2, StartReady, StartCoherent DEF Ready, Editing
  <2> HIDE DEF u
  <2>3. /\ u.line = EditedLine[1] /\ u.line \in Text /\ u.rl_point \in 0 .. Len(u.line)
    BY <1>2, <2>2 DEF Ready, Editing, Edited, Coherent, UiType
  <2>4. CASE key = NL
    <3>1. EditedLine'[1] = <<>> /\ output_queue' = output_queue \o u.line \o <<NL>>
      BY <1>1, <1>2, <2>1, <2>2, <2>4, EditKeyText
    <3>2. PICK q \in Text : q = output_queue \o u.line
      BY <1>1, <2>3, SomeText
    <3>3. LettersOf(q) = LettersOf(output_queue) \cup LettersOf(u.line) /\ OnceIn(q)
      BY <1>1, <2>3, <3>2, LettersOfPieces DEF KeysInv, InOnePlace
    <3>4. LettersOf(k) = {} /\ OnceIn(k)
      BY <1>4, <1>7, <2>4, LettersOfPieces DEF IsLetter, NL
    <3>5. output_queue' = q \o k
      BY <1>4, <2>4, <3>1, <3>2
    <3>6. LettersOf(output_queue') = LettersOf(q) /\ OnceIn(output_queue')
      BY <3>3, <3>4, <3>5, LettersOfPieces
    <3>7. LettersOf(EditedLine'[1]) = {} /\ OnceIn(EditedLine'[1])
      BY <3>1, LettersOfPieces
    <3> QED BY <1>1, <1>6, <2>1, <2>3, <3>3, <3>4, <3>6, <3>7, KeysInvPrimed
            DEF KeysInv, InOnePlace
  <2>5. CASE key \in {EOFCHAR, LEFT} /\ EditedLine'[1] = u.line
    <3>1. output_queue' = output_queue \/ output_queue' = Append(output_queue, EOFCHAR)
      BY <1>1, <2>1, <2>2, <2>5, EditKeyText DEF NL, EOFCHAR, LEFT
    <3>2. PICK c \in Char : c = EOFCHAR
      BY DEF Char, EOFCHAR
    <3>3. LettersOf(<<c>>) = {} /\ c \notin LettersOf(output_queue) /\ LettersOf(k) = {}
      BY <1>7, <2>5, <3>2, LettersOfPieces DEF LettersOf, IsLetter, EOFCHAR, LEFT
    <3>4. LettersOf(output_queue') = LettersOf(output_queue) /\ OnceIn(output_queue')
      <4>1. CASE output_queue' = output_queue
        BY <4>1 DEF KeysInv, InOnePlace
      <4>2. CASE output_queue' = Append(output_queue, EOFCHAR)
        <5>1. OnceIn(output_queue)
          BY DEF KeysInv, InOnePlace
        <5>2. output_queue' = Append(output_queue, c)
          BY <3>2, <4>2
        <5>3. /\ LettersOf(Append(output_queue, c)) = LettersOf(output_queue) \cup LettersOf(<<c>>)
              /\ OnceIn(Append(output_queue, c))
          BY <1>1, <3>3, <5>1, AppendLetters
        <5> QED BY <3>3, <5>2, <5>3
      <4> QED BY <3>1, <4>1, <4>2
    <3> QED BY <1>1, <1>6, <2>1, <2>3, <2>5, <3>3, <3>4, KeysInvPrimed
            DEF KeysInv, InOnePlace
  <2>6. CASE output_queue' = output_queue /\ EditedLine'[1] = InsertAt(u.line, u.rl_point, key)
    <3>1. key \notin LettersOf(u.line)
      BY <1>6, <1>7, <2>3 DEF KeysInv, InOnePlace, LettersOf
    <3>2. OnceIn(u.line)
      BY <2>3 DEF KeysInv, InOnePlace
    <3>3. /\ LettersOf(EditedLine'[1]) = LettersOf(u.line) \cup LettersOf(k)
          /\ OnceIn(EditedLine'[1])
      BY <1>4, <2>3, <2>6, <3>1, <3>2, LettersOfInsertAt
    <3> QED BY <1>1, <1>6, <2>1, <2>3, <2>6, <3>3, KeysInvPrimed DEF KeysInv, InOnePlace
  <2>7. \/ key = NL
        \/ key \in {EOFCHAR, LEFT} /\ EditedLine'[1] = u.line
        \/ output_queue' = output_queue /\ EditedLine'[1] = InsertAt(u.line, u.rl_point, key)
    BY <1>1, <1>2, <2>1, <2>2, EditKeyText
  <2> QED BY <2>4, <2>5, <2>6, <2>7
<1> QED BY <1>8, <1>9

(* What write() takes goes from the queue to the client. *)
LEMMA WritePtyKeysInv ==
  ASSUME EditorInv, KeysInv, WritePty
  PROVE  KeysInv'
<1>1. EditedLine' = EditedLine /\ UNCHANGED <<typed, keys>>
  BY WritePtyStep DEF WritePty
<1>2. CASE UNCHANGED <<output_queue, pty_in, pty_out>>
  BY <1>1, <1>2, KeysInvPrimed DEF KeysInv
<1>3. ASSUME NEW sent \in Text, NEW rest \in Text,
             output_queue = sent \o rest, output_queue' = rest, pty_in' = pty_in \o sent
      PROVE  KeysInv'
  <2>1. /\ LettersOf(output_queue) = LettersOf(sent) \cup LettersOf(rest)
        /\ OnceIn(sent) /\ OnceIn(rest) /\ LettersOf(sent) \cap LettersOf(rest) = {}
    BY <1>3, LettersOfPieces DEF KeysInv, InOnePlace
  <2>2. pty_in \in Text
    BY DEF EditorInv, TypeOK
  <2>3. /\ LettersOf(pty_in') = LettersOf(pty_in) \cup LettersOf(sent)
        /\ OnceIn(pty_in')
    BY <1>3, <2>1, <2>2, LettersOfPieces DEF KeysInv, InOnePlace
  <2> QED BY <1>1, <1>3, <2>1, <2>3, KeysInvPrimed DEF KeysInv, InOnePlace
<1> QED BY <1>2, <1>3, WriteParts

(* The letter the user types is a new one: its number is as high as the keys *)
(* are many.                                                                 *)
LEMMA UserTypeKeysInv ==
  ASSUME EditorInv, KeysInv, UserType
  PROVE  KeysInv'
<1>1. EditedLine' = EditedLine /\ UNCHANGED <<output_queue, pty_in>>
  BY OtherSteps DEF World, UserType, loopVars
<1>2. typed \in Text /\ keys \in Text
  BY DEF EditorInv, TypeOK
<1>3. PICK n \in Nat : n = Len(keys)
  BY <1>2, SomeText
<1>4. PICK kind \in UserKeys :
        typed' = Append(typed, KeyFor(kind)) /\ keys' = Append(keys, KeyFor(kind))
  BY DEF UserType
<1>5. kind \in {"letter", "return", "eof", "left"}
  BY MainLoopAssumption
<1>6. PICK key : key = KeyFor(kind)
  OBVIOUS
<1>7. key \in {100 + n, -(100 + n), NL, EOFCHAR, LEFT}
  BY <1>3, <1>5, <1>6 DEF KeyFor
<1>8. key \in Char /\ (IsLetter(key) => key \in {100 + n, -(100 + n)})
  BY <1>7 DEF Char, IsLetter, NL, EOFCHAR, LEFT
<1>9. Len(keys') = n + 1
  BY <1>2, <1>3, <1>4, <1>6, <1>8, SomeText
<1>10. \A c \in LettersOf(EditedLine[1]) \cup LettersOf(output_queue) \cup LettersOf(pty_in)
               \cup LettersOf(typed) : c < 100 + n /\ c > -(100 + n)
  BY <1>3 DEF KeysInv
<1>11. key \notin LettersOf(EditedLine[1]) \cup LettersOf(output_queue) \cup LettersOf(pty_in)
                  \cup LettersOf(typed)
  <2>1. \A c \in LettersOf(typed) \cup LettersOf(pty_in) \cup LettersOf(output_queue)
               \cup LettersOf(EditedLine[1]) : IsLetter(c)
    BY DEF LettersOf
  <2>2. ASSUME key \in LettersOf(EditedLine[1]) \cup LettersOf(output_queue)
                       \cup LettersOf(pty_in) \cup LettersOf(typed)
        PROVE  FALSE
    <3>1. key < 100 + n /\ key > -(100 + n) /\ key \in {100 + n, -(100 + n)}
      BY <1>8, <1>10, <2>1, <2>2
    <3> QED BY <3>1
  <2> QED BY <2>2
<1>12. LettersOf(<<key>>) \subseteq {key} /\ (key \in LettersOf(<<key>>) => IsLetter(key))
  BY LettersOfPieces
<1>13. /\ LettersOf(typed') = LettersOf(typed) \cup LettersOf(<<key>>) /\ OnceIn(typed')
       /\ LettersOf(keys') = LettersOf(keys) \cup LettersOf(<<key>>)
  BY <1>2, <1>4, <1>6, <1>8, <1>11, AppendLetters DEF KeysInv, InOnePlace
<1>14. \A c \in LettersOf(EditedLine[1]) \cup LettersOf(output_queue) \cup LettersOf(pty_in)
               \cup LettersOf(typed') :
         c < 100 + (n + 1) /\ c > -(100 + (n + 1))
  <2> SUFFICES ASSUME NEW c \in LettersOf(EditedLine[1]) \cup LettersOf(output_queue)
                        \cup LettersOf(pty_in) \cup LettersOf(typed')
               PROVE  c < 100 + (n + 1) /\ c > -(100 + (n + 1))
    OBVIOUS
  <2>1. CASE c = key /\ IsLetter(key)
    <3>1. c \in {100 + n, -(100 + n)}
      BY <1>8, <2>1
    <3> QED BY <3>1
  <2>2. CASE c # key
    <3>1. c \in LettersOf(EditedLine[1]) \cup LettersOf(output_queue)
                \cup LettersOf(pty_in) \cup LettersOf(typed)
      BY <1>12, <1>13, <2>2
    <3>2. c < 100 + n /\ c > -(100 + n) /\ c \in Char
      <4>1. EditedLine[1] \in Text /\ output_queue \in Text /\ pty_in \in Text
        BY DEF EditorInv, TypeOK, EditedLine, UiType
      <4>2. c \in Char
        BY <1>2, <3>1, <4>1, CharsOfText DEF LettersOf
      <4> QED BY <1>10, <3>1, <4>2
    <3> QED BY <3>2 DEF Char
  <2> QED BY <1>11, <1>12, <1>13, <2>1, <2>2
<1>15. InOnePlace(EditedLine[1], output_queue, pty_in, typed', LettersOf(keys'))
  BY <1>11, <1>12, <1>13 DEF KeysInv, InOnePlace
<1> QED BY <1>1, <1>9, <1>14, <1>15, KeysInvPrimed

LEMMA InitKeysInv == Init => KeysInv
<1> SUFFICES ASSUME Init PROVE KeysInv
  OBVIOUS
<1>1. /\ EditedLine[1] = PreGiven /\ output_queue = <<>> /\ typed = <<>>
      /\ pty_in = <<>> /\ keys = <<>>
  BY DEF Init, InitialUi, EditedLine
<1>2. \A i \in 1 .. Len(PreGiven) : ~IsLetter(PreGiven[i])
  <2>1. \A i \in 1 .. Len(PreGiven) : PreGiven[i] \in -99 .. -4
    BY MainLoopAssumption
  <2>2. \A c \in -99 .. -4 : ~IsLetter(c)
    BY DEF IsLetter
  <2> QED BY <2>1, <2>2
<1>3. LettersOf(PreGiven) = {} /\ OnceIn(PreGiven)
  BY <1>2 DEF LettersOf, OnceIn, CharsOf
<1>4. LettersOf(<<>>) = {} /\ OnceIn(<<>>)
  BY LettersOfPieces
<1> QED BY <1>1, <1>3, <1>4 DEF KeysInv, InOnePlace

LEMMA StepKeysInv ==
  ASSUME EditorInv, KeysInv, [Next]_vars
  PROVE  KeysInv'
BY QuietStepKeysInv, ReadStdinKeysInv, WritePtyKeysInv, UserTypeKeysInv
   DEF Next, Loop, World

(* The letters are kept apart: a new key is not a letter that is anywhere    *)
(* already, and no step copies one or drops it.                              *)
THEOREM KeysInvariant == Spec => [](EditorInv /\ KeysInv)
<1>1. Init => EditorInv /\ KeysInv
  BY InitEditorInv, InitKeysInv
<1>2. EditorInv /\ KeysInv /\ [Next]_vars => (EditorInv /\ KeysInv)'
  BY StepEditorInv, StepKeysInv
<1> QED BY <1>1, <1>2, PTL DEF Spec

(* Every letter the user types waits for rlwrap, is in the edited line, in   *)
(* the queue or written to the client, and in one of these places only: none *)
(* is lost or sent twice.                                                    *)
THEOREM NoKeyIsLost == Spec => []EveryKeyInOnePlace
<1>1. EditorInv /\ KeysInv => EveryKeyInOnePlace
  <2> SUFFICES ASSUME EditorInv, KeysInv PROVE EveryKeyInOnePlace
    OBVIOUS
  <2>1. /\ EditedLine[1] \in Text /\ output_queue \in Text /\ pty_in \in Text
        /\ typed \in Text
    BY DEF EditorInv, TypeOK, EditedLine, UiType
  <2>2. PICK places : places = EditedLine[1] \o output_queue \o pty_in \o typed
    OBVIOUS
  <2>3. OnceIn(places) /\ LettersOf(keys) \subseteq CharsOf(places)
    BY <2>1, <2>2, InOnePlaceText DEF KeysInv
  <2>4. \A i \in 1 .. Len(keys) : IsLetter(keys[i]) => keys[i] \in CharsOf(places)
    BY <2>3 DEF LettersOf, CharsOf
  <2> QED BY <2>2, <2>3, <2>4 DEF EveryKeyInOnePlace, OnceIn
<1> QED BY <1>1, KeysInvariant, PTL

-----------------------------------------------------------------------------
(* MainLoop implements LineRelay                                            *)

(* The three restrictions: the line discipline does not matter or is never   *)
(* raw, and no key but letters and returns is pressed.                       *)
LineByLine ==
  /\ always_readline \/ "raw" \notin ClientModes
  /\ UserKeys \subseteq {"letter", "return"}

-----------------------------------------------------------------------------
(* Sequences *)

LEMMA TextConcat ==
  /\ \A s, t, v \in Text : (s \o t) \o v = s \o (t \o v)
  /\ \A s \in Text : s \o <<>> = s /\ <<>> \o s = s
<1>1. \A s, t, v \in Text : (s \o t) \o v = s \o (t \o v)
  BY ConcatAssociative DEF Text
<1>2. \A s \in Text : s \o <<>> = s /\ <<>> \o s = s
  BY ConcatEmptySeq DEF Text
<1> QED BY <1>1, <1>2

(* Moving the first character of t to the end of s.                          *)
LEMMA MoveFirst ==
  ASSUME NEW s \in Text, NEW t \in Text, t # <<>>
  PROVE  (s \o <<Head(t)>>) \o Tail(t) = s \o t
<1>1. Head(t) \in Char /\ Tail(t) \in Text
  BY HeadAndTail
<1>2. <<Head(t)>> \in Text
  BY <1>1, SomeText
<1>3. <<Head(t)>> \o Tail(t) = t
  BY HeadAndTail
<1> QED BY <1>1, <1>2, <1>3, ConcatAssociative DEF Text

LEMMA AppendToSecond ==
  ASSUME NEW s \in Text, NEW t \in Text, NEW c \in Char
  PROVE  s \o Append(t, c) = Append(s \o t, c)
<1>1. <<c>> \in Text /\ s \o t \in Text
  BY SomeText
<1>2. Append(t, c) = t \o <<c>> /\ Append(s \o t, c) = (s \o t) \o <<c>>
  BY <1>1, AppendIsConcat DEF Text
<1>3. (s \o t) \o <<c>> = s \o (t \o <<c>>)
  BY <1>1, ConcatAssociative DEF Text
<1> QED BY <1>2, <1>3

(* Taking the front of a concatenation off again.                            *)
LEMMA TakeFront ==
  ASSUME NEW s \in Text, NEW t \in Text
  PROVE  /\ Relay!Front(s \o t, Len(s)) = s
         /\ Relay!Rest(s \o t, Len(s)) = t
<1>1. Len(s) \in Nat /\ Len(t) \in Nat
  BY SomeText
<1>2. /\ s \o t \in Text /\ Len(s \o t) = Len(s) + Len(t)
      /\ \A i \in 1 .. Len(s) + Len(t) :
           (s \o t)[i] = IF i <= Len(s) THEN s[i] ELSE t[i - Len(s)]
  BY ConcatProperties DEF Text
<1>3. \A i \in 1 .. Len(s) + Len(t) : (s \o t)[i] \in Char
  BY <1>2, ElementOfSeq DEF Text
<1>4. Relay!Front(s \o t, Len(s)) = s
  <2> DEFINE f == SubSeq(s \o t, 1, Len(s))
  <2>1. f \in Text /\ Len(f) = Len(s) /\ \A i \in 1 .. Len(s) : f[i] = (s \o t)[i]
    <3>1. \A i \in 1 .. Len(s) : (s \o t)[i] \in Char
      BY <1>1, <1>3
    <3> HIDE DEF Char
    <3> QED BY <1>1, <3>1, SubSeqProperties DEF Text
  <2>2. \A i \in 1 .. Len(s) : f[i] = s[i]
    BY <1>1, <1>2, <2>1
  <2> HIDE DEF f
  <2>3. f = s
    BY <2>1, <2>2, SeqEqual DEF Text
  <2> QED BY <2>3 DEF f, Relay!Front
<1>5. Relay!Rest(s \o t, Len(s)) = t
  <2> DEFINE r == SubSeq(s \o t, Len(s) + 1, Len(s) + Len(t))
  <2>1. r \in Text /\ Len(r) = Len(t) /\ \A i \in 1 .. Len(t) : r[i] = (s \o t)[Len(s) + i]
    <3>1. \A i \in Len(s) + 1 .. Len(s) + Len(t) : (s \o t)[i] \in Char
      BY <1>1, <1>3
    <3> QED BY <1>1, <3>1, SubSeqProperties DEF Text
  <2>2. \A i \in 1 .. Len(t) : r[i] = t[i]
    BY <1>1, <1>2, <2>1
  <2> HIDE DEF r
  <2>3. r = t
    BY <2>1, <2>2, SeqEqual DEF Text
  <2> QED BY <1>2, <2>3 DEF r, Relay!Rest
<1> QED BY <1>4, <1>5

(* Inserting at the end is appending.                                        *)
LEMMA InsertAtEnd ==
  ASSUME NEW s \in Text, NEW c \in Char
  PROVE  InsertAt(s, Len(s), c) = s \o <<c>>
<1>1. Len(s) \in Nat /\ <<c>> \in Text /\ s \o <<c>> \in Text
  BY SomeText
<1>2. SubSeq(s, 1, Len(s)) = s
  BY SubSeqFull DEF Text
<1>3. SubSeq(s, Len(s) + 1, Len(s)) = <<>>
  BY <1>1, SubSeqEmpty
<1>4. (s \o <<c>>) \o <<>> = s \o <<c>>
  BY <1>1, ConcatEmptySeq DEF Text
<1> QED BY <1>2, <1>3, <1>4 DEF InsertAt

-----------------------------------------------------------------------------
(* The invariant: what is being edited is the beginning of a line, with the  *)
(* cursor at its end.                                                        *)
Unfinished(e) == e[2] = Len(e[1]) /\ \A i \in 1 .. Len(e[1]) : e[1][i] # NL

RelayInv ==
  /\ EditorInv
  /\ Unfinished(EditedLine)
  /\ \A i \in 1 .. Len(typed) : typed[i] \notin {EOFCHAR, LEFT}
  /\ always_readline \/ client.mode # "raw"

LEMMA InitRelayInv ==
  ASSUME LineByLine, Init
  PROVE  RelayInv
<1>1. EditorInv
  BY InitEditorInv
<1>2. EditedLine = <<PreGiven, Len(PreGiven)>>
  BY DEF Init, InitialUi, EditedLine
<1>3. \A i \in 1 .. Len(PreGiven) : PreGiven[i] # NL
  <2>1. \A i \in 1 .. Len(PreGiven) : PreGiven[i] \in -99 .. -4
    BY MainLoopAssumption
  <2>2. \A c \in -99 .. -4 : c # NL
    BY DEF NL
  <2> QED BY <2>1, <2>2
<1>4. Unfinished(EditedLine)
  BY <1>2, <1>3 DEF Unfinished
<1>5. \A i \in 1 .. Len(typed) : typed[i] \notin {EOFCHAR, LEFT}
  BY SomeText DEF Init
<1>6. always_readline \/ client.mode # "raw"
  BY DEF Init, LineByLine
<1> QED BY <1>1, <1>4, <1>5, <1>6 DEF RelayInv

-----------------------------------------------------------------------------
(* The steps: each is a step of LineRelay, or changes nothing there.         *)

(* The client does not choose the raw line discipline.                       *)
LEMMA ModeStep ==
  ASSUME LineByLine, RelayInv, [Next]_vars
  PROVE  always_readline \/ client'.mode # "raw"
<1> SUFFICES ASSUME ~always_readline PROVE client'.mode # "raw"
  OBVIOUS
<1>1. client.mode # "raw" /\ "raw" \notin ClientModes /\ TypeOK
  BY DEF RelayInv, LineByLine, EditorInv
<1>2. CASE client' = client
  BY <1>1, <1>2
<1>3. CASE ClientAsksPassword \/ ClientClosesTty \/ ClientExits
  BY <1>1, <1>3 DEF ClientAsksPassword, ClientClosesTty, ClientExits, TypeOK
<1>4. CASE ClientSetsMode
  BY <1>1, <1>4 DEF ClientSetsMode, TypeOK
<1>5. client' = client \/ ClientAsksPassword \/ ClientClosesTty \/ ClientExits
      \/ ClientSetsMode
  BY DEF Next, Loop, Handlers, World, ReadPty, ReadPtyFails, ReadStdin, WritePty, Timeout,
         PassOnSignal, WindowChanges, Suspend, Resume, ChildDied, ClientPrints, UserType,
         HangUp, vars, worldVars
<1> QED BY <1>2, <1>3, <1>4, <1>5

(* The user presses a key: Type. *)
LEMMA UserTypeStep ==
  ASSUME LineByLine, RelayInv, UserType
  PROVE  /\ EditedLine' = EditedLine
         /\ \A i \in 1 .. Len(typed') : typed'[i] \notin {EOFCHAR, LEFT}
         /\ Relay!Type
<1>1. TypeOK /\ EditedLine' = EditedLine
  BY OtherSteps DEF RelayInv, EditorInv, World
<1>2. PICK kind \in UserKeys : typed' = Append(typed, KeyFor(kind))
  BY DEF UserType
<1> DEFINE key == KeyFor(kind)
<1>3. key \in Char /\ key \notin {EOFCHAR, LEFT}
  <2>1. Len(keys) \in Nat
    BY <1>1, SomeText DEF TypeOK
  <2> QED BY <2>1, <1>2 DEF LineByLine, KeyFor, NL, EOFCHAR, LEFT, Char
<1> HIDE DEF key
<1>4. typed \in Text /\ EditedLine[1] \in Text
  BY <1>1 DEF TypeOK, UiType, EditedLine
<1>5. \A i \in 1 .. Len(typed') : typed'[i] \notin {EOFCHAR, LEFT}
  <2>1. /\ Len(typed) \in Nat /\ Len(typed') = Len(typed) + 1
        /\ \A i \in 1 .. Len(typed) : typed'[i] = typed[i]
        /\ typed'[Len(typed) + 1] = key
    BY <1>2, <1>3, <1>4, SomeText, AppendProperties DEF Text, key
  <2> SUFFICES ASSUME NEW i \in 1 .. Len(typed') PROVE typed'[i] \notin {EOFCHAR, LEFT}
    OBVIOUS
  <2>2. i \in 1 .. Len(typed) \/ i = Len(typed) + 1
    BY <2>1
  <2> QED BY <1>3, <2>1, <2>2 DEF RelayInv
<1>6. Relay!Type
  <2> DEFINE before == EditedLine[1] \o typed
             after  == EditedLine[1] \o Append(typed, key)
  <2>1. before \in Text
    BY <1>4, SomeText
  <2>2. after = Append(before, key)
    BY <1>3, <1>4, AppendToSecond
  <2>3. (EditedLine[1] \o typed)' = after
    BY <1>1, <1>2 DEF key
  <2> HIDE DEF before, after
  <2>4. after # <<>> /\ after[Len(after)] = key
    BY <1>3, <2>1, <2>2, SomeText, AppendProperties DEF Text
  <2>5. UNCHANGED <<output_queue, pty_in>>
    BY DEF UserType, loopVars
  <2> QED BY <2>2, <2>3, <2>4, <2>5 DEF Relay!Type, before
<1> QED BY <1>1, <1>5, <1>6

(* The queue is written to the pty: Deliver. *)
LEMMA WritePtyDelivers ==
  ASSUME RelayInv, WritePty
  PROVE  /\ EditedLine' = EditedLine /\ typed' = typed
         /\ Relay!Deliver \/ UNCHANGED <<output_queue, pty_in>>
<1>1. EditedLine' = EditedLine
  BY WritePtyStep DEF RelayInv
<1>2. typed' = typed
  BY DEF WritePty
<1>3. CASE client.tty_open
  <2>1. PICK n \in how_much :
          /\ output_queue' = SubSeq(output_queue, n + 1, Len(output_queue))
          /\ pty_in' = pty_in \o SubSeq(output_queue, 1, n)
    BY <1>3 DEF WritePty, flush_output_queue
  <2>2. n \in 1 .. Len(output_queue) /\ Relay!InFirstLine(output_queue, n)
    BY DEF how_much, Relay!InFirstLine
  <2>3. (EditedLine[1] \o typed)' = EditedLine[1] \o typed
    BY <1>1, <1>2
  <2> QED BY <1>1, <1>2, <2>1, <2>2, <2>3 DEF Relay!Deliver, Relay!Front, Relay!Rest
<1>4. CASE ~client.tty_open
  BY <1>1, <1>2, <1>4 DEF WritePty, flush_output_queue
<1> QED BY <1>1, <1>2, <1>3, <1>4

LEMMA UnfinishedPair ==
  ASSUME NEW line, NEW cursor
  PROVE  Unfinished(<<line, cursor>>) <=>
           cursor = Len(line) /\ \A i \in 1 .. Len(line) : line[i] # NL
BY DEF Unfinished

(* A key in a line edit, with what was to be read after it. *)
LEMMA EditKeyRelays ==
  ASSUME RelayInv, NEW u, Ready(u), u.within_line_edit, Unfinished(Edited(u)),
         NEW rest \in Text, NEW key \in Char, key \notin {EOFCHAR, LEFT}, edit_key(u, key)
  PROVE  /\ Unfinished(Edited(ui'))
         /\ \/ /\ Edited(ui')[1] \o rest = (u.line \o <<key>>) \o rest
               /\ UNCHANGED output_queue
            \/ /\ key = NL /\ Edited(ui')[1] \o rest = rest
               /\ output_queue' = output_queue \o (u.line \o <<NL>>)
<1>1. /\ u.line \in Text /\ u.handler /\ Edited(u) = <<u.line, u.rl_point>>
      /\ u \in UiType /\ output_queue \in Text
  BY DEF Ready, Editing, Coherent, UiType, Edited, RelayInv, EditorInv, TypeOK
<1>2. /\ u.rl_point = Len(u.line) /\ Len(u.line) \in Nat
      /\ \A i \in 1 .. Len(u.line) : u.line[i] # NL
  <2>1. Len(u.line) \in Nat
    BY <1>1, SomeText
  <2>2. Unfinished(<<u.line, u.rl_point>>)
    BY <1>1
  <2> QED BY <2>1, <2>2, UnfinishedPair
<1>3. CASE key = NL
  <2>1. accept_line(u)
    BY <1>3 DEF edit_key, NL, EOFCHAR
  <2>2. Edited(ui') = <<<<>>, 0>>
    BY <1>1, <2>1 DEF accept_line, line_handler, Edited, UiType
  <2>3. Unfinished(Edited(ui'))
    BY <2>2, SomeText DEF Unfinished
  <2>4. Edited(ui')[1] \o rest = rest
    BY <2>2, ConcatEmptySeq DEF Text
  <2>5. output_queue' = output_queue \o (u.line \o <<NL>>)
    <3>1. <<NL>> \in Text
      BY <1>3, SomeText
    <3>2. (output_queue \o u.line) \o <<NL>> = output_queue \o (u.line \o <<NL>>)
      BY <1>1, <3>1, TextConcat
    <3> QED BY <2>1, <3>2 DEF accept_line
  <2> QED BY <1>3, <2>3, <2>4, <2>5
<1>4. CASE key # NL
  <2>1. ui' = self_insert(u, key) /\ UNCHANGED output_queue
    BY <1>4 DEF edit_key, EOFCHAR, LEFT
  <2> DEFINE line == u.line \o <<key>>
  <2>2. InsertAt(u.line, u.rl_point, key) = line
    BY <1>1, <1>2, InsertAtEnd
  <2>3. /\ line \in Text /\ Len(line) = Len(u.line) + 1
        /\ \A i \in 1 .. Len(line) : line[i] # NL
    <3>1. <<key>> \in Text /\ Len(<<key>>) = 1 /\ <<key>>[1] = key
      BY SomeText
    <3>2. /\ line \in Text /\ Len(line) = Len(u.line) + 1
          /\ \A i \in 1 .. Len(u.line) + 1 :
               line[i] = IF i <= Len(u.line) THEN u.line[i] ELSE <<key>>[i - Len(u.line)]
      BY <1>1, <3>1, ConcatProperties DEF Text
    <3> HIDE DEF line
    <3> SUFFICES ASSUME NEW i \in 1 .. Len(line) PROVE line[i] # NL
      BY <3>2
    <3>3. CASE i <= Len(u.line)
      BY <1>2, <3>2, <3>3
    <3>4. CASE i = Len(u.line) + 1
      BY <1>2, <1>4, <3>1, <3>2, <3>4
    <3> QED BY <1>2, <3>2, <3>3, <3>4
  <2>4. Edited(ui') = <<line, Len(line)>>
    <3>1. self_insert(u, key) = [u EXCEPT !.line = line, !.rl_point = u.rl_point + 1]
      BY <1>1, <2>2 DEF self_insert, UiType
    <3> HIDE DEF line
    <3> QED BY <1>1, <1>2, <2>1, <2>3, <3>1 DEF Edited, UiType
  <2> HIDE DEF line
  <2>5. Unfinished(Edited(ui'))
    BY <2>3, <2>4, UnfinishedPair
  <2>6. Edited(ui')[1] = line
    BY <2>4
  <2>7. Edited(ui')[1] \o rest = (u.line \o <<key>>) \o rest
    BY <2>6 DEF line
  <2> QED BY <2>1, <2>5, <2>7
<1> QED BY <1>3, <1>4

LEMMA ReadStdinRelays ==
  ASSUME RelayInv, ReadStdin
  PROVE  /\ Unfinished(EditedLine')
         /\ \A i \in 1 .. Len(typed') : typed'[i] \notin {EOFCHAR, LEFT}
         /\ Relay!Accept \/ UNCHANGED Relay!vars
<1> DEFINE u == IF ui.within_line_edit THEN ui ELSE start_line_edit(ui)
           key == Head(typed)
           rest == Tail(typed)
<1>1. /\ EditorInv /\ TypeOK /\ Ready(ui) /\ typed \in Text /\ typed # <<>>
      /\ EditedLine = Edited(ui) /\ EditedLine' = Edited(ui')
      /\ ~skip_rlwrap /\ typed' = rest /\ edit_key(u, key) /\ pty_in' = pty_in
  BY InvReady, EditedIsEditedLine
     DEF ReadStdin, RelayInv, EditorInv, TypeOK, skip_rlwrap
<1>2. /\ key \in Char /\ rest \in Text /\ Len(typed) \in Nat
      /\ Len(rest) = Len(typed) - 1 /\ key = typed[1]
      /\ \A i \in 1 .. Len(rest) : rest[i] = typed[i + 1]
  BY <1>1, HeadTailProperties, LenProperties DEF Text
<1>3. key \notin {EOFCHAR, LEFT} /\ \A i \in 1 .. Len(rest) : rest[i] \notin {EOFCHAR, LEFT}
  <2>1. 1 \in 1 .. Len(typed) /\ \A i \in 1 .. Len(rest) : i + 1 \in 1 .. Len(typed)
    BY <1>1, <1>2, EmptySeq DEF Text
  <2> HIDE DEF key, rest
  <2> QED BY <1>2, <2>1 DEF RelayInv
<1>4. Ready(u) /\ u.within_line_edit /\ Edited(u) = Edited(ui)
  BY <1>1, StartReady, StartCoherent DEF Ready, Editing
<1>5. Unfinished(Edited(u)) /\ u.line \in Text /\ Edited(u)[1] = u.line
  BY <1>1, <1>4 DEF RelayInv, Ready, Editing, Coherent, UiType, Edited
<1>6. (u.line \o <<key>>) \o rest = u.line \o typed
  BY <1>1, <1>5, MoveFirst
<1> HIDE DEF u, key, rest
<1>7. /\ Unfinished(Edited(ui'))
      /\ \/ Edited(ui')[1] \o rest = u.line \o typed /\ UNCHANGED output_queue
         \/ /\ key = NL /\ Edited(ui')[1] \o rest = rest
            /\ output_queue' = output_queue \o (u.line \o <<NL>>)
  <2>1. RelayInv /\ edit_key(u, key) /\ key \in Char /\ rest \in Text /\ key \notin {EOFCHAR, LEFT}
    BY <1>1, <1>2, <1>3
  <2>2. /\ Unfinished(Edited(ui'))
        /\ \/ /\ Edited(ui')[1] \o rest = (u.line \o <<key>>) \o rest
              /\ UNCHANGED output_queue
           \/ /\ key = NL /\ Edited(ui')[1] \o rest = rest
              /\ output_queue' = output_queue \o (u.line \o <<NL>>)
    BY <1>4, <1>5, <2>1, EditKeyRelays
  <2> QED BY <1>6, <2>2
<1>8. (EditedLine[1] \o typed)' = Edited(ui')[1] \o rest /\ EditedLine[1] = u.line
  BY <1>1, <1>4, <1>5
<1>9. CASE key = NL /\ Edited(ui')[1] \o rest = rest
           /\ output_queue' = output_queue \o (u.line \o <<NL>>)
  <2> DEFINE line == u.line \o <<NL>>
             pending == u.line \o typed
  <2>1. /\ line \in Text /\ Len(line) = Len(u.line) + 1 /\ Len(u.line) \in Nat
        /\ <<NL>> \in Text
    <3>1. u.line \in Text /\ NL \in Char
      BY <1>2, <1>5, <1>9
    <3>2. <<NL>> \in Text /\ Len(<<NL>>) = 1 /\ Len(u.line) \in Nat
      BY <3>1, SomeText
    <3> QED BY <3>1, <3>2, SomeText
  <2>2. pending = line \o rest
    BY <1>6, <1>9
  <2>3. \A i \in 1 .. Len(u.line) + 1 :
           pending[i] = IF i <= Len(u.line) THEN u.line[i] ELSE NL
    <3>1. \A i \in 1 .. Len(u.line) + 1 :
             line[i] = IF i <= Len(u.line) THEN u.line[i] ELSE <<NL>>[i - Len(u.line)]
      BY <1>5, <2>1, ConcatProperties, SomeText DEF Text
    <3>2. \A i \in 1 .. Len(u.line) + 1 : (line \o rest)[i] = line[i]
      <4> HIDE DEF line
      <4>1. Len(rest) \in Nat /\ \A i \in 1 .. Len(line) + Len(rest) :
               (line \o rest)[i] = IF i <= Len(line) THEN line[i] ELSE rest[i - Len(line)]
        BY <1>2, <2>1, ConcatProperties, SomeText, SMTT(40) DEF Text
      <4> QED BY <2>1, <4>1
    <3> HIDE DEF line, pending
    <3> QED BY <2>1, <2>2, <3>1, <3>2
  <2>4. Len(line) \in 1 .. Len(pending)
    <3> HIDE DEF line, pending
    <3>1. Len(rest) \in Nat /\ Len(pending) = Len(line) + Len(rest)
      BY <1>2, <2>1, <2>2, SomeText
    <3> QED BY <2>1, <3>1
  <2>5. pending[Len(line)] = NL /\ \A i \in 1 .. Len(line) - 1 : pending[i] # NL
    <3> HIDE DEF line, pending
    <3>1. \A i \in 1 .. Len(u.line) : u.line[i] # NL
      BY <1>5 DEF Unfinished
    <3> QED BY <2>1, <2>3, <3>1
  <2>6. Relay!Front(pending, Len(line)) = line /\ Relay!Rest(pending, Len(line)) = rest
    <3> HIDE DEF line, pending
    <3> QED BY <1>2, <2>1, <2>2, TakeFront
  <2>7. /\ EditedLine[1] \o typed = pending /\ (EditedLine[1] \o typed)' = rest
        /\ output_queue' = output_queue \o line
    BY <1>8, <1>9
  <2> HIDE DEF line, pending
  <2>8. Relay!InFirstLine(pending, Len(line))
    BY <2>4, <2>5 DEF Relay!InFirstLine
  <2>9. Relay!Accept
    BY <1>1, <2>4, <2>5, <2>6, <2>7, <2>8 DEF Relay!Accept
  <2> QED BY <1>1, <1>3, <1>7, <2>9
<1>10. CASE Edited(ui')[1] \o rest = u.line \o typed /\ UNCHANGED output_queue
  BY <1>1, <1>3, <1>7, <1>8, <1>10 DEF Relay!vars
<1> QED BY <1>7, <1>9, <1>10

-----------------------------------------------------------------------------
LEMMA StepRelays ==
  ASSUME LineByLine, RelayInv, [Next]_vars
  PROVE  RelayInv' /\ [Relay!Next]_(Relay!vars)
<1>1. EditorInv /\ EditorInv' /\ (always_readline \/ client'.mode # "raw")
  BY StepEditorInv, ModeStep DEF RelayInv
<1>2. /\ Unfinished(EditedLine')
      /\ \A i \in 1 .. Len(typed') : typed'[i] \notin {EOFCHAR, LEFT}
      /\ Relay!Next \/ UNCHANGED Relay!vars
  <2>1. CASE ReadStdin
    BY <2>1, ReadStdinRelays DEF Relay!Next
  <2>2. CASE WritePty
    BY <2>2, WritePtyDelivers DEF RelayInv, Relay!Next, Relay!vars
  <2>3. CASE UserType
    BY <2>3, UserTypeStep DEF RelayInv, Relay!Next
  <2>4. CASE UNCHANGED <<EditedLine, typed, output_queue, pty_in>>
    BY <2>4 DEF RelayInv, Relay!vars
  <2> QED BY <1>1, <2>1, <2>2, <2>3, <2>4, QuietStep DEF Next, Loop, World
<1> QED BY <1>1, <1>2 DEF RelayInv

(* Where the client never gets raw input and the user types from left to     *)
(* right, rlwrap relays lines: all that main_loop(), line_handler() and      *)
(* flush_output_queue() do to the input is to pass on finished lines, whole  *)
(* or in parts, once and in order.                                           *)
THEOREM MainLoopImplementsLineRelay ==
  ASSUME LineByLine
  PROVE  Spec => ImplementsLineRelay
<1>1. Init => RelayInv
  BY InitRelayInv
<1>2. Init => Relay!Init
  <2> SUFFICES ASSUME Init PROVE Relay!Init
    OBVIOUS
  <2>1. EditedLine[1] = PreGiven /\ typed = <<>> /\ output_queue = <<>> /\ pty_in = <<>>
    BY DEF Init, InitialUi, EditedLine
  <2>2. PreGiven \o <<>> = PreGiven
    BY MainLoopAssumption, ConcatEmptySeq DEF Text
  <2> QED BY <2>1, <2>2 DEF Relay!Init
<1>3. RelayInv /\ [Next]_vars => RelayInv' /\ [Relay!Next]_(Relay!vars)
  BY StepRelays
<1> QED BY <1>1, <1>2, <1>3, PTL DEF Spec, ImplementsLineRelay, Relay!Spec
=============================================================================
