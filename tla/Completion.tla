----------------------------- MODULE Completion -----------------------------
(***************************************************************************)
(* Completion words (src/src/completion.rb, and completion.c that rbgen      *)
(* makes of it): where words come from, and my_completion_function(), which  *)
(* gathers the completions of a prefix in a tree of its own, has them        *)
(* rewritten by the filter, and hands them out one per call. The trees are   *)
(* those of RedBlack, with all their pointers.                              *)
(***************************************************************************)
EXTENDS RedBlack, SequencesExt

CONSTANTS
  Lines,     \* lines of words that are fed into the list, or removed by a filter
  Files,     \* the file names rl_filename_completion_function() goes through
  Typed,     \* what the user may have typed
  Answers,   \* what a filter may make of the completions: sequences of words
  complete_filenames  \* option -c

VARIABLES
  stage,        \* "options", "running", "filtering" (in pass_through_filter()), "failed"
  filter,       \* option -z: filter_pid # 0
  opt_f,        \* the -f option has been seen
  memory,       \* both trees, and completion_is_case_sensitive
  scratch_list, \* its nextp
  returned      \* what readline was given last, or NULL

vars == <<stage, filter, opt_f, memory, scratch_list, returned>>

Init ==
  /\ stage = "options" /\ filter \in BOOLEAN
  /\ opt_f = FALSE /\ memory = InitialMemory(TRUE)
  /\ scratch_list = RBNULL /\ returned = NULL

-----------------------------------------------------------------------------
feed_line_into_completion_list(m, line) ==
  FoldLeft(LAMBDA mm, word : rbsearch(mm, "completion", word), m, line)

remove_words(m, line) ==
  FoldLeft(LAMBDA mm, word : rbdelete(mm, "completion", word), m, line)

\* Mutant: the -i option may come at any place.
CaseIgnoredAnywhere ==
  /\ stage = "options"
  /\ memory' = [memory EXCEPT !.case_sensitive = FALSE]
  /\ UNCHANGED <<stage, filter, opt_f, scratch_list, returned>>

(* -i: the order of the words depends on it, so that it has to come before -f. *)
OptionI ==
  /\ stage = "options"
  /\ IF opt_f THEN stage' = "failed" /\ UNCHANGED memory
     ELSE memory' = [memory EXCEPT !.case_sensitive = FALSE] /\ UNCHANGED stage
  /\ UNCHANGED <<filter, opt_f, scratch_list, returned>>

(* -f: a file of words (or, with an argument of ".", the history, later on). *)
OptionF(line) ==
  /\ stage = "options" /\ opt_f' = TRUE
  /\ memory' \in {memory, feed_line_into_completion_list(memory, line)}
  /\ UNCHANGED <<stage, filter, scratch_list, returned>>

Start ==
  /\ stage = "options" /\ stage' = "running"
  /\ UNCHANGED <<filter, opt_f, memory, scratch_list, returned>>

(* Words from the completion file, from the history, from what is typed and *)
(* printed (-r), or from a filter, which may be in the midst of a completion. *)
FeedLine(line) ==
  /\ stage = "running" \/ stage = "filtering"
  /\ memory' = feed_line_into_completion_list(memory, line)
  /\ UNCHANGED <<stage, filter, opt_f, scratch_list, returned>>

RemoveWords(line) ==
  /\ filter /\ (stage = "running" \/ stage = "filtering")
  /\ memory' = remove_words(memory, line)
  /\ UNCHANGED <<stage, filter, opt_f, scratch_list, returned>>

-----------------------------------------------------------------------------
is_prefix(m, s0, s1) == IsPrefix(Folded(m, s0), Folded(m, s1))

(* Copies of the words from word on that begin with prefix. *)
RECURSIVE FromList(_, _, _)
FromList(m, prefix, word) ==
  IF word = NULL THEN m
  ELSE IF ~is_prefix(m, prefix, word) THEN m
  ELSE FromList(rbsearch(m, "scratch", word), prefix,
                rblookup(m, "completion", "GREAT", word, 0))

FromFiles(m, prefix) ==
  IF complete_filenames
  THEN FoldLeft(LAMBDA mm, f : rbsearch(mm, "scratch", f), m,
                SelectSeq(Files, LAMBDA f : IsPrefix(prefix, f)))
  ELSE m

(* All completions of prefix, in a new scratch tree. The look-up in an empty  *)
(* list works with an uninitialised comparison; 1 is the one that could harm. *)
FromWords(m, prefix) ==
  FromList(m, prefix, rblookup(m, "completion", "GTEQ", prefix, 1))

Gather(prefix) == FromFiles(FromWords(my_rbdestroy(memory, "scratch"), prefix), prefix)

Return(m, list) ==
  LET read == rbreadlist(m, list)
  IN  memory' = m /\ scratch_list' = read.nextp /\ returned' = read.key

ReturnFirst(m) == Return(m, rbopenlist(m, "scratch"))

(* my_completion_function(prefix, 0) up to the call of the filter, if any. *)
FirstCompletion(prefix) ==
  /\ stage = "running"
  /\ \/ /\ filter /\ stage' = "filtering" /\ memory' = Gather(prefix)
        /\ scratch_list' = RBNULL /\ returned' = NULL
     \/ ~filter /\ ReturnFirst(Gather(prefix)) /\ UNCHANGED stage
  /\ UNCHANGED <<filter, opt_f>>

(* ... and from there: a new scratch tree with the words of its answer. *)
FilteredCompletion(answer) ==
  /\ stage = "filtering" /\ stage' = "running"
  /\ ReturnFirst(FoldLeft(LAMBDA mm, word : rbsearch(mm, "scratch", word),
                          my_rbdestroy(memory, "scratch"),
                          SelectSeq(answer, LAMBDA word : word # <<>>)))
  /\ UNCHANGED <<filter, opt_f>>

(* The filter has changed the prefix or the line, which it may not. *)
FilterMesses ==
  /\ stage = "filtering" /\ stage' = "failed"
  /\ UNCHANGED <<filter, opt_f, memory, scratch_list, returned>>

(* my_completion_function(prefix, n) for n > 0. *)
NextCompletion ==
  /\ stage = "running" /\ Return(memory, scratch_list)
  /\ UNCHANGED <<stage, filter, opt_f>>

Next ==
  \/ OptionI \/ Start \/ FilterMesses \/ NextCompletion
  \/ \E line \in Lines : OptionF(line) \/ FeedLine(line) \/ RemoveWords(line)
  \/ \E prefix \in Typed : FirstCompletion(prefix)
  \/ \E answer \in Answers : FilteredCompletion(answer)

Spec == Init /\ [][Next]_vars

-----------------------------------------------------------------------------
Words == UNION {ToSet(s) : s \in Lines \cup Answers \cup {Files}} \ {<<>>}

(* The properties 1 to 4 that completion.c claims for its trees               *)
(* (completion.c:390-400), which keep them balanced: a red node has black     *)
(* children, and all paths have the same number of black nodes; besides, keys *)
(* are in order, "up" is the inverse of "left" and "right", and the sentinel  *)
(* is a black leaf, after any sequence of insertions and deletions. No node   *)
(* that has been freed is in a tree, none is lost, and none in two trees.     *)
RedBlackTrees ==
  /\ NodesOf(memory, "completion") \cap NodesOf(memory, "scratch") = {}
  /\ UNION {NodesOf(memory, t) : t \in Trees} = Nodes \ Free(memory)
  /\ scratch_list \in NodesOf(memory, "scratch") \cup {RBNULL}
  /\ memory.colour[RBNULL] = "BLACK"
  /\ \A s \in Sides : memory.child[s][RBNULL] = RBNULL
  /\ \A t \in Trees :
       LET keys == ReadList(memory, rbopenlist(memory, t))
       IN  /\ memory.colour[memory.root[t]] = "BLACK"
           /\ memory.root[t] # RBNULL => memory.up[memory.root[t]] = RBNULL
           /\ count_black(memory, memory.root[t]) # -1
           /\ \A x \in NodesOf(memory, t), s \in Sides :
                LET y == memory.child[s][x]
                IN  y # RBNULL => /\ memory.up[y] = x
                                  /\ ~(memory.colour[x] = "RED" /\ memory.colour[y] = "RED")
           /\ \A i \in 1 .. Len(keys) - 1 : compare(memory, keys[i], keys[i + 1]) < 0

(* What a lookup should return. *)
Sought(m, t, mode, key) ==
  LET before == {k \in KeysOf(m, t) : compare(m, k, key) < 0}
      after  == {k \in KeysOf(m, t) : compare(m, k, key) > 0}
      same   == KeysOf(m, t) \ (before \cup after)
      Pick(set, sign) == IF set = {} THEN NULL
                         ELSE CHOOSE k \in set : \A l \in set : sign * compare(m, k, l) <= 0
  IN  CASE mode = "FIRST" -> Pick(KeysOf(m, t), 1)
        [] mode = "LAST"  -> Pick(KeysOf(m, t), -1)
        [] mode = "EQUAL" -> Pick(same, 1)
        [] mode = "GTEQ"  -> Pick(same \cup after, 1)
        [] mode = "LTEQ"  -> Pick(same \cup before, -1)
        [] mode = "GREAT" -> Pick(after, 1)
        [] mode = "LESS"  -> Pick(before, -1)
        [] mode = "NEXT"  -> IF same = {} THEN NULL ELSE Pick(after, 1)
        [] mode = "PREV"  -> IF same = {} THEN NULL ELSE Pick(before, -1)

(* rblookup() finds what its mode says (completion.c:139-147) in the list of    *)
(* words. This is not so by itself in an empty tree: there the comparison that *)
(* decides is not initialised, and the search may go on to the sentinel's "up", *)
(* which the last deletion, perhaps in the other tree, has left there. It must  *)
(* be RBNULL. (Full trees are only looked at while there is no scratch tree.)   *)
LookupsFindTheirKeys ==
  \A mode \in LookupModes, key \in Words, junk \in {-1, 1} :
    memory.root["completion"] = RBNULL \/ memory.root["scratch"] = RBNULL =>
      rblookup(memory, "completion", mode, key, junk)
        = Sought(memory, "completion", mode, key)

precedes(case_sensitive, v, w) == compare([case_sensitive |-> case_sensitive], v, w) < 0
begins(case_sensitive, v, w) == is_prefix([case_sensitive |-> case_sensitive], v, w)

WordListSpec ==
  INSTANCE WordList WITH
    Nothing <- NULL, Precedes <- precedes, Begins <- begins,
    case_sensitive <- memory.case_sensitive,
    words   <- KeysOf(memory, "completion"),
    offers  <- ReadList(memory, scratch_list),
    offered <- returned

(* With -i, two completions of prefix, one of them at least a file name, differ *)
(* in case only, and so are the same for the scratch tree.                    *)
FileNameIsLost(prefix) ==
  LET names == WordListSpec!FoundFiles(prefix, Files)
  IN  complete_filenames /\ \E f \in names, other \in names \cup WordListSpec!FoundWords(prefix) :
                                f # other /\ WordListSpec!Same(f, other)

(* What the user is offered then: of those that differ in case only, the word,  *)
(* or, if there is none, the first file.                                      *)
OfferWithoutIt ==
  \E prefix \in Typed :
    LET names == SelectSeq(Files, LAMBDA f : begins(TRUE, prefix, f))
    IN  /\ FileNameIsLost(prefix)
        /\ WordListSpec!Offer(WordListSpec!Sorted(
             WordListSpec!WithAll(WordListSpec!FoundWords(prefix), names)))

(* With whatever words, files and answers of a filter, my_completion_function() *)
(* returns what WordList promises, but for the file name that is lost with -i: *)
(* trees, lists, copies and the order in which things are freed and grown again *)
(* do not show.                                                               *)
ImplementsWordList ==
  WordListSpec!Init /\ [][WordListSpec!Next \/ OfferWithoutIt]_(WordListSpec!vars)

=============================================================================
