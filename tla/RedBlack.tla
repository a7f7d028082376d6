------------------------------ MODULE RedBlack ------------------------------
(***************************************************************************)
(* The red-black trees of src/src/completion.c, as operators on the memory  *)
(* they live in: nodes with pointers to two children and back to the        *)
(* parent. Node 0 is RBNULL, the sentinel that stands for every missing     *)
(* child, parent and root; there is one for all trees, and a deletion       *)
(* writes its "up" pointer, which keeps its value until the next one.       *)
(*                                                                         *)
(* The C code has each balancing step twice, "exchanging left for right";   *)
(* here the side is a parameter.                                           *)
(***************************************************************************)
EXTENDS Integers, Sequences, FiniteSets, FiniteSetsExt

CONSTANTS
  Trees,     \* the trees
  MaxNodes,  \* bound: number of nodes that can be allocated at a time
  NULL       \* the NULL pointer: no key

RBNULL == 0
Nodes == 1 .. MaxNodes
Sides == {"left", "right"}

Other(side) == IF side = "left" THEN "right" ELSE "left"

(* Memory before the first rbinit(); a node without a key is not allocated. *)
InitialMemory(case_sensitive) ==
  [child  |-> [s \in Sides |-> [n \in {RBNULL} \cup Nodes |-> RBNULL]],
   up     |-> [n \in {RBNULL} \cup Nodes |-> RBNULL],
   colour |-> [n \in {RBNULL} \cup Nodes |-> "BLACK"],
   key    |-> [n \in {RBNULL} \cup Nodes |-> NULL],
   root   |-> [t \in Trees |-> RBNULL],
   case_sensitive |-> case_sensitive]

(* Characters are numbers: 1..9 are upper case, and 11..19 the same letters *)
(* in lower case, so that upper case sorts first, as in ASCII.             *)
tolower(c) == IF c < 10 THEN c + 10 ELSE c

Folded(m, word) ==
  IF m.case_sensitive THEN word ELSE [i \in DOMAIN word |-> tolower(word[i])]

(* compare(): -1, 0 or 1. (The code looks at no more than BUFFSIZE characters.) *)
compare(m, string1, string2) ==
  LET s == Folded(m, string1)
      t == Folded(m, string2)
      differ == {i \in DOMAIN s \cap DOMAIN t : s[i] # t[i]}
      Sign(a, b) == IF a < b THEN -1 ELSE IF a > b THEN 1 ELSE 0
  IN  IF differ # {} THEN Sign(s[Min(differ)], t[Min(differ)])
      ELSE Sign(Len(s), Len(t))

-----------------------------------------------------------------------------
(* Node x goes down to one side, its child on the other side takes its place. *)
rotate(m, t, x, side) ==
  LET y == m.child[Other(side)][x]
      b == m.child[side][y]
      parent == m.up[x]
      of == IF x = m.child["left"][parent] THEN "left" ELSE "right"
      m1 == [m EXCEPT !.child[Other(side)][x] = b,
                      !.up[b] = IF b # RBNULL THEN x ELSE @]
      m2 == IF parent = RBNULL THEN [m1 EXCEPT !.root[t] = y]
            ELSE [m1 EXCEPT !.child[of][parent] = y]
  IN  [m2 EXCEPT !.child[side][y] = x, !.up[y] = parent, !.up[x] = y]

RECURSIVE FurthestTo(_, _, _)
FurthestTo(m, x, side) ==
  IF m.child[side][x] = RBNULL THEN x ELSE FurthestTo(m, m.child[side][x], side)

RECURSIVE ClimbFrom(_, _, _)
ClimbFrom(m, x, side) ==
  LET y == m.up[x]
  IN  IF y # RBNULL /\ x = m.child[side][y] THEN ClimbFrom(m, y, side) ELSE y

(* The next node on one side: _successor() (right) and _predecessor() (left). *)
neighbour(m, x, side) ==
  IF m.child[side][x] # RBNULL
  THEN FurthestTo(m, m.child[side][x], Other(side))
  ELSE ClimbFrom(m, x, side)

successor(m, x) == neighbour(m, x, "right")
predecessor(m, x) == neighbour(m, x, "left")

-----------------------------------------------------------------------------
(* The walk down the tree: the node that was found, or RBNULL, the last node *)
(* that was visited, and the result of its comparison. cmp is not initialised: *)
(* in an empty tree it is whatever was in its place before (junk).            *)
RECURSIVE Descend(_, _, _, _, _)
Descend(m, key, x, y, cmp) ==
  IF x = RBNULL THEN [x |-> RBNULL, y |-> y, cmp |-> cmp]
  ELSE LET c == compare(m, key, m.key[x])
       IN  IF c = 0 THEN [x |-> x, y |-> x, cmp |-> 0]
           ELSE Descend(m, key, m.child[IF c < 0 THEN "left" ELSE "right"][x], x, c)

RootBlack(m, t) == [m EXCEPT !.colour[m.root[t]] = "BLACK"]

(* A red node x has been added: repaint and rotate on the way up. *)
RECURSIVE InsertFix(_, _, _)
InsertFix(m, t, x) ==
  LET parent  == m.up[x]
      grandpa == m.up[parent]
      side  == IF parent = m.child["left"][grandpa] THEN "left" ELSE "right"
      uncle == m.child[Other(side)][grandpa]
      inner == x = m.child[Other(side)][parent]
      m1 == IF inner THEN rotate(m, t, parent, side) ELSE m
      x1 == IF inner THEN parent ELSE x
      m2 == [m1 EXCEPT !.colour[m1.up[x1]] = "BLACK", !.colour[grandpa] = "RED"]
  IN  IF x = m.root[t] \/ m.colour[parent] # "RED" THEN m
      ELSE IF m.colour[uncle] = "RED"
      THEN InsertFix([m EXCEPT !.colour[parent] = "BLACK", !.colour[uncle] = "BLACK",
                               !.colour[grandpa] = "RED"], t, grandpa)
      ELSE InsertFix(rotate(m2, t, grandpa, Other(side)), t, x1)

Free(m) == {n \in Nodes : m.key[n] = NULL}

(* _traverse() with insert = 1, for a key that is not there. *)
Insert(m, t, key) ==
  LET y == Descend(m, key, m.root[t], RBNULL, 0).y
      z == Min(Free(m))
      m1 == [m EXCEPT !.key[z] = key, !.up[z] = y, !.colour[z] = "RED",
                      !.child["left"][z] = RBNULL, !.child["right"][z] = RBNULL]
      m2 == IF y = RBNULL THEN [m1 EXCEPT !.root[t] = z]
            ELSE [m1 EXCEPT !.child[IF compare(m, key, m.key[y]) < 0
                                    THEN "left" ELSE "right"][y] = z]
  IN  RootBlack(InsertFix(m2, t, z), t)

(* A key that is there already is left alone: the caller's copy is not stored. *)
rbsearch(m, t, key) ==
  IF Descend(m, key, m.root[t], RBNULL, 0).x # RBNULL THEN m ELSE Insert(m, t, key)

-----------------------------------------------------------------------------
(* Restore the balance at x, which has one black node too few above it: the   *)
(* other child w of its parent has become black, ...                        *)
BrotherBlack(m, t, parent, side) ==
  LET w == m.child[Other(side)][parent]
  IN  IF m.colour[w] = "BLACK" THEN m
      ELSE rotate([m EXCEPT !.colour[w] = "BLACK", !.colour[parent] = "RED"], t, parent, side)

(* ... then the child of w that is further from x red, ... *)
NephewRed(m, t, w, side) ==
  IF m.colour[m.child[Other(side)][w]] = "RED" THEN m
  ELSE rotate([m EXCEPT !.colour[m.child[side][w]] = "BLACK", !.colour[w] = "RED"],
              t, w, Other(side))

(* ... and w takes the parent's place. *)
BrotherUp(m, t, parent, side) ==
  LET w == m.child[Other(side)][parent]
  IN  rotate([m EXCEPT !.colour[w] = m.colour[parent], !.colour[parent] = "BLACK",
                       !.colour[m.child[Other(side)][w]] = "BLACK"], t, parent, side)

RECURSIVE delete_fix(_, _, _)
delete_fix(m, t, x) ==
  LET parent == m.up[x]
      side == IF x = m.child["left"][parent] THEN "left" ELSE "right"
      m1 == BrotherBlack(m, t, parent, side)
      w  == m1.child[Other(side)][parent]
  IN  IF x = m.root[t] \/ m.colour[x] # "BLACK" THEN [m EXCEPT !.colour[x] = "BLACK"]
      ELSE IF \A s \in Sides : m1.colour[m1.child[s][w]] = "BLACK"
      THEN delete_fix([m1 EXCEPT !.colour[w] = "RED"], t, m1.up[x])
      ELSE RootBlack(BrotherUp(NephewRed(m1, t, w, side), t, parent, side), t)

(* Unlink node y and give it back. What is in a freed node is of no account: *)
(* it is cleared.                                                          *)
Discard(m, y) ==
  [m EXCEPT !.key[y] = NULL, !.up[y] = RBNULL, !.colour[y] = "BLACK",
            !.child["left"][y] = RBNULL, !.child["right"][y] = RBNULL]

\* Mutant: only a real child is given its new parent.
SentinelKeepsItsParent(m, t, z) ==
  LET y == IF \E s \in Sides : m.child[s][z] = RBNULL THEN z ELSE successor(m, z)
      x == IF m.child["left"][y] # RBNULL THEN m.child["left"][y] ELSE m.child["right"][y]
      parent == m.up[y]
      of == IF y = m.child["left"][parent] THEN "left" ELSE "right"
      m1 == IF x = RBNULL THEN m ELSE [m EXCEPT !.up[x] = parent]
      m2 == IF parent = RBNULL THEN [m1 EXCEPT !.root[t] = x]
            ELSE [m1 EXCEPT !.child[of][parent] = x]
      m3 == [m2 EXCEPT !.key[z] = m.key[y]]
      m4 == IF m.colour[y] = "BLACK" THEN delete_fix(m3, t, x) ELSE m3
  IN  Discard(m4, y)

(* _delete(): the node that goes is z, or its successor y, whose key then *)
(* moves to z. The sentinel is given a parent, too, if it takes y's place. *)
delete(m, t, z) ==
  LET y == IF \E s \in Sides : m.child[s][z] = RBNULL THEN z ELSE successor(m, z)
      x == IF m.child["left"][y] # RBNULL THEN m.child["left"][y] ELSE m.child["right"][y]
      parent == m.up[y]
      of == IF y = m.child["left"][parent] THEN "left" ELSE "right"
      m1 == [m EXCEPT !.up[x] = parent]
      m2 == IF parent = RBNULL THEN [m1 EXCEPT !.root[t] = x]
            ELSE [m1 EXCEPT !.child[of][parent] = x]
      m3 == [m2 EXCEPT !.key[z] = m.key[y]]
      m4 == IF m.colour[y] = "BLACK" THEN delete_fix(m3, t, x) ELSE m3
  IN  Discard(m4, y)

rbdelete(m, t, key) ==
  LET z == Descend(m, key, m.root[t], RBNULL, 0).x
  IN  IF z = RBNULL THEN m ELSE delete(m, t, z)

-----------------------------------------------------------------------------
LookupModes == {"EQUAL", "GTEQ", "LTEQ", "LESS", "GREAT", "NEXT", "PREV", "FIRST", "LAST"}

(* _lookup(), and rblookup(): the key (NULL for RBNULL). *)
LookupNode(m, t, mode, key, junk) ==
  LET d == Descend(m, key, m.root[t], RBNULL, junk)
      found == d.x # RBNULL
      End(side) == IF m.root[t] = RBNULL THEN RBNULL ELSE FurthestTo(m, m.root[t], side)
  IN  CASE mode = "FIRST" -> End("left")
        [] mode = "LAST"  -> End("right")
        [] found /\ mode \in {"EQUAL", "GTEQ", "LTEQ"} -> d.x
        [] ~found /\ mode \in {"EQUAL", "NEXT", "PREV"} -> RBNULL
        [] ~found /\ mode \in {"GTEQ", "GREAT"} ->
             IF d.cmp > 0 THEN successor(m, d.y) ELSE d.y
        [] ~found /\ mode \in {"LTEQ", "LESS"} ->
             IF d.cmp < 0 THEN predecessor(m, d.y) ELSE d.y
        [] found /\ mode \in {"NEXT", "GREAT"} -> successor(m, d.x)
        [] found /\ mode \in {"PREV", "LESS"} -> predecessor(m, d.x)

rblookup(m, t, mode, key, junk) == m.key[LookupNode(m, t, mode, key, junk)]

(* rbopenlist(): the list is a pointer to the node whose key comes next. *)
rbopenlist(m, t) ==
  IF m.root[t] = RBNULL THEN RBNULL ELSE FurthestTo(m, m.root[t], "left")

(* rbreadlist() reads the key of nextp and moves nextp on: NULL at the end. *)
rbreadlist(m, nextp) ==
  IF nextp = RBNULL THEN [key |-> NULL, nextp |-> RBNULL]
  ELSE [key |-> m.key[nextp], nextp |-> successor(m, nextp)]

(* All that rbreadlist() will return. *)
RECURSIVE ReadList(_, _)
ReadList(m, nextp) ==
  IF nextp = RBNULL THEN <<>>
  ELSE <<m.key[nextp]>> \o ReadList(m, successor(m, nextp))

-----------------------------------------------------------------------------
RECURSIVE NodesBelow(_, _)
NodesBelow(m, x) ==
  IF x = RBNULL THEN {}
  ELSE {x} \cup NodesBelow(m, m.child["left"][x]) \cup NodesBelow(m, m.child["right"][x])

NodesOf(m, t) == NodesBelow(m, m.root[t])
KeysOf(m, t) == {m.key[n] : n \in NodesOf(m, t)}

(* The nodes are freed, the sentinel is left as it is. *)
rbdestroy(m, t) ==
  [FoldSet(LAMBDA n, mm : Discard(mm, n), m, NodesOf(m, t)) EXCEPT !.root[t] = RBNULL]

(* The keys are deleted one by one, always the next one in the order. *)
RECURSIVE DeleteFrom(_, _, _)
DeleteFrom(m, t, key) ==
  IF key = NULL THEN m
  ELSE LET m1 == rbdelete(m, t, key)
       IN  DeleteFrom(m1, t, rblookup(m1, t, "GREAT", key, 1))

\* Mutant: only the first key is deleted.
OnlyFirstDeleted(m, t) == rbdestroy(rbdelete(m, t, rblookup(m, t, "FIRST", NULL, 1)), t)

my_rbdestroy(m, t) ==
  rbdestroy(DeleteFrom(m, t, rblookup(m, t, "FIRST", NULL, 1)), t)

(* The number of black nodes on every path down from x, or -1. *)
RECURSIVE count_black(_, _)
count_black(m, x) ==
  IF x = RBNULL THEN 1
  ELSE LET l == count_black(m, m.child["left"][x])
           r == count_black(m, m.child["right"][x])
       IN  IF l = -1 \/ l # r THEN -1
           ELSE IF m.colour[x] = "BLACK" THEN l + 1 ELSE l
=============================================================================
