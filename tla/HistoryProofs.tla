--------------------------- MODULE HistoryProofs ---------------------------
(***************************************************************************)
(* Proofs about History: the history is what the user has entered of late,   *)
(* and operate-and-get-next fetches the next line, for all rows of text,     *)
(* lines, history files and sizes of the history.                            *)
(***************************************************************************)
EXTENDS History, SequenceTheorems, WellFoundedInduction, TLAPS

-----------------------------------------------------------------------------
(* Induction on numbers, as the existence of a least one. *)
LEMMA NotLess ==
  ASSUME NEW x \in Nat, NEW y \in Nat, <<y, x>> \notin OpToRel(<, Nat)
  PROVE  x <= y
BY DEF OpToRel

(* Every set of numbers that is not empty has a least one. *)
LEMMA LeastElement ==
  ASSUME NEW T \in SUBSET Nat, T # {}
  PROVE  \E m \in T : \A k \in T : m <= k
<1> DEFINE R == OpToRel(<, Nat)
<1>1. IsWellFoundedOn(R, Nat)
  BY NatLessThanWellFounded
<1> HIDE DEF R
<1>2. \E x \in T : \A y \in T : ~ (<<y, x>> \in R)
  BY <1>1, WFMin
<1>3. \E x \in T : \A y \in T : <<y, x>> \notin OpToRel(<, Nat)
  BY <1>2 DEF R
<1> QED BY <1>3, NotLess

(* A set that holds 0, and n whenever it holds n - 1, as far as N. *)
LEMMA Induction ==
  ASSUME NEW N \in Nat, NEW G, 0 \in G, \A n \in 1..N : n - 1 \in G => n \in G
  PROVE  0..N \subseteq G
<1> DEFINE T == {n \in 0..N : n \notin G}
<1> SUFFICES ASSUME T # {} PROVE FALSE
  OBVIOUS
<1>1. T \in SUBSET Nat
  OBVIOUS
<1>2. PICK m \in T : \A k \in T : m <= k
  BY <1>1, LeastElement
<1>3. m # 0 /\ m \in 1..N /\ m - 1 \in 0..N /\ m - 1 \notin T
  BY <1>2
<1>4. m - 1 \in G
  BY <1>3
<1> QED BY <1>2, <1>3, <1>4

(* What a loop computes: g[n] after n steps. *)
Loop(g, base, step, N) == g[0] = base /\ \A n \in 1..N : g[n] = step[n][g[n - 1]]

(* Every loop with a bound has such a g. *)
LEMMA LoopsEnd ==
  ASSUME NEW S, NEW base \in S, NEW N \in Nat, NEW step \in [1..N -> [S -> S]]
  PROVE  \E g \in [0..N -> S] : Loop(g, base, step, N)
<1> DEFINE Good(n) == \E g \in [0..n -> S] : Loop(g, base, step, n)
           G == {n \in Nat : Good(n)}
<1>1. Good(0)
  <2>1. PICK g \in [0..0 -> S] : g = [k \in 0..0 |-> base]
    OBVIOUS
  <2>2. Loop(g, base, step, 0)
    BY <2>1 DEF Loop
  <2> QED BY <2>2
<1>2. ASSUME NEW n \in 1..N, Good(n - 1) PROVE Good(n)
  <2>1. PICK g \in [0..n - 1 -> S] : Loop(g, base, step, n - 1)
    BY <1>2
  <2>2. PICK next \in S : next = step[n][g[n - 1]]
    OBVIOUS
  <2>3. PICK h \in [0..n -> S] : \A k \in 0..n : h[k] = IF k = n THEN next ELSE g[k]
    <3>1. [k \in 0..n |-> IF k = n THEN next ELSE g[k]] \in [0..n -> S]
      OBVIOUS
    <3> QED BY <3>1
  <2>4. h[0] = base
    BY <2>1, <2>3 DEF Loop
  <2>5. ASSUME NEW m \in 1..n PROVE h[m] = step[m][h[m - 1]]
    <3>1. h[m - 1] = g[m - 1]
      BY <2>3
    <3>2. CASE m = n
      BY <2>2, <2>3, <3>1, <3>2
    <3>3. CASE m # n
      BY <2>1, <2>3, <3>1, <3>3 DEF Loop
    <3> QED BY <3>2, <3>3
  <2> QED BY <2>4, <2>5 DEF Loop
<1> HIDE DEF Good
<1>3. 0 \in G /\ \A n \in 1..N : n - 1 \in G => n \in G
  BY <1>1, <1>2
<1> HIDE DEF G
<1>4. 0..N \subseteq G
  BY <1>3, Induction
<1>5. Good(N)
  BY <1>4 DEF G
<1> QED BY <1>5 DEF Good

-----------------------------------------------------------------------------
(* Sequences of rows *)

(* The last m rows: how many, and which. *)
LEMMA LastOnes ==
  ASSUME NEW s \in Seq(Rows), NEW m \in Nat
  PROVE  /\ LastRows(m, s) \in Seq(Rows) /\ Len(s) \in Nat
         /\ Len(LastRows(m, s)) = IF Len(s) > m THEN m ELSE Len(s)
         /\ \A i \in 1..Len(LastRows(m, s)) :
              LastRows(m, s)[i] = s[Len(s) - Len(LastRows(m, s)) + i]
         /\ Len(s) <= m => LastRows(m, s) = s
<1>1. Len(s) \in Nat /\ \A i \in 1..Len(s) : s[i] \in Rows
  BY LenProperties, ElementOfSeq
<1>2. PICK a \in 1..Len(s) + 1 : a = IF Len(s) > m THEN Len(s) - m + 1 ELSE 1
  <2>1. (IF Len(s) > m THEN Len(s) - m + 1 ELSE 1) \in 1..Len(s) + 1
    BY <1>1
  <2> QED BY <2>1
<1>3. LastRows(m, s) = SubSeq(s, a, Len(s))
  BY <1>2 DEF LastRows
<1>4. /\ SubSeq(s, a, Len(s)) \in Seq(Rows)
      /\ Len(SubSeq(s, a, Len(s))) = IF a <= Len(s) THEN Len(s) - a + 1 ELSE 0
      /\ \A i \in 1..Len(s) - a + 1 : SubSeq(s, a, Len(s))[i] = s[a + i - 1]
  BY <1>1, SubSeqProperties
<1>5. Len(SubSeq(s, a, Len(s))) = Len(s) - a + 1
  BY <1>1, <1>4
<1>6. ASSUME NEW i \in 1..Len(s) - a + 1
      PROVE  SubSeq(s, a, Len(s))[i] = s[Len(s) - (Len(s) - a + 1) + i]
  <2>1. Len(s) - (Len(s) - a + 1) + i = a + i - 1
    BY <1>1
  <2> QED BY <1>4, <2>1
<1>7. Len(s) <= m => SubSeq(s, a, Len(s)) = s
  <2>1. SubSeq(s, 1, Len(s)) = s
    BY SubSeqFull
  <2>2. Len(s) <= m => a = 1
    BY <1>1, <1>2
  <2> QED BY <2>1, <2>2
<1>8. Len(s) - a + 1 = IF Len(s) > m THEN m ELSE Len(s)
  BY <1>1, <1>2
<1> QED BY <1>1, <1>3, <1>4, <1>5, <1>6, <1>7, <1>8

(* Sequences with the same rows are equal. *)
LEMMA SameRows ==
  ASSUME NEW s \in Seq(Rows), NEW t \in Seq(Rows), Len(s) = Len(t),
         \A i \in 1..Len(s) : s[i] = t[i]
  PROVE  s = t
BY SeqEqual

(* A row more at the end, and one less at the front. *)
IsAppended(t, s, row) ==
  /\ t = Append(s, row) /\ Len(t) = Len(s) + 1
  /\ \A j \in 1..Len(s) : t[j] = s[j]
  /\ t[Len(s) + 1] = row

IsTail(t, s) ==
  /\ t = Tail(s) /\ Len(t) = Len(s) - 1
  /\ \A j \in 1..Len(t) : t[j] = s[j + 1]

LEMMA Appended ==
  ASSUME NEW s \in Seq(Rows), NEW row \in Rows
  PROVE  \E t \in Seq(Rows) : IsAppended(t, s, row)
<1>1. PICK t \in Seq(Rows) : t = Append(s, row)
  BY AppendProperties
<1>2. IsAppended(t, s, row)
  BY <1>1, AppendProperties DEF IsAppended
<1> QED BY <1>2

LEMMA Shifted ==
  ASSUME NEW s \in Seq(Rows), s # <<>>
  PROVE  \E t \in Seq(Rows) : IsTail(t, s)
<1>1. PICK t \in Seq(Rows) : t = Tail(s)
  BY HeadTailProperties
<1>2. IsTail(t, s)
  BY <1>1, HeadTailProperties DEF IsTail
<1> QED BY <1>2

(* Keeping the last rows of what is kept is no different. *)
LEMMA LastOfLast ==
  ASSUME NEW s \in Seq(Rows), NEW m \in Nat, NEW row \in Rows
  PROVE  LastRows(m, Append(LastRows(m, s), row)) = LastRows(m, Append(s, row))
<1>1. PICK t \in Seq(Rows) : /\ t = LastRows(m, s) /\ Len(s) \in Nat
                             /\ Len(t) = IF Len(s) > m THEN m ELSE Len(s)
                             /\ \A i \in 1..Len(t) : t[i] = s[Len(s) - Len(t) + i]
  BY LastOnes
<1>2. PICK u \in Seq(Rows) : IsAppended(u, t, row)
  BY Appended
<1>3. PICK v \in Seq(Rows) : IsAppended(v, s, row)
  BY Appended
<1>4. PICK a \in Seq(Rows) : /\ a = LastRows(m, u)
                             /\ Len(a) = IF Len(u) > m THEN m ELSE Len(u)
                             /\ \A i \in 1..Len(a) : a[i] = u[Len(u) - Len(a) + i]
  BY LastOnes
<1>5. PICK b \in Seq(Rows) : /\ b = LastRows(m, v)
                             /\ Len(b) = IF Len(v) > m THEN m ELSE Len(v)
                             /\ \A i \in 1..Len(b) : b[i] = v[Len(v) - Len(b) + i]
  BY LastOnes
<1>6. /\ Len(s) \in Nat /\ Len(t) \in Nat /\ Len(t) <= Len(s)
      /\ Len(u) = Len(t) + 1 /\ Len(v) = Len(s) + 1
      /\ Len(a) \in Nat /\ Len(a) <= Len(u) /\ Len(b) = Len(a)
  BY <1>1, <1>2, <1>3, <1>4, <1>5 DEF IsAppended
<1>7. ASSUME NEW i \in 1..Len(u) PROVE u[i] = v[Len(v) - Len(u) + i]
  <2>1. CASE i = Len(t) + 1
    <3>1. Len(v) - Len(u) + i = Len(s) + 1
      BY <1>6, <2>1
    <3> QED BY <1>2, <1>3, <2>1, <3>1 DEF IsAppended
  <2>2. CASE i # Len(t) + 1
    <3>1. PICK j \in 1..Len(s) : j = Len(s) - Len(t) + i /\ i \in 1..Len(t)
      <4>1. Len(s) - Len(t) + i \in 1..Len(s) /\ i \in 1..Len(t)
        BY <1>6, <2>2
      <4> QED BY <4>1
    <3>2. Len(v) - Len(u) + i = j
      BY <1>6, <3>1
    <3>3. u[i] = t[i] /\ t[i] = s[j] /\ v[j] = s[j]
      BY <1>1, <1>2, <1>3, <3>1 DEF IsAppended
    <3> QED BY <3>2, <3>3
  <2> QED BY <2>1, <2>2
<1>8. ASSUME NEW i \in 1..Len(a) PROVE a[i] = b[i]
  <2>1. PICK j \in 1..Len(u) : j = Len(u) - Len(a) + i
    <3>1. Len(u) - Len(a) + i \in 1..Len(u)
      BY <1>6
    <3> QED BY <3>1
  <2>2. Len(v) - Len(u) + j = Len(v) - Len(b) + i
    BY <1>6, <2>1
  <2>3. a[i] = u[j] /\ b[i] = v[Len(v) - Len(b) + i]
    BY <1>4, <1>5, <1>6, <2>1
  <2> QED BY <1>7, <2>1, <2>2, <2>3
<1>9. a = b
  BY <1>6, <1>8, SameRows
<1> QED BY <1>1, <1>2, <1>3, <1>4, <1>5, <1>9 DEF IsAppended

-----------------------------------------------------------------------------
(* readline's history *)

Lists == {h \in [list : Seq(Rows), base : Int] : Len(h.list) <= histsize}

(* One row more, and not more than the last histsize of them. *)
LEMMA Adding ==
  ASSUME histsize \in Nat, NEW h \in Lists, NEW row \in Rows
  PROVE  /\ add_history(h, row) \in Lists
         /\ add_history(h, row).list = LastRows(histsize, Append(h.list, row))
<1>1. PICK s \in Seq(Rows), b \in Int : h = [list |-> s, base |-> b] /\ Len(s) <= histsize
  BY DEF Lists
<1>2. Len(s) \in Nat
  BY LenProperties
<1>3. PICK t \in Seq(Rows) : IsAppended(t, s, row)
  BY Appended
<1>4. CASE Len(s) < histsize
  <2>1. add_history(h, row) = [list |-> t, base |-> b]
    BY <1>1, <1>3, <1>4 DEF add_history, IsAppended
  <2>2. LastRows(histsize, t) = t
    <3>1. PICK m \in Nat : m = histsize /\ Len(t) <= m
      BY <1>2, <1>3, <1>4 DEF IsAppended
    <3>2. LastRows(m, t) = t
      BY <3>1, LastOnes
    <3> QED BY <3>1, <3>2
  <2>3. [list |-> t, base |-> b] \in Lists
    BY <1>2, <1>3, <1>4 DEF Lists, IsAppended
  <2>4. LastRows(histsize, Append(h.list, row)) = t
    BY <1>1, <1>3, <2>2 DEF IsAppended
  <2> QED BY <2>1, <2>3, <2>4
<1>5. CASE histsize = 0
  <2>1. add_history(h, row) = h
    BY <1>1, <1>2, <1>5 DEF add_history
  <2>2. s = <<>>
    BY <1>1, <1>2, <1>5, EmptySeq
  <2>3. Len(LastRows(histsize, t)) = 0 /\ LastRows(histsize, t) \in Seq(Rows)
    <3>1. PICK m \in Nat : m = histsize /\ m = 0 /\ Len(t) > m
      BY <1>2, <1>3, <1>5 DEF IsAppended
    <3>2. Len(LastRows(m, t)) = 0 /\ LastRows(m, t) \in Seq(Rows)
      BY <3>1, LastOnes
    <3> QED BY <3>1, <3>2
  <2>4. LastRows(histsize, t) = <<>>
    BY <2>3, EmptySeq
  <2> QED BY <1>1, <1>3, <2>1, <2>2, <2>4 DEF IsAppended
<1>6. CASE Len(s) = histsize /\ histsize # 0
  <2>1. PICK u \in Seq(Rows) : IsTail(u, s)
    <3>1. s # <<>>
      BY <1>6, EmptySeq
    <3> QED BY <3>1, Shifted
  <2>2. PICK v \in Seq(Rows) : IsAppended(v, u, row)
    BY Appended
  <2>3. add_history(h, row) = [list |-> v, base |-> b + 1]
    BY <1>1, <1>2, <1>6, <2>1, <2>2 DEF add_history, IsAppended, IsTail
  <2>4. PICK w \in Seq(Rows) : /\ w = LastRows(histsize, t) /\ Len(w) = histsize
                               /\ \A i \in 1..Len(w) : w[i] = t[Len(t) - Len(w) + i]
    <3>1. Len(t) > histsize
      BY <1>2, <1>3, <1>6 DEF IsAppended
    <3> QED BY <3>1, LastOnes
  <2>5. Len(v) = Len(w) /\ Len(v) = Len(s) /\ Len(u) + 1 = Len(s) /\ Len(t) - Len(w) = 1
    BY <1>2, <1>3, <1>6, <2>1, <2>2, <2>4 DEF IsAppended, IsTail
  <2>6. ASSUME NEW i \in 1..Len(v) PROVE v[i] = w[i]
    <3>1. w[i] = t[i + 1]
      <4>1. i \in 1..Len(w) /\ Len(t) - Len(w) + i = i + 1
        BY <1>2, <1>3, <2>5 DEF IsAppended
      <4> QED BY <2>4, <4>1
    <3>2. CASE i = Len(s)
      BY <1>3, <2>2, <2>5, <3>1, <3>2 DEF IsAppended
    <3>3. CASE i # Len(s)
      <4>1. i \in 1..Len(u) /\ i + 1 \in 1..Len(s)
        BY <1>2, <2>5, <3>3
      <4> QED BY <1>3, <2>1, <2>2, <3>1, <4>1 DEF IsAppended, IsTail
    <3> QED BY <3>2, <3>3
  <2>7. v = w
    BY <2>5, <2>6, SameRows
  <2> QED BY <1>1, <1>2, <1>3, <1>6, <2>3, <2>4, <2>5, <2>7 DEF Lists, IsAppended
<1> QED BY <1>1, <1>2, <1>4, <1>5, <1>6

(* The empty history. *)
LEMMA Empty ==
  ASSUME histsize \in Nat
  PROVE  EmptyHistory \in Lists /\ EmptyHistory.list = <<>> /\ Len(<<>>) = 0 /\ <<>> \in Seq(Rows)
BY EmptySeq DEF EmptyHistory, Lists

(* Reading rows into an empty history keeps the last ones. *)
LEMMA Reading ==
  ASSUME histsize \in Nat, NEW rows \in Seq(Rows)
  PROVE  HistoryOf(rows) \in Lists /\ HistoryOf(rows).list = LastRows(histsize, rows)
<1> DEFINE read[n \in 0..Len(rows)] ==
             IF n = 0 THEN EmptyHistory ELSE add_history(read[n - 1], rows[n])
<1>1. PICK N \in Nat : N = Len(rows)
  BY LenProperties
<1>2. \A n \in 1..N : rows[n] \in Rows
  BY <1>1, ElementOfSeq
<1>3. PICK step \in [1..N -> [Lists -> Lists]] :
        \A n \in 1..N, h \in Lists : step[n][h] = add_history(h, rows[n])
  <2>1. [n \in 1..N |-> [h \in Lists |-> add_history(h, rows[n])]] \in [1..N -> [Lists -> Lists]]
    BY <1>2, Adding
  <2> QED BY <2>1
<1>4. PICK g \in [0..N -> Lists] : Loop(g, EmptyHistory, step, N)
  BY Empty, LoopsEnd
<1>5. g[0] = EmptyHistory /\ \A n \in 1..N : g[n] = add_history(g[n - 1], rows[n])
  <2>1. \A n \in 1..N : n - 1 \in 0..N
    OBVIOUS
  <2> QED BY <1>3, <1>4, <2>1 DEF Loop
<1>6. g = [n \in 0..N |-> IF n = 0 THEN EmptyHistory ELSE add_history(g[n - 1], rows[n])]
  BY <1>5
<1>7. read = [n \in 0..N |-> IF n = 0 THEN EmptyHistory ELSE add_history(read[n - 1], rows[n])]
  BY <1>1, <1>6
<1>8. HistoryOf(rows) = read[N]
  BY <1>1 DEF HistoryOf
<1> HIDE DEF read
<1> DEFINE G == {n \in Nat : n <= N => /\ read[n] = g[n]
                                       /\ g[n].list = LastRows(histsize, SubSeq(rows, 1, n))}
<1>9. 0 \in G
  <2>1. SubSeq(rows, 1, 0) = <<>>
    BY SubSeqEmpty
  <2>2. LastRows(histsize, <<>>) = <<>>
    BY Empty, LastOnes
  <2>3. read[0] = EmptyHistory /\ g[0] = EmptyHistory
    BY <1>5, <1>7
  <2>4. EmptyHistory.list = <<>>
    BY Empty
  <2> QED BY <2>1, <2>2, <2>3, <2>4
<1>10. \A n \in 1..N : n - 1 \in G => n \in G
  <2> SUFFICES ASSUME NEW n \in 1..N, n - 1 \in G
               PROVE  read[n] = g[n] /\ g[n].list = LastRows(histsize, SubSeq(rows, 1, n))
    OBVIOUS
  <2>1. PICK s \in Seq(Rows) : s = SubSeq(rows, 1, n - 1)
    <3>1. PICK k \in Int : k = n - 1 /\ \A i \in 1..k : rows[i] \in Rows
      BY <1>2
    <3>2. SubSeq(rows, 1, k) \in Seq(Rows)
      BY <3>1, SubSeqProperties
    <3> QED BY <3>1, <3>2
  <2>2. SubSeq(rows, 1, n) = Append(s, rows[n])
    BY <1>1, <2>1, SubSeqRecursiveSecond
  <2>3. read[n - 1] = g[n - 1] /\ g[n - 1].list = LastRows(histsize, s) /\ g[n - 1] \in Lists
    BY <2>1
  <2>4. read[n] = add_history(read[n - 1], rows[n])
    BY <1>7
  <2>5. add_history(g[n - 1], rows[n]).list = LastRows(histsize, Append(g[n - 1].list, rows[n]))
    BY <1>2, <2>3, Adding
  <2>6. LastRows(histsize, Append(LastRows(histsize, s), rows[n]))
          = LastRows(histsize, Append(s, rows[n]))
    BY <1>2, LastOfLast
  <2> QED BY <1>5, <2>2, <2>3, <2>4, <2>5, <2>6
<1> HIDE DEF G
<1>11. 0..N \subseteq G
  BY <1>9, <1>10, Induction
<1>12. read[N] = g[N] /\ g[N].list = LastRows(histsize, SubSeq(rows, 1, N)) /\ g[N] \in Lists
  BY <1>11 DEF G
<1>13. SubSeq(rows, 1, N) = rows
  BY <1>1, SubSeqFull
<1> QED BY <1>8, <1>12, <1>13

-----------------------------------------------------------------------------
(* Rows without one *)

(* f[i] is what is left of the rows from the i-th on. *)
Sifts(f, rows, row) ==
  /\ f[Len(rows) + 1] = <<>>
  /\ \A i \in 1..Len(rows) : f[i] = IF rows[i] = row THEN f[i + 1] ELSE <<rows[i]>> \o f[i + 1]

(* There is such an f. *)
LEMMA SiftingIsPossible ==
  ASSUME NEW rows \in Seq(Rows), NEW row
  PROVE  \E f \in [1..Len(rows) + 1 -> Seq(Rows)] : Sifts(f, rows, row)
<1>1. PICK N \in Nat : N = Len(rows)
  BY LenProperties
<1>2. \A i \in 1..N : rows[i] \in Rows
  BY <1>1, ElementOfSeq
<1> DEFINE Step(t, i) == IF rows[i] = row THEN t ELSE <<rows[i]>> \o t
<1>3. ASSUME NEW t \in Seq(Rows), NEW i \in 1..N PROVE Step(t, i) \in Seq(Rows)
  <2>1. <<rows[i]>> \in Seq(Rows)
    BY <1>2
  <2> QED BY <2>1, ConcatProperties
<1> HIDE DEF Step
<1>4. PICK step \in [1..N -> [Seq(Rows) -> Seq(Rows)]] :
        \A n \in 1..N, t \in Seq(Rows) : step[n][t] = Step(t, N + 1 - n)
  <2>1. \A n \in 1..N : N + 1 - n \in 1..N
    OBVIOUS
  <2>2. [n \in 1..N |-> [t \in Seq(Rows) |-> Step(t, N + 1 - n)]]
          \in [1..N -> [Seq(Rows) -> Seq(Rows)]]
    BY <1>3, <2>1
  <2> QED BY <2>2
<1>5. PICK g \in [0..N -> Seq(Rows)] : Loop(g, <<>>, step, N)
  <2>1. <<>> \in Seq(Rows)
    OBVIOUS
  <2> QED BY <2>1, LoopsEnd
<1>6. PICK f \in [1..N + 1 -> Seq(Rows)] : \A i \in 1..N + 1 : f[i] = g[N + 1 - i]
  <2>1. \A i \in 1..N + 1 : N + 1 - i \in 0..N
    OBVIOUS
  <2>2. [i \in 1..N + 1 |-> g[N + 1 - i]] \in [1..N + 1 -> Seq(Rows)]
    BY <2>1
  <2> QED BY <2>2
<1>7. f[N + 1] = <<>>
  BY <1>5, <1>6 DEF Loop
<1>8. ASSUME NEW i \in 1..N PROVE f[i] = Step(f[i + 1], i)
  <2>1. PICK n \in 1..N : n = N + 1 - i /\ N + 1 - n = i /\ n - 1 = N + 1 - (i + 1)
    <3>1. N + 1 - i \in 1..N /\ N + 1 - (N + 1 - i) = i /\ (N + 1 - i) - 1 = N + 1 - (i + 1)
      OBVIOUS
    <3> QED BY <3>1
  <2>2. f[i] = g[n] /\ f[i + 1] = g[n - 1] /\ g[n - 1] \in Seq(Rows)
    BY <1>6, <2>1
  <2>3. g[n] = step[n][g[n - 1]]
    BY <1>5 DEF Loop
  <2> QED BY <1>4, <2>1, <2>2, <2>3
<1> QED BY <1>1, <1>7, <1>8 DEF Step, Sifts

(* Without() computes it. *)
LEMMA Sifting ==
  ASSUME NEW rows \in Seq(Rows), NEW row
  PROVE  \E f \in [1..Len(rows) + 1 -> Seq(Rows)] :
           Sifts(f, rows, row) /\ Without(rows, row) = f[1]
<1> DEFINE rest[i \in 1..Len(rows) + 1] ==
             IF i > Len(rows) THEN <<>>
             ELSE IF rows[i] = row THEN rest[i + 1] ELSE <<rows[i]>> \o rest[i + 1]
<1>1. PICK N \in Nat : N = Len(rows)
  BY LenProperties
<1>2. PICK f \in [1..N + 1 -> Seq(Rows)] : Sifts(f, rows, row)
  BY <1>1, SiftingIsPossible
<1>3. f = [i \in 1..N + 1 |->
             IF i > N THEN <<>>
             ELSE IF rows[i] = row THEN f[i + 1] ELSE <<rows[i]>> \o f[i + 1]]
  <2>1. ASSUME NEW i \in 1..N + 1
        PROVE  f[i] = IF i > N THEN <<>>
                      ELSE IF rows[i] = row THEN f[i + 1] ELSE <<rows[i]>> \o f[i + 1]
    <3>1. CASE i = N + 1
      <4>1. i > N
        BY <3>1
      <4>2. f[i] = <<>>
        BY <1>1, <1>2, <3>1 DEF Sifts
      <4> QED BY <4>1, <4>2
    <3>2. CASE i \in 1..N
      <4>1. ~(i > N)
        BY <3>2
      <4>2. f[i] = IF rows[i] = row THEN f[i + 1] ELSE <<rows[i]>> \o f[i + 1]
        BY <1>1, <1>2, <3>2 DEF Sifts
      <4> QED BY <4>1, <4>2
    <3>3. i = N + 1 \/ i \in 1..N
      OBVIOUS
    <3> QED BY <3>1, <3>2, <3>3
  <2> QED BY <2>1
<1>4. rest = [i \in 1..N + 1 |->
             IF i > N THEN <<>>
             ELSE IF rows[i] = row THEN rest[i + 1] ELSE <<rows[i]>> \o rest[i + 1]]
  BY <1>1, <1>3
<1>5. Without(rows, row) = rest[1]
  BY DEF Without
<1> HIDE DEF rest
<1> DEFINE G == {n \in Nat : n <= N => rest[N + 1 - n] = f[N + 1 - n]}
<1>6. 0 \in G
  <2>1. N + 1 - 0 = N + 1 /\ N + 1 \in 1..N + 1 /\ N + 1 > N
    OBVIOUS
  <2>2. rest[N + 1] = <<>>
    BY <1>4, <2>1
  <2> QED BY <1>1, <1>2, <2>1, <2>2 DEF Sifts
<1>7. \A n \in 1..N : n - 1 \in G => n \in G
  <2> SUFFICES ASSUME NEW n \in 1..N, rest[N + 1 - (n - 1)] = f[N + 1 - (n - 1)]
               PROVE  rest[N + 1 - n] = f[N + 1 - n]
    OBVIOUS
  <2>1. PICK i \in 1..N : i = N + 1 - n /\ i + 1 = N + 1 - (n - 1) /\ ~(i > N)
    <3>1. /\ N + 1 - n \in 1..N /\ (N + 1 - n) + 1 = N + 1 - (n - 1) /\ ~(N + 1 - n > N)
      OBVIOUS
    <3> QED BY <3>1
  <2>2. rest[i] = IF rows[i] = row THEN rest[i + 1] ELSE <<rows[i]>> \o rest[i + 1]
    <3>1. i \in 1..N + 1
      OBVIOUS
    <3>2. rest[i] = IF i > N THEN <<>>
                    ELSE IF rows[i] = row THEN rest[i + 1] ELSE <<rows[i]>> \o rest[i + 1]
      BY <1>4, <3>1, Zenon
    <3> QED BY <2>1, <3>2, Zenon
  <2>3. f[i] = IF rows[i] = row THEN f[i + 1] ELSE <<rows[i]>> \o f[i + 1]
    BY <1>1, <1>2 DEF Sifts
  <2> QED BY <2>1, <2>2, <2>3
<1> HIDE DEF G
<1>8. 0..N \subseteq G
  BY <1>6, <1>7, Induction
<1>9. rest[1] = f[1]
  <2>1. N \in G /\ N + 1 - N = 1
    BY <1>8
  <2> QED BY <2>1 DEF G
<1> QED BY <1>1, <1>2, <1>5, <1>9

(* What is left has no more rows, and all of them if none is row. *)
LEMMA SiftedRows ==
  ASSUME NEW rows \in Seq(Rows), NEW row
  PROVE  /\ Without(rows, row) \in Seq(Rows)
         /\ Len(Without(rows, row)) \in Nat /\ Len(Without(rows, row)) <= Len(rows)
         /\ (\A i \in 1..Len(rows) : rows[i] # row) => Without(rows, row) = rows
<1>1. PICK N \in Nat : N = Len(rows)
  BY LenProperties
<1>2. PICK f \in [1..N + 1 -> Seq(Rows)] : Sifts(f, rows, row) /\ Without(rows, row) = f[1]
  BY <1>1, Sifting
<1>3. \A i \in 1..N : rows[i] \in Rows
  BY <1>1, ElementOfSeq
<1> DEFINE G == {n \in Nat : n <= N =>
                   /\ Len(f[N + 1 - n]) <= n
                   /\ (\A i \in 1..N : rows[i] # row) => f[N + 1 - n] = SubSeq(rows, N + 1 - n, N)}
<1>4. 0 \in G
  <2>1. N + 1 - 0 = N + 1 /\ f[N + 1] = <<>>
    BY <1>1, <1>2 DEF Sifts
  <2>2. SubSeq(rows, N + 1, N) = <<>>
    BY SubSeqEmpty
  <2>3. Len(<<>>) = 0
    BY EmptySeq
  <2> QED BY <2>1, <2>2, <2>3
<1>5. \A n \in 1..N : n - 1 \in G => n \in G
  <2> SUFFICES ASSUME NEW n \in 1..N, n - 1 \in G
               PROVE  n \in G
    OBVIOUS
  <2>1. PICK i \in 1..N : i = N + 1 - n /\ i + 1 = N + 1 - (n - 1)
    <3>1. /\ N + 1 - n \in 1..N /\ (N + 1 - n) + 1 = N + 1 - (n - 1)
      OBVIOUS
    <3> QED BY <3>1
  <2>2. f[i] = IF rows[i] = row THEN f[i + 1] ELSE <<rows[i]>> \o f[i + 1]
    BY <1>1, <1>2 DEF Sifts
  <2>3. /\ f[i] \in Seq(Rows) /\ f[i + 1] \in Seq(Rows) /\ <<rows[i]>> \in Seq(Rows)
        /\ Len(<<rows[i]>>) = 1
    BY <1>3
  <2>4. Len(<<rows[i]>> \o f[i + 1]) = 1 + Len(f[i + 1]) /\ Len(f[i + 1]) \in Nat
    BY <2>3, ConcatProperties, LenProperties
  <2>5. n - 1 \in Nat /\ n - 1 <= N
    OBVIOUS
  <2>6. Len(f[i + 1]) <= n - 1
    BY <2>1, <2>5
  <2>7. Len(f[i]) <= n
    BY <2>2, <2>4, <2>6
  <2>8. ASSUME \A k \in 1..N : rows[k] # row PROVE f[i] = SubSeq(rows, i, N)
    <3>1. f[i + 1] = SubSeq(rows, i + 1, N)
      BY <2>1, <2>5, <2>8
    <3>2. SubSeq(rows, i, N) = <<rows[i]>> \o SubSeq(rows, i + 1, N)
      BY <1>1, SubSeqRecursiveFirst
    <3> QED BY <2>2, <2>8, <3>1, <3>2
  <2> QED BY <2>1, <2>7, <2>8
<1> HIDE DEF G
<1>6. 0..N \subseteq G
  BY <1>4, <1>5, Induction
<1>7. Len(f[1]) <= N /\ ((\A i \in 1..N : rows[i] # row) => f[1] = SubSeq(rows, 1, N))
  <2>1. N \in G /\ N + 1 - N = 1
    BY <1>6
  <2> QED BY <2>1 DEF G
<1>8. f[1] \in Seq(Rows)
  OBVIOUS
<1>9. SubSeq(rows, 1, N) = rows
  BY <1>1, SubSeqFull
<1> QED BY <1>1, <1>2, <1>7, <1>8, <1>9, LenProperties

-----------------------------------------------------------------------------
(* Adding a row *)

(* A sequence without its i-th row. *)
LEMMA RemovedAt ==
  ASSUME NEW s \in Seq(Rows), NEW i \in 1..Len(s)
  PROVE  /\ RemoveAt(s, i) = SubSeq(s, 1, i - 1) \o SubSeq(s, i + 1, Len(s))
         /\ SubSeq(s, 1, i - 1) \in Seq(Rows) /\ SubSeq(s, i + 1, Len(s)) \in Seq(Rows)
         /\ RemoveAt(s, i) \in Seq(Rows) /\ Len(RemoveAt(s, i)) = Len(s) - 1
<1>1. Len(s) \in Nat /\ \A j \in 1..Len(s) : s[j] \in Rows
  BY LenProperties, ElementOfSeq
<1>2. PICK a \in Int : a = i - 1 /\ \A j \in 1..a : s[j] \in Rows
  BY <1>1
<1>3. PICK b \in Int : b = i + 1 /\ \A j \in b..Len(s) : s[j] \in Rows
  BY <1>1
<1>4. /\ SubSeq(s, 1, a) \in Seq(Rows)
      /\ Len(SubSeq(s, 1, a)) = IF 1 <= a THEN a - 1 + 1 ELSE 0
  BY <1>2, SubSeqProperties
<1>5. /\ SubSeq(s, b, Len(s)) \in Seq(Rows)
      /\ Len(SubSeq(s, b, Len(s))) = IF b <= Len(s) THEN Len(s) - b + 1 ELSE 0
  BY <1>1, <1>3, SubSeqProperties
<1>6. /\ SubSeq(s, 1, a) \o SubSeq(s, b, Len(s)) \in Seq(Rows)
      /\ Len(SubSeq(s, 1, a) \o SubSeq(s, b, Len(s))) =
           Len(SubSeq(s, 1, a)) + Len(SubSeq(s, b, Len(s)))
  BY <1>4, <1>5, ConcatProperties
<1>7. Len(SubSeq(s, 1, a)) + Len(SubSeq(s, b, Len(s))) = Len(s) - 1
  <2>1. Len(SubSeq(s, 1, a)) = i - 1
    BY <1>1, <1>2, <1>4
  <2>2. Len(SubSeq(s, b, Len(s))) = Len(s) - i
    BY <1>1, <1>3, <1>5
  <2> QED BY <1>1, <2>1, <2>2
<1>8. RemoveAt(s, i) = SubSeq(s, 1, a) \o SubSeq(s, b, Len(s))
  BY <1>2, <1>3 DEF RemoveAt
<1> QED BY <1>2, <1>3, <1>4, <1>5, <1>6, <1>7, <1>8

(* A sequence with one element between a and e. *)
HasParts(t, a, b, e) ==
  /\ Len(t) = Len(a) + 1 + Len(e) /\ Len(a) \in Nat /\ Len(e) \in Nat
  /\ t[Len(a) + 1] = b[1]
  /\ SubSeq(t, 1, Len(a)) = a /\ SubSeq(t, Len(a) + 2, Len(t)) = e

(* The parts of a sequence that is put together from a, one row, and e. *)
LEMMA ThreeParts ==
  ASSUME NEW a \in Seq(Rows), NEW b \in Seq(Rows), NEW e \in Seq(Rows)
  PROVE  /\ (a \o b) \o e = a \o (b \o e)
         /\ Len(b) = 1 => HasParts(a \o (b \o e), a, b, e)
<1>1. (a \o b) \o e = a \o (b \o e)
  BY ConcatAssociative
<1>2. Len(a) \in Nat /\ Len(b) \in Nat /\ Len(e) \in Nat
  BY LenProperties
<1>3. PICK be \in Seq(Rows) : be = b \o e
  BY ConcatProperties
<1>4. PICK ab \in Seq(Rows) : ab = a \o b
  BY ConcatProperties
<1>5. PICK t : t = a \o (b \o e) /\ t = a \o be /\ t = ab \o e
  BY <1>1, <1>3, <1>4
<1>6. ASSUME Len(b) = 1
      PROVE  /\ Len(t) = Len(a) + 1 + Len(e) /\ t[Len(a) + 1] = b[1]
             /\ SubSeq(t, 1, Len(a)) = a /\ SubSeq(t, Len(a) + 2, Len(t)) = e
  <2>1. Len(be) = 1 + Len(e) /\ be[1] = b[1]
    <3>1. /\ Len(b \o e) = Len(b) + Len(e)
          /\ \A i \in 1..Len(b) + Len(e) :
               (b \o e)[i] = IF i <= Len(b) THEN b[i] ELSE e[i - Len(b)]
      BY ConcatProperties
    <3>2. 1 \in 1..Len(b) + Len(e) /\ 1 <= Len(b)
      BY <1>2, <1>6
    <3> QED BY <1>3, <1>6, <3>1, <3>2
  <2>2. Len(ab) = Len(a) + 1
    <3>1. Len(a \o b) = Len(a) + Len(b)
      BY ConcatProperties
    <3> QED BY <1>4, <1>6, <3>1
  <2>3. Len(t) = Len(a) + 1 + Len(e) /\ t[Len(a) + 1] = b[1]
    <3>1. /\ Len(a \o be) = Len(a) + Len(be)
          /\ \A i \in 1..Len(a) + Len(be) :
               (a \o be)[i] = IF i <= Len(a) THEN a[i] ELSE be[i - Len(a)]
      BY ConcatProperties
    <3>2. /\ Len(a) + 1 \in 1..Len(a) + Len(be) /\ ~(Len(a) + 1 <= Len(a))
          /\ (Len(a) + 1) - Len(a) = 1
      BY <1>2, <2>1
    <3>3. (a \o be)[Len(a) + 1] = be[1]
      BY <3>1, <3>2
    <3> QED BY <1>2, <1>5, <2>1, <3>1, <3>3
  <2>4. SubSeq(a \o be, 1, Len(a)) = a
    BY SubSeqOfConcat1, SubSeqFull, <1>2
  <2>5. SubSeq(ab \o e, Len(ab) + 1, Len(ab \o e)) = e
    BY SubSeqOfConcat2, SubSeqFull, <1>2
  <2>6. Len(ab) + 1 = Len(a) + 2
    BY <1>2, <2>2
  <2> QED BY <1>5, <2>3, <2>4, <2>5, <2>6
<1> QED BY <1>1, <1>2, <1>5, <1>6 DEF HasParts

(* The logical offset, by which my_add_history() looks an entry up, and the   *)
(* physical one, by which it removes it, are of the same entry.               *)
LEMMA Comparison ==
  ASSUME histsize \in Nat, NEW h \in Lists, NEW row \in Rows, NEW here \in Int
  PROVE  /\ RemoveIfEqual(h, row, here) \in Lists
         /\ RemoveIfEqual(h, row, here).base = h.base
         /\ here \in 0..Len(h.list) - 1 =>
              RemoveIfEqual(h, row, here).list =
                IF h.list[here + 1] = row THEN RemoveAt(h.list, here + 1) ELSE h.list
<1>1. PICK s \in Seq(Rows), b \in Int : h = [list |-> s, base |-> b] /\ Len(s) <= histsize
  BY DEF Lists
<1>2. Len(s) \in Nat
  BY LenProperties
<1>3. history_get(h, h.base + here) = IF here \in 0..Len(s) - 1 THEN s[here + 1] ELSE NULL
  <2>1. (h.base + here) - h.base = here
    BY <1>1
  <2> QED BY <1>1, <2>1 DEF history_get, PhysicalOffset
<1>4. CASE here \in 0..Len(s) - 1 /\ s[here + 1] = row
  <2>1. PICK i \in 1..Len(s) : i = here + 1
    BY <1>2, <1>4
  <2>2. RemoveAt(s, i) \in Seq(Rows) /\ Len(RemoveAt(s, i)) = Len(s) - 1
    BY RemovedAt
  <2>3. RemoveIfEqual(h, row, here) = [list |-> RemoveAt(s, i), base |-> b]
    BY <1>1, <1>3, <1>4, <2>1 DEF RemoveIfEqual, remove_history
  <2>4. [list |-> RemoveAt(s, i), base |-> b] \in Lists
    BY <1>1, <1>2, <2>2 DEF Lists
  <2> QED BY <1>1, <1>4, <2>1, <2>3, <2>4
<1>5. CASE ~(here \in 0..Len(s) - 1 /\ s[here + 1] = row)
  <2>1. history_get(h, h.base + here) # row
    BY <1>3, <1>5, RowsAssumption
  <2>2. RemoveIfEqual(h, row, here) = h
    BY <2>1 DEF RemoveIfEqual
  <2> QED BY <1>1, <1>5, <2>2
<1> QED BY <1>4, <1>5

(* How many entries a new row is compared with.                              *)
Lookback(length) ==
  CASE history_duplicate_avoidance_policy = KEEP_ALL_DOUBLES -> 0
    [] history_duplicate_avoidance_policy = ELIMINATE_SUCCESIVE_DOUBLES ->
         IF length > 0 THEN 1 ELSE 0
    [] OTHER -> length

(* AddRow() compares L entries, from the end to the beginning. *)
LEMMA Comparisons ==
  ASSUME histsize \in Nat, NEW h \in Lists, NEW row \in Rows,
         NEW L \in Nat, L = Lookback(Len(h.list))
  PROVE  \E g \in [0..L -> Lists] :
           /\ g[0] = h
           /\ \A c \in 1..L : g[c] = RemoveIfEqual(g[c - 1], row, Len(h.list) - c)
           /\ AddRow(h, row) = add_history(g[L], row)
<1> DEFINE compared[count \in 0..L] ==
             IF count = 0 THEN h ELSE RemoveIfEqual(compared[count - 1], row, Len(h.list) - count)
<1>1. Len(h.list) \in Nat
  BY LenProperties DEF Lists
<1>2. PICK step \in [1..L -> [Lists -> Lists]] :
        \A c \in 1..L, k \in Lists : step[c][k] = RemoveIfEqual(k, row, Len(h.list) - c)
  <2>1. \A c \in 1..L : Len(h.list) - c \in Int
    BY <1>1
  <2>2. [c \in 1..L |-> [k \in Lists |-> RemoveIfEqual(k, row, Len(h.list) - c)]]
          \in [1..L -> [Lists -> Lists]]
    BY <2>1, Comparison
  <2> QED BY <2>2
<1>3. PICK g \in [0..L -> Lists] : Loop(g, h, step, L)
  BY LoopsEnd
<1>4. g[0] = h /\ \A c \in 1..L : g[c] = RemoveIfEqual(g[c - 1], row, Len(h.list) - c)
  <2>1. \A c \in 1..L : c - 1 \in 0..L
    OBVIOUS
  <2> QED BY <1>2, <1>3, <2>1 DEF Loop
<1>5. g = [c \in 0..L |-> IF c = 0 THEN h ELSE RemoveIfEqual(g[c - 1], row, Len(h.list) - c)]
  BY <1>4
<1>6. compared = [c \in 0..L |->
                    IF c = 0 THEN h ELSE RemoveIfEqual(compared[c - 1], row, Len(h.list) - c)]
  BY <1>5
<1>7. AddRow(h, row) = add_history(compared[L], row)
  BY DEF AddRow, Lookback, history_length
<1> HIDE DEF compared
<1> DEFINE G == {n \in Nat : n <= L => compared[n] = g[n]}
<1>8. 0 \in G
  BY <1>4, <1>6
<1>9. \A n \in 1..L : n - 1 \in G => n \in G
  <2> SUFFICES ASSUME NEW n \in 1..L, compared[n - 1] = g[n - 1] PROVE compared[n] = g[n]
    OBVIOUS
  <2>1. compared[n] = RemoveIfEqual(compared[n - 1], row, Len(h.list) - n)
    BY <1>6
  <2> QED BY <1>4, <2>1
<1> HIDE DEF G
<1>10. 0..L \subseteq G
  BY <1>8, <1>9, Induction
<1>11. compared[L] = g[L]
  BY <1>10 DEF G
<1> QED BY <1>4, <1>7, <1>11

(* The loop of my_add_history() removes what the option -D says.              *)
LEMMA AddingARow ==
  ASSUME histsize \in Nat, history_duplicate_avoidance_policy \in 0..2,
         NEW h \in Lists, NEW row \in Rows
  PROVE  AddRow(h, row) \in Lists /\ AddRow(h, row).list = Remember(h.list, row)
<1>1. PICK s \in Seq(Rows) : s = h.list /\ Len(s) \in Nat
  BY LenProperties DEF Lists
<1> DEFINE rest == CASE history_duplicate_avoidance_policy = KEEP_ALL_DOUBLES -> s
                     [] history_duplicate_avoidance_policy = ELIMINATE_SUCCESIVE_DOUBLES ->
                          IF s # <<>> /\ Last(s) = row THEN Front(s) ELSE s
                     [] OTHER -> Without(s, row)
<1>2. Remember(s, row) = LastRows(histsize, Append(rest, row))
  BY DEF Remember
<1>3. PICK L \in Nat : L = Lookback(Len(s))
  BY <1>1 DEF Lookback
<1>4. PICK g \in [0..L -> Lists] :
        /\ g[0] = h
        /\ \A c \in 1..L : g[c] = RemoveIfEqual(g[c - 1], row, Len(s) - c)
        /\ AddRow(h, row) = add_history(g[L], row)
  BY <1>1, <1>3, Comparisons
<1>5. g[L].list = rest
  <2>1. CASE history_duplicate_avoidance_policy = KEEP_ALL_DOUBLES
    <3>1. L = 0 /\ rest = s
      BY <1>3, <2>1 DEF Lookback
    <3> QED BY <1>1, <1>4, <3>1
  <2>2. CASE history_duplicate_avoidance_policy = ELIMINATE_SUCCESIVE_DOUBLES
    <3>1. rest = IF s # <<>> /\ Last(s) = row THEN Front(s) ELSE s
      BY <2>2 DEF KEEP_ALL_DOUBLES, ELIMINATE_SUCCESIVE_DOUBLES
    <3>2. L = IF Len(s) > 0 THEN 1 ELSE 0
      BY <1>3, <2>2 DEF Lookback, KEEP_ALL_DOUBLES, ELIMINATE_SUCCESIVE_DOUBLES
    <3>3. CASE Len(s) = 0
      BY <1>1, <1>4, <3>1, <3>2, <3>3, EmptySeq
    <3>4. CASE Len(s) > 0
      <4>1. g[1] = RemoveIfEqual(h, row, Len(s) - 1) /\ L = 1
        BY <1>4, <3>2, <3>4
      <4>2. PICK here \in Int : /\ here = Len(s) - 1 /\ here \in 0..Len(s) - 1
                                /\ here + 1 = Len(s) /\ here + 1 \in 1..Len(s)
        <5>1. /\ Len(s) - 1 \in Int /\ Len(s) - 1 \in 0..Len(s) - 1
              /\ (Len(s) - 1) + 1 = Len(s) /\ Len(s) \in 1..Len(s)
          BY <1>1, <3>4
        <5> QED BY <5>1
      <4>3. RemoveIfEqual(h, row, here).list =
              IF s[here + 1] = row THEN RemoveAt(s, here + 1) ELSE s
        <5>1. /\ here \in 0..Len(h.list) - 1 =>
                   RemoveIfEqual(h, row, here).list =
                     IF h.list[here + 1] = row THEN RemoveAt(h.list, here + 1) ELSE h.list
          BY Comparison
        <5> QED BY <1>1, <4>2, <5>1
      <4>4. s # <<>> /\ Last(s) = s[here + 1]
        BY <3>4, <4>2, EmptySeq DEF Last
      <4>5. RemoveAt(s, Len(s)) = Front(s)
        <5>1. PICK t \in Seq(Rows) : t = SubSeq(s, 1, Len(s) - 1)
          BY <4>2, RemovedAt
        <5>2. SubSeq(s, Len(s) + 1, Len(s)) = <<>>
          BY <1>1, SubSeqEmpty
        <5>3. RemoveAt(s, Len(s)) = t \o <<>>
          BY <5>1, <5>2 DEF RemoveAt
        <5>4. t \o <<>> = t
          BY ConcatEmptySeq
        <5> QED BY <5>1, <5>3, <5>4 DEF Front
      <4> QED BY <3>1, <4>1, <4>2, <4>3, <4>4, <4>5
    <3> QED BY <1>1, <3>3, <3>4
  <2>3. CASE history_duplicate_avoidance_policy = ELIMINATE_ALL_DOUBLES
    <3>1. rest = Without(s, row)
      BY <2>3 DEF KEEP_ALL_DOUBLES, ELIMINATE_SUCCESIVE_DOUBLES, ELIMINATE_ALL_DOUBLES
    <3>2. L = Len(s)
      BY <1>3, <2>3 DEF Lookback, KEEP_ALL_DOUBLES, ELIMINATE_SUCCESIVE_DOUBLES,
                        ELIMINATE_ALL_DOUBLES
    <3>3. PICK f \in [1..L + 1 -> Seq(Rows)] : Sifts(f, s, row) /\ Without(s, row) = f[1]
      BY <3>2, Sifting
    <3>4. \A i \in 1..L : s[i] \in Rows
      BY <3>2, ElementOfSeq
    <3> HIDE DEF rest
    <3> DEFINE G == {n \in Nat : n <= L => g[n].list = SubSeq(s, 1, L - n) \o f[L - n + 1]}
    <3>5. 0 \in G
      <4>1. SubSeq(s, 1, L) = s /\ f[L + 1] = <<>> /\ L - 0 = L
        BY <3>2, <3>3, SubSeqFull DEF Sifts
      <4>2. s \o <<>> = s
        BY ConcatEmptySeq
      <4> QED BY <1>1, <1>4, <4>1, <4>2
    <3>6. ASSUME NEW n \in 1..L, n - 1 \in G PROVE n \in G
      <4>1. PICK i \in 1..L : /\ i = L - n + 1 /\ L - (n - 1) = i /\ L - n = i - 1
                              /\ L - (n - 1) + 1 = i + 1
        <5>1. /\ L - n + 1 \in 1..L /\ L - (n - 1) = L - n + 1 /\ L - n = (L - n + 1) - 1
              /\ L - (n - 1) + 1 = (L - n + 1) + 1
          OBVIOUS
        <5> QED BY <5>1
      <4>2. PICK a \in Seq(Rows) : a = SubSeq(s, 1, i - 1)
        BY <3>2, RemovedAt
      <4>3. PICK k \in Lists : k = g[n - 1]
        OBVIOUS
      <4>4. SubSeq(s, 1, i) = a \o <<s[i]>>
        BY <3>2, <4>2, SubSeqRecursiveSecond
      <4>5. PICK b \in Seq(Rows), e \in Seq(Rows) : b = <<s[i]>> /\ e = f[i + 1] /\ Len(b) = 1
        <5>1. <<s[i]>> \in Seq(Rows) /\ f[i + 1] \in Seq(Rows) /\ Len(<<s[i]>>) = 1
          BY <3>4
        <5> QED BY <5>1
      <4>6. k.list = (a \o b) \o e
        <5>1. n - 1 \in Nat /\ n - 1 <= L
          OBVIOUS
        <5> QED BY <3>6, <4>1, <4>3, <4>4, <4>5, <5>1
      <4>7. k.list = a \o (b \o e)
        <5>1. (a \o b) \o e = a \o (b \o e)
          BY ThreeParts
        <5> QED BY <4>6, <5>1
      <4>8. f[i] = IF s[i] = row THEN e ELSE b \o e
        BY <3>2, <3>3, <4>5 DEF Sifts
      <4>9. g[n] = RemoveIfEqual(k, row, i - 1)
        BY <1>4, <3>2, <4>1, <4>3
      <4>10. PICK t \in Seq(Rows) : t = k.list /\ Len(t) \in Nat
        BY LenProperties DEF Lists
      <4>11. Len(a) = i - 1 /\ b[1] = s[i]
        <5>1. i - 1 \in 0..Len(s) /\ \A j \in 1..i - 1 : s[j] \in Rows
          BY <3>2, <3>4
        <5>2. Len(SubSeq(s, 1, i - 1)) = IF 1 <= i - 1 THEN i - 1 ELSE 0
          BY <5>1, SubSeqProperties
        <5> QED BY <4>2, <4>5, <5>2
      <4>12. /\ i \in 1..Len(t) /\ t[i] = s[i]
             /\ SubSeq(t, 1, i - 1) = a /\ SubSeq(t, i + 1, Len(t)) = e
        <5>1. t = a \o (b \o e)
          BY <4>7, <4>10
        <5>2. /\ Len(t) = Len(a) + 1 + Len(e) /\ Len(a) \in Nat /\ Len(e) \in Nat
              /\ t[Len(a) + 1] = b[1]
              /\ SubSeq(t, 1, Len(a)) = a /\ SubSeq(t, Len(a) + 2, Len(t)) = e
          <6>1. HasParts(a \o (b \o e), a, b, e)
            BY <4>5, ThreeParts
          <6>2. HasParts(t, a, b, e)
            BY <5>1, <6>1
          <6> QED BY <6>2 DEF HasParts
        <5>3. Len(a) + 1 = i /\ Len(a) + 2 = i + 1 /\ Len(a) = i - 1
          BY <4>11
        <5>4. i \in 1..Len(t)
          BY <5>2, <5>3
        <5>5. t[i] = s[i]
          BY <4>11, <5>2, <5>3
        <5>6. SubSeq(t, 1, i - 1) = a /\ SubSeq(t, i + 1, Len(t)) = e
          BY <5>2, <5>3
        <5> QED BY <5>4, <5>5, <5>6
      <4>13. g[n].list = IF s[i] = row THEN a \o e ELSE a \o (b \o e)
        <5>1. PICK here \in Int : here = i - 1 /\ here \in 0..Len(t) - 1 /\ here + 1 = i
          <6>1. i - 1 \in Int /\ i - 1 \in 0..Len(t) - 1 /\ (i - 1) + 1 = i
            BY <4>10, <4>12
          <6> QED BY <6>1
        <5>2. here \in 0..Len(k.list) - 1 =>
                RemoveIfEqual(k, row, here).list =
                  IF k.list[here + 1] = row THEN RemoveAt(k.list, here + 1) ELSE k.list
          BY Comparison
        <5>3. g[n].list = IF t[i] = row THEN RemoveAt(t, i) ELSE t
          BY <4>9, <4>10, <5>1, <5>2
        <5>4. RemoveAt(t, i) = a \o e
          BY <4>12 DEF RemoveAt
        <5> QED BY <4>7, <4>10, <4>12, <5>3, <5>4
      <4>14. g[n].list = a \o f[i]
        BY <4>8, <4>13
      <4>15. g[n].list = SubSeq(s, 1, L - n) \o f[L - n + 1]
        BY <4>1, <4>2, <4>14
      <4>16. n \in Nat
        OBVIOUS
      <4> QED BY <4>15, <4>16, Zenon
    <3> HIDE DEF G
    <3>7. 0..L \subseteq G
      BY <3>5, <3>6, Induction
    <3>8. g[L].list = SubSeq(s, 1, L - L) \o f[L - L + 1]
      <4>1. L \in G
        BY <3>7
      <4> QED BY <4>1 DEF G
    <3>9. L - L = 0 /\ L - L + 1 = 1 /\ SubSeq(s, 1, 0) = <<>> /\ 1 \in 1..L + 1
      BY SubSeqEmpty
    <3>10. <<>> \o f[1] = f[1]
      BY <3>9, ConcatEmptySeq
    <3> QED BY <3>1, <3>3, <3>8, <3>9, <3>10
  <2> QED BY <2>1, <2>2, <2>3 DEF KEEP_ALL_DOUBLES, ELIMINATE_SUCCESIVE_DOUBLES,
                                  ELIMINATE_ALL_DOUBLES
<1> HIDE DEF rest
<1>6. g[L] \in Lists
  OBVIOUS
<1>7. /\ add_history(g[L], row) \in Lists
      /\ add_history(g[L], row).list = LastRows(histsize, Append(g[L].list, row))
  BY <1>6, Adding
<1> QED BY <1>1, <1>2, <1>4, <1>5, <1>7

(* The row that has been added is kept with the last ones. *)
LEMMA AddingEndsWithRow ==
  ASSUME histsize \in Nat, NEW h \in Lists, NEW row \in Rows
  PROVE  \E rest \in Seq(Rows) : AddRow(h, row).list = LastRows(histsize, Append(rest, row))
<1>1. Len(h.list) \in Nat
  BY LenProperties DEF Lists
<1>2. PICK L \in Nat : L = Lookback(Len(h.list))
  BY <1>1 DEF Lookback
<1>3. PICK g \in [0..L -> Lists] : AddRow(h, row) = add_history(g[L], row)
  BY <1>2, Comparisons
<1>4. PICK k \in Lists : k = g[L]
  OBVIOUS
<1>5. add_history(k, row).list = LastRows(histsize, Append(k.list, row)) /\ k.list \in Seq(Rows)
  BY Adding DEF Lists
<1> QED BY <1>3, <1>4, <1>5

(* Something is kept of something. *)
LEMMA LastAreSome ==
  ASSUME NEW m \in Nat, NEW s \in Seq(Rows)
  PROVE  m # 0 /\ s # <<>> => LastRows(m, s) # <<>>
<1> SUFFICES ASSUME m # 0, s # <<>> PROVE LastRows(m, s) # <<>>
  OBVIOUS
<1>1. Len(s) \in Nat /\ Len(s) # 0
  BY LenProperties, EmptySeq
<1>2. Len(LastRows(m, s)) = IF Len(s) > m THEN m ELSE Len(s)
  BY LastOnes
<1>3. Len(LastRows(m, s)) # 0
  BY <1>1, <1>2
<1> QED BY <1>3, EmptySeq

(* A line is added row by row, and not more than the last rows are kept.      *)
LEMMA AddingALine ==
  ASSUME histsize \in Nat, history_duplicate_avoidance_policy \in 0..2,
         NEW h \in Lists, NEW line \in Seq(Rows)
  PROVE  /\ my_add_history(h, line) \in Lists
         /\ my_add_history(h, line).list = RememberAll(h.list, line)
         /\ histsize # 0 /\ h.list # <<>> => my_add_history(h, line).list # <<>>
         /\ Len(line) = 1 => my_add_history(h, line) = AddRow(h, filters_history(line[1]))
<1> DEFINE added[n \in 0..Len(line)] ==
             IF n = 0 THEN h ELSE AddRow(added[n - 1], filters_history(line[n]))
           remembered[n \in 0..Len(line)] ==
             IF n = 0 THEN h.list ELSE Remember(remembered[n - 1], filters_history(line[n]))
<1>1. PICK N \in Nat : N = Len(line)
  BY LenProperties
<1>2. \A n \in 1..N : filters_history(line[n]) \in Rows
  <2>1. \A n \in 1..N : line[n] \in Rows
    BY <1>1, ElementOfSeq
  <2> QED BY <2>1, RowsAssumption
<1>3. PICK step \in [1..N -> [Lists -> Lists]] :
        \A n \in 1..N, k \in Lists : step[n][k] = AddRow(k, filters_history(line[n]))
  <2>1. [n \in 1..N |-> [k \in Lists |-> AddRow(k, filters_history(line[n]))]]
          \in [1..N -> [Lists -> Lists]]
    BY <1>2, AddingARow
  <2> QED BY <2>1
<1>4. PICK g \in [0..N -> Lists] : Loop(g, h, step, N)
  BY LoopsEnd
<1>5. g[0] = h /\ \A n \in 1..N : g[n] = AddRow(g[n - 1], filters_history(line[n]))
  <2>1. \A n \in 1..N : n - 1 \in 0..N
    OBVIOUS
  <2> QED BY <1>3, <1>4, <2>1 DEF Loop
<1>6. \A n \in 1..N : /\ g[n - 1] \in Lists /\ g[n] \in Lists
                      /\ g[n].list = Remember(g[n - 1].list, filters_history(line[n]))
  <2> SUFFICES ASSUME NEW n \in 1..N
               PROVE  /\ g[n - 1] \in Lists /\ g[n] \in Lists
                      /\ g[n].list = Remember(g[n - 1].list, filters_history(line[n]))
    OBVIOUS
  <2>1. PICK k \in Lists : k = g[n - 1]
    OBVIOUS
  <2>2. AddRow(k, filters_history(line[n])).list = Remember(k.list, filters_history(line[n]))
    BY <1>2, AddingARow
  <2> QED BY <1>5, <2>1, <2>2
<1>7. g = [n \in 0..N |-> IF n = 0 THEN h ELSE AddRow(g[n - 1], filters_history(line[n]))]
  BY <1>5
<1>8. added = [n \in 0..N |->
                 IF n = 0 THEN h ELSE AddRow(added[n - 1], filters_history(line[n]))]
  BY <1>1, <1>7
<1>9. PICK r : r = [n \in 0..N |-> g[n].list]
  OBVIOUS
<1>10. r = [n \in 0..N |->
              IF n = 0 THEN h.list ELSE Remember(r[n - 1], filters_history(line[n]))]
  <2>1. ASSUME NEW n \in 0..N
        PROVE  r[n] = IF n = 0 THEN h.list ELSE Remember(r[n - 1], filters_history(line[n]))
    <3>1. CASE n = 0
      BY <1>5, <1>9, <3>1
    <3>2. CASE n # 0
      <4>1. n \in 1..N /\ n - 1 \in 0..N
        BY <3>2
      <4>2. r[n] = g[n].list /\ r[n - 1] = g[n - 1].list
        BY <1>9, <4>1
      <4> QED BY <1>6, <3>2, <4>1, <4>2
    <3> QED BY <3>1, <3>2
  <2> QED BY <1>9, <2>1
<1>11. remembered = [n \in 0..N |->
              IF n = 0 THEN h.list ELSE Remember(remembered[n - 1], filters_history(line[n]))]
  BY <1>1, <1>10
<1>12. my_add_history(h, line) = added[N] /\ RememberAll(h.list, line) = remembered[N]
  BY <1>1 DEF my_add_history, RememberAll
<1> HIDE DEF added, remembered
<1> DEFINE G == {n \in Nat : n <= N =>
                   /\ added[n] = g[n] /\ remembered[n] = g[n].list
                   /\ histsize # 0 /\ h.list # <<>> => g[n].list # <<>>}
<1>13. 0 \in G
  BY <1>5, <1>8, <1>11
<1>14. \A n \in 1..N : n - 1 \in G => n \in G
  <2> SUFFICES ASSUME NEW n \in 1..N, n - 1 \in G PROVE n \in G
    OBVIOUS
  <2>1. added[n - 1] = g[n - 1] /\ remembered[n - 1] = g[n - 1].list
    OBVIOUS
  <2>2. added[n] = AddRow(added[n - 1], filters_history(line[n]))
    BY <1>8
  <2>3. remembered[n] = Remember(remembered[n - 1], filters_history(line[n]))
    BY <1>11
  <2>4. added[n] = g[n]
    BY <1>5, <2>1, <2>2
  <2>5. remembered[n] = g[n].list
    BY <1>6, <2>1, <2>3
  <2>6. histsize # 0 => g[n].list # <<>>
    <3>1. g[n] = AddRow(g[n - 1], filters_history(line[n])) /\ g[n - 1] \in Lists
      BY <1>5, <1>6
    <3>2. \E rest \in Seq(Rows) :
            g[n].list = LastRows(histsize, Append(rest, filters_history(line[n])))
      BY <1>2, <3>1, AddingEndsWithRow
    <3>3. PICK rest \in Seq(Rows), t \in Seq(Rows) :
            /\ t = Append(rest, filters_history(line[n])) /\ t # <<>>
            /\ g[n].list = LastRows(histsize, t)
      <4>1. PICK rest \in Seq(Rows), e \in Rows :
              /\ e = filters_history(line[n])
              /\ g[n].list = LastRows(histsize, Append(rest, e))
        BY <1>2, <3>2
      <4>2. Append(rest, e) \in Seq(Rows) /\ Append(rest, e) # <<>>
        BY AppendProperties
      <4> QED BY <4>1, <4>2
    <3> QED BY <3>3, LastAreSome
  <2>7. n \in Nat
    OBVIOUS
  <2> QED BY <2>4, <2>5, <2>6, <2>7
<1> HIDE DEF G
<1>15. 0..N \subseteq G
  BY <1>13, <1>14, Induction
<1>16. /\ added[N] = g[N] /\ remembered[N] = g[N].list
       /\ histsize # 0 /\ h.list # <<>> => g[N].list # <<>>
  <2>1. N \in G
    BY <1>15
  <2> QED BY <2>1 DEF G
<1>17. N = 1 => g[N] = AddRow(h, filters_history(line[1]))
  BY <1>5
<1> QED BY <1>1, <1>12, <1>16, <1>17

(* What comparing the last entry with the row leaves of h, whose entries are s. *)
Shortened(k, t, s, b, row) ==
  /\ k = [list |-> t, base |-> b] /\ Len(t) \in Nat /\ Len(t) <= histsize
  /\ \/ t = s
     \/ Len(t) = Len(s) - 1 /\ s[Len(s)] = row /\ \A j \in 1..Len(t) : t[j] = s[j]

(* The entry after one that is not the last keeps its logical offset when one *)
(* row is added, unless doubles are removed everywhere.                       *)
LEMMA NextStays ==
  ASSUME histsize \in Nat, history_duplicate_avoidance_policy \in 0..2,
         history_duplicate_avoidance_policy # ELIMINATE_ALL_DOUBLES,
         NEW h \in Lists, NEW row \in Rows, NEW i \in 1..Len(h.list) - 1
  PROVE  LET k == AddRow(h, row)
         IN  PhysicalOffset(k, i + h.base - k.base) = PhysicalOffset(h, i)
<1>1. PICK s \in Seq(Rows), b \in Int :
        h = [list |-> s, base |-> b] /\ Len(s) <= histsize /\ Len(s) \in Nat
  BY LenProperties DEF Lists
<1>2. PICK L \in {0, 1} : L = Lookback(Len(h.list))
  BY <1>1 DEF Lookback, KEEP_ALL_DOUBLES, ELIMINATE_SUCCESIVE_DOUBLES, ELIMINATE_ALL_DOUBLES
<1>3. PICK g \in [0..L -> Lists] :
        /\ g[0] = h
        /\ \A c \in 1..L : g[c] = RemoveIfEqual(g[c - 1], row, Len(s) - c)
        /\ AddRow(h, row) = add_history(g[L], row)
  <2>1. L \in Nat
    OBVIOUS
  <2>2. PICK g \in [0..L -> Lists] :
          /\ g[0] = h
          /\ \A c \in 1..L : g[c] = RemoveIfEqual(g[c - 1], row, Len(h.list) - c)
          /\ AddRow(h, row) = add_history(g[L], row)
    BY <1>2, <2>1, Comparisons
  <2>3. Len(h.list) = Len(s)
    BY <1>1
  <2> QED BY <2>2, <2>3
<1>4. \E t \in Seq(Rows) : Shortened(g[L], t, s, b, row)
  <2>1. CASE L = 0
    <3>1. g[L] = [list |-> s, base |-> b]
      BY <1>1, <1>3, <2>1
    <3>2. Shortened(g[L], s, s, b, row)
      BY <1>1, <3>1 DEF Shortened
    <3> QED BY <3>2
  <2>2. CASE L = 1
    <3>1. g[L] = RemoveIfEqual(h, row, Len(s) - 1)
      BY <1>3, <2>2
    <3>2. PICK here \in Int : here = Len(s) - 1 /\ here \in 0..Len(s) - 1 /\ here + 1 = Len(s)
      BY <1>1
    <3>3. /\ RemoveIfEqual(h, row, here) \in Lists
          /\ RemoveIfEqual(h, row, here).base = b
          /\ RemoveIfEqual(h, row, here).list =
               IF s[here + 1] = row THEN RemoveAt(s, here + 1) ELSE s
      <4>1. /\ RemoveIfEqual(h, row, here) \in Lists
            /\ RemoveIfEqual(h, row, here).base = h.base
            /\ here \in 0..Len(h.list) - 1 =>
                 RemoveIfEqual(h, row, here).list =
                   IF h.list[here + 1] = row THEN RemoveAt(h.list, here + 1) ELSE h.list
        BY Comparison
      <4>2. h.base = b /\ h.list = s
        BY <1>1
      <4> QED BY <3>2, <4>1, <4>2
    <3>4. PICK x \in Seq(Rows) : /\ g[L] = [list |-> x, base |-> b]
                                 /\ Len(x) <= histsize /\ Len(x) \in Nat
                                 /\ x = IF s[Len(s)] = row THEN RemoveAt(s, Len(s)) ELSE s
      BY <3>1, <3>2, <3>3, LenProperties DEF Lists
    <3>5. s[Len(s)] # row => x = s
      BY <3>4
    <3>6. s[Len(s)] = row => Len(x) = Len(s) - 1 /\ \A j \in 1..Len(x) : x[j] = s[j]
      <4> SUFFICES ASSUME s[Len(s)] = row
                   PROVE  Len(x) = Len(s) - 1 /\ \A j \in 1..Len(x) : x[j] = s[j]
        OBVIOUS
      <4>1. Len(s) \in 1..Len(s)
        BY <1>1
      <4>2. x = SubSeq(s, 1, Len(s) - 1) \o SubSeq(s, Len(s) + 1, Len(s)) /\ Len(x) = Len(s) - 1
        BY <3>4, <4>1, RemovedAt
      <4>3. PICK u \in Seq(Rows) : /\ u = SubSeq(s, 1, Len(s) - 1)
                                   /\ \A j \in 1..Len(s) - 1 : u[j] = s[j]
        <5>1. \A j \in 1..Len(s) - 1 : s[j] \in Rows
          BY <1>1, ElementOfSeq
        <5>2. PICK a \in Int : a = Len(s) - 1
          BY <1>1
        <5>3. /\ SubSeq(s, 1, a) \in Seq(Rows)
              /\ \A j \in 1..a - 1 + 1 : SubSeq(s, 1, a)[j] = s[1 + j - 1]
          BY <5>1, <5>2, SubSeqProperties
        <5>4. PICK u \in Seq(Rows) : u = SubSeq(s, 1, a)
          BY <5>3
        <5>5. ASSUME NEW j \in 1..a PROVE u[j] = s[j]
          <6>1. j \in 1..a - 1 + 1 /\ 1 + j - 1 = j
            OBVIOUS
          <6> QED BY <5>3, <5>4, <6>1
        <5> QED BY <5>2, <5>4, <5>5
      <4>4. SubSeq(s, Len(s) + 1, Len(s)) = <<>>
        BY <1>1, SubSeqEmpty
      <4>5. u \o <<>> = u
        BY ConcatEmptySeq
      <4>6. x = u
        BY <4>2, <4>3, <4>4, <4>5
      <4> QED BY <4>2, <4>3, <4>6
    <3>7. Shortened(g[L], x, s, b, row)
      BY <3>4, <3>5, <3>6 DEF Shortened
    <3> QED BY <3>7
  <2> QED BY <2>1, <2>2
<1>5. PICK t \in Seq(Rows) :
        /\ g[L] = [list |-> t, base |-> b] /\ Len(t) \in Nat /\ Len(t) <= histsize
        /\ \/ t = s
           \/ Len(t) = Len(s) - 1 /\ s[Len(s)] = row /\ \A j \in 1..Len(t) : t[j] = s[j]
  BY <1>4 DEF Shortened
<1>6. i \in 1..Len(s) - 1 /\ PhysicalOffset(h, i) = s[i + 1]
  BY <1>1 DEF PhysicalOffset
<1>7. CASE Len(t) < histsize
  <2>1. PICK v \in Seq(Rows) : IsAppended(v, t, row)
    BY Appended
  <2>2. AddRow(h, row) = [list |-> v, base |-> b]
    <3>1. PICK k : k = [list |-> t, base |-> b] /\ AddRow(h, row) = add_history(k, row)
      BY <1>3, <1>5
    <3> QED BY <1>7, <2>1, <3>1 DEF add_history, IsAppended
  <2>3. i \in 0..Len(v) - 1 /\ v[i + 1] = s[i + 1]
    BY <1>1, <1>5, <1>6, <2>1 DEF IsAppended
  <2>4. i + h.base - b = i
    BY <1>1
  <2> QED BY <1>6, <2>2, <2>3, <2>4 DEF PhysicalOffset
<1>8. CASE ~(Len(t) < histsize)
  <2>1. t = s /\ Len(s) = histsize /\ histsize # 0
    BY <1>1, <1>5, <1>6, <1>8
  <2>2. PICK u \in Seq(Rows) : IsTail(u, s)
    <3>1. s # <<>>
      BY <2>1, EmptySeq
    <3> QED BY <3>1, Shifted
  <2>3. PICK v \in Seq(Rows) : IsAppended(v, u, row)
    BY Appended
  <2>4. AddRow(h, row) = [list |-> v, base |-> b + 1]
    BY <1>3, <1>5, <1>8, <2>1, <2>2, <2>3 DEF add_history, IsAppended, IsTail
  <2>5. i - 1 \in 0..Len(v) - 1 /\ (i - 1) + 1 = i /\ v[i] = s[i + 1]
    BY <1>1, <1>6, <2>2, <2>3 DEF IsAppended, IsTail
  <2>6. i + h.base - (b + 1) = i - 1
    BY <1>1
  <2> QED BY <1>6, <2>4, <2>5, <2>6 DEF PhysicalOffset
<1> QED BY <1>7, <1>8

-----------------------------------------------------------------------------
(* The inductive invariant *)

(* What operate-and-get-next has noted stays true until the next line is edited. *)
Fetching ==
  /\ ~within_line_edit /\ saved_offset \in Int
  /\ PhysicalOffset(history, saved_offset - history.base) = expected

ListIsRight ==
  /\ histsize \in Nat /\ history_duplicate_avoidance_policy \in 0..2
  /\ history \in Lists /\ recent = history.list

(* The session has lost no history that the file still has. *)
FileIsRight ==
  /\ histfile \in Seq(Rows)
  /\ histsize # 0 /\ histfile # <<>> => history.list # <<>>

LineIsRight ==
  /\ rl_line_buffer \in Seq(Rows) /\ where \in Nat
  /\ saved_offset \in Int \cup {NULL}

HistInv == ListIsRight /\ FileIsRight /\ LineIsRight /\ (expected # NULL => Fetching)

(* No row is empty, so what is read is the file's last rows. *)
LEMMA ReadingFile ==
  ASSUME histsize \in Nat, NEW file \in Seq(Rows)
  PROVE  read_history(file) \in Lists /\ read_history(file).list = LastRows(histsize, file)
<1>1. \A i \in 1..Len(file) : file[i] # EMPTY
  <2>1. \A i \in 1..Len(file) : file[i] \in Rows
    BY ElementOfSeq
  <2> QED BY <2>1, RowsAssumption
<1>2. (\A i \in 1..Len(file) : file[i] # EMPTY) => Without(file, EMPTY) = file
  BY SiftedRows
<1>3. read_history(file) = HistoryOf(file)
  BY <1>1, <1>2 DEF read_history
<1> QED BY <1>3, Reading

(* What is on the input line when the position is on an entry. *)
LEMMA LineThere ==
  ASSUME NEW h \in Lists, NEW i \in 0..Len(h.list) - 1
  PROVE  PhysicalOffset(h, i) \in Rows /\ LineOf(PhysicalOffset(h, i)) \in Seq(Rows)
<1>1. PICK s \in Seq(Rows) : s = h.list /\ Len(s) \in Nat
  BY LenProperties DEF Lists
<1>2. i + 1 \in 1..Len(s)
  BY <1>1
<1>3. PICK row \in Rows : row = s[i + 1]
  BY <1>2, ElementOfSeq
<1>4. PhysicalOffset(h, i) = row
  BY <1>1, <1>3 DEF PhysicalOffset
<1>5. LineOf(row) = <<row>>
  BY RowsAssumption DEF LineOf
<1> QED BY <1>4, <1>5

(* An accepted line, remembered or not. *)
LEMMA Handled ==
  ASSUME histsize \in Nat, history_duplicate_avoidance_policy \in 0..2,
         NEW h \in Lists, NEW rows, rows = h.list, NEW line \in Seq(Rows),
         NEW remembered \in BOOLEAN, line_handler(h, rows, line, remembered)
  PROVE  /\ ListIsRight' /\ rl_line_buffer' \in Seq(Rows) /\ where' = where
         /\ ~within_line_edit' /\ histfile' = histfile /\ histsize' = histsize
         /\ histsize # 0 /\ h.list # <<>> => history'.list # <<>>
<1>1. UNCHANGED <<options, where, histfile>> /\ rl_line_buffer' = <<>> /\ within_line_edit' = FALSE
  BY DEF line_handler
<1>2. CASE remembered
  <2>1. history' = my_add_history(h, line) /\ recent' = RememberAll(h.list, line)
    BY <1>2 DEF line_handler
  <2>2. /\ my_add_history(h, line) \in Lists
        /\ my_add_history(h, line).list = RememberAll(h.list, line)
        /\ histsize # 0 /\ h.list # <<>> => my_add_history(h, line).list # <<>>
    BY AddingALine
  <2> QED BY <1>1, <2>1, <2>2, Empty DEF options, ListIsRight, Lists
<1>3. CASE ~remembered
  <2>1. history' = h /\ recent' = h.list
    BY <1>3 DEF line_handler
  <2> QED BY <1>1, <2>1, Empty DEF options, ListIsRight, Lists
<1> QED BY <1>2, <1>3

-----------------------------------------------------------------------------
(* One lemma for each action that is more than a line. *)

(* A line that is accepted while nothing waits to be fetched. *)
LEMMA AcceptLine ==
  ASSUME HistInv, NEW redisplay \in BOOLEAN, NEW forget_line \in BOOLEAN,
         my_accept_line(redisplay, forget_line)
  PROVE  HistInv'
<1>1. /\ histsize \in Nat /\ history_duplicate_avoidance_policy \in 0..2
      /\ history \in Lists /\ recent = history.list /\ rl_line_buffer \in Seq(Rows)
      /\ within_line_edit /\ UNCHANGED <<saved_offset, expected>>
  BY DEF HistInv, ListIsRight, LineIsRight, my_accept_line
<1>2. PICK remembered \in BOOLEAN :
        line_handler(history, recent, rl_line_buffer, remembered)
  <2>1. IsRemembered(rl_line_buffer, redisplay, forget_line, FALSE) \in BOOLEAN
    BY DEF IsRemembered
  <2> QED BY <2>1 DEF my_accept_line
<1>3. /\ ListIsRight' /\ rl_line_buffer' \in Seq(Rows) /\ where' = where
      /\ histfile' = histfile /\ histsize' = histsize
      /\ histsize # 0 /\ history.list # <<>> => history'.list # <<>>
  BY <1>1, <1>2, Handled
<1>4. expected' = NULL
  BY <1>1 DEF HistInv, Fetching
<1>5. FileIsRight' /\ LineIsRight'
  BY <1>1, <1>3 DEF HistInv, FileIsRight, LineIsRight
<1> QED BY <1>3, <1>4, <1>5 DEF HistInv

(* The offset that is noted is that of the next row, in the new numbering too. *)
LEMMA OperateAndGetNext ==
  ASSUME HistInv, my_operate_and_get_next
  PROVE  HistInv'
<1>1. /\ histsize \in Nat /\ history_duplicate_avoidance_policy \in 0..2
      /\ history \in Lists /\ recent = history.list /\ rl_line_buffer \in Seq(Rows)
      /\ where \in Nat /\ within_line_edit /\ saved_offset' = where + history.base + 1
      /\ expected' = IF where < history_length(history) - 1 /\ Len(rl_line_buffer) <= 1
                     THEN PhysicalOffset(history, where + 1) ELSE NULL
  BY DEF HistInv, ListIsRight, LineIsRight, my_operate_and_get_next
<1>2. PICK remembered \in BOOLEAN :
        /\ remembered = IsRemembered(rl_line_buffer, TRUE, FALSE, TRUE)
        /\ line_handler(history, recent, rl_line_buffer, remembered)
  <2>1. IsRemembered(rl_line_buffer, TRUE, FALSE, TRUE) \in BOOLEAN
    BY DEF IsRemembered
  <2> QED BY <2>1 DEF my_operate_and_get_next
<1>3. /\ ListIsRight' /\ rl_line_buffer' \in Seq(Rows) /\ where' = where
      /\ ~within_line_edit' /\ histfile' = histfile /\ histsize' = histsize
      /\ histsize # 0 /\ history.list # <<>> => history'.list # <<>>
  BY <1>1, <1>2, Handled
<1>4. history.base \in Int /\ saved_offset' \in Int
  BY <1>1 DEF Lists
<1>5. FileIsRight' /\ LineIsRight'
  BY <1>1, <1>3, <1>4 DEF HistInv, FileIsRight, LineIsRight
<1>6. ASSUME expected' # NULL PROVE Fetching'
  <2>1. PICK s \in Seq(Rows), i \in Nat :
          /\ s = history.list /\ Len(s) \in Nat /\ i = where + 1 /\ i \in 1..Len(s) - 1
          /\ expected' = PhysicalOffset(history, i) /\ Len(rl_line_buffer) <= 1
    <3>1. history.list \in Seq(Rows) /\ Len(history.list) \in Nat
      BY <1>1, LenProperties DEF Lists
    <3> QED BY <1>1, <1>6, <3>1 DEF history_length
  <2>2. PhysicalOffset(history', i + history.base - history'.base) = expected'
    <3>1. CASE remembered
      <4>1. /\ rl_line_buffer # <<>>
            /\ history_duplicate_avoidance_policy # ELIMINATE_ALL_DOUBLES
        BY <1>2, <3>1 DEF IsRemembered, history_can_safely_be_extended
      <4>2. PICK line \in Seq(Rows) : line = rl_line_buffer /\ Len(line) = 1
        <5>1. PICK line \in Seq(Rows) : line = rl_line_buffer
          BY <1>1
        <5>2. PICK n \in Nat : n = Len(line) /\ n # 0 /\ n <= 1
          BY <2>1, <4>1, <5>1, LenProperties, EmptySeq
        <5>3. n = 1
          BY <5>2
        <5>4. Len(line) = 1
          BY <5>2, <5>3
        <5> QED BY <5>1, <5>4
      <4>3. PICK row \in Rows : row = filters_history(line[1])
        <5>1. 1 \in 1..Len(line)
          BY <4>2
        <5>2. line[1] \in Rows
          BY <5>1, ElementOfSeq
        <5> QED BY <5>2, RowsAssumption
      <4>4. history' = AddRow(history, row)
        <5>1. Len(line) = 1 =>
                my_add_history(history, line) = AddRow(history, filters_history(line[1]))
          BY <1>1, AddingALine
        <5>2. history' = my_add_history(history, line)
          BY <1>2, <3>1, <4>2 DEF line_handler
        <5> QED BY <4>2, <4>3, <5>1, <5>2
      <4>5. i \in 1..Len(history.list) - 1
        BY <2>1
      <4>6. LET k == AddRow(history, row)
            IN  PhysicalOffset(k, i + history.base - k.base) = PhysicalOffset(history, i)
        BY <1>1, <4>1, <4>5, NextStays
      <4> QED BY <2>1, <4>4, <4>6
    <3>2. CASE ~remembered
      <4>1. history' = history
        BY <1>2, <3>2 DEF line_handler
      <4>2. i + history.base - history.base = i
        BY <1>4
      <4> QED BY <2>1, <4>1, <4>2
    <3> QED BY <3>1, <3>2
  <2>3. saved_offset' - history'.base = i + history.base - history'.base
    <3>1. saved_offset' = i + history.base
      <4>1. i = where + 1 /\ saved_offset' = where + history.base + 1
        BY <1>1, <2>1
      <4> QED BY <1>1, <1>4, <4>1
    <3>2. history'.base \in Int
      BY <1>3 DEF ListIsRight, Lists
    <3> QED BY <1>4, <3>1, <3>2
  <2> QED BY <1>3, <1>4, <2>2, <2>3 DEF Fetching
<1> QED BY <1>3, <1>5, <1>6 DEF HistInv

(* Along the history, between its entries and the line after the last one. *)
LEMMA Moves ==
  ASSUME HistInv, NEW i, MoveTo(i)
  PROVE  HistInv'
<1>1. /\ history \in Lists /\ within_line_edit /\ i \in 0..Len(history.list) /\ where' = i
      /\ rl_line_buffer' = IF i = Len(history.list) THEN <<>>
                           ELSE LineOf(PhysicalOffset(history, i))
      /\ UNCHANGED <<options, history, within_line_edit, saved_offset, histfile, recent, expected>>
  BY DEF HistInv, ListIsRight, MoveTo, history_length
<1>2. Len(history.list) \in Nat
  BY <1>1, LenProperties DEF Lists
<1>3. rl_line_buffer' \in Seq(Rows) /\ where' \in Nat
  <2>1. CASE i = Len(history.list)
    BY <1>1, <1>2, <2>1, Empty DEF HistInv, ListIsRight
  <2>2. CASE i # Len(history.list)
    <3>1. i \in 0..Len(history.list) - 1
      BY <1>1, <1>2, <2>2
    <3>2. LineOf(PhysicalOffset(history, i)) \in Seq(Rows)
      BY <1>1, <3>1, LineThere
    <3> QED BY <1>1, <2>2, <3>1, <3>2
  <2> QED BY <2>1, <2>2
<1>4. expected' = NULL
  BY <1>1 DEF HistInv, Fetching
<1> QED BY <1>1, <1>3, <1>4
     DEF HistInv, ListIsRight, FileIsRight, LineIsRight, Lists, options

(* A filter's new history is read into an empty one; one it has left alone stays. *)
LEMMA HotkeyPressed ==
  ASSUME HistInv, NEW row \in Rows, NEW new_histpos \in Nat, NEW line \in Lines,
         NEW rl_done \in BOOLEAN, Hotkey(row, new_histpos, line, rl_done)
  PROVE  HistInv'
<1>1. /\ histsize \in Nat /\ history_duplicate_avoidance_policy \in 0..2
      /\ within_line_edit /\ UNCHANGED <<saved_offset, expected>> /\ where \in Nat
      /\ line \in Seq(Rows)
  BY RowsAssumption DEF HistInv, ListIsRight, LineIsRight, Hotkey
<1>2. PICK s \in Seq(Rows) : s = history.list /\ Len(s) \in Nat /\ Len(s) <= histsize
  BY LenProperties DEF HistInv, ListIsRight, Lists
<1>3. PICK new_history \in Seq(Rows) :
        new_history = Without(s, row) /\ Len(new_history) \in Nat /\ Len(new_history) <= histsize
  <2>1. PICK t : t = Without(s, row)
    OBVIOUS
  <2>2. t \in Seq(Rows) /\ Len(t) \in Nat /\ Len(t) <= Len(s)
    BY <2>1, SiftedRows
  <2> QED BY <1>1, <1>2, <2>1, <2>2
<1>4. PICK read \in Lists : read = HistoryOf(new_history) /\ read.list = new_history
  <2>1. /\ HistoryOf(new_history) \in Lists
        /\ HistoryOf(new_history).list = LastRows(histsize, new_history)
    BY <1>1, Reading
  <2>2. LastRows(histsize, new_history) = new_history
    <3>1. Len(new_history) <= histsize => LastRows(histsize, new_history) = new_history
      BY <1>1, LastOnes
    <3> QED BY <1>3, <3>1
  <2> QED BY <2>1, <2>2
<1>5. history \in Lists
  BY DEF HistInv, ListIsRight
<1>6. PICK h \in Lists :
        /\ h = IF new_history # history.list \/ new_histpos # where
               THEN HistoryOf(new_history) ELSE history
        /\ h.list = new_history
  <2>1. CASE new_history # history.list \/ new_histpos # where
    BY <1>4, <2>1
  <2>2. CASE ~(new_history # history.list \/ new_histpos # where)
    BY <1>5, <2>2
  <2> QED BY <2>1, <2>2
<1>7. /\ new_history # <<>>
      /\ IF rl_done
         THEN line_handler(h, new_history, line, IsRemembered(line, TRUE, FALSE, FALSE))
         ELSE /\ history' = h /\ recent' = new_history
              /\ where' = new_histpos /\ rl_line_buffer' = line
              /\ UNCHANGED <<options, within_line_edit, histfile>>
  BY <1>2, <1>3, <1>6 DEF Hotkey
<1>8. /\ ListIsRight' /\ rl_line_buffer' \in Seq(Rows) /\ where' \in Nat
      /\ histfile' = histfile /\ histsize' = histsize
      /\ histsize # 0 => history'.list # <<>>
  <2>1. CASE rl_done
    <3>1. PICK remembered \in BOOLEAN : line_handler(h, new_history, line, remembered)
      <4>1. IsRemembered(line, TRUE, FALSE, FALSE) \in BOOLEAN
        BY DEF IsRemembered
      <4> QED BY <1>7, <2>1, <4>1
    <3>2. /\ ListIsRight' /\ rl_line_buffer' \in Seq(Rows) /\ where' = where
          /\ ~within_line_edit' /\ histfile' = histfile /\ histsize' = histsize
          /\ histsize # 0 /\ h.list # <<>> => history'.list # <<>>
      BY <1>1, <1>6, <3>1, Handled
    <3> QED BY <1>1, <1>6, <1>7, <3>2
  <2>2. CASE ~rl_done
    BY <1>1, <1>6, <1>7, <2>2 DEF options, ListIsRight, Lists
  <2> QED BY <2>1, <2>2
<1>9. expected' = NULL
  BY <1>1 DEF HistInv, Fetching
<1>10. FileIsRight' /\ LineIsRight'
  BY <1>1, <1>8 DEF HistInv, FileIsRight, LineIsRight
<1> QED BY <1>8, <1>9, <1>10 DEF HistInv

(* The startup hook finds what operate-and-get-next meant. *)
LEMMA EditStarted ==
  ASSUME HistInv, StartEdit
  PROVE  HistInv'
<1>1. PICK length \in Nat, base \in Int : length = Len(history.list) /\ base = history.base
  <2>1. Len(history.list) \in Nat /\ history.base \in Int
    BY LenProperties DEF HistInv, ListIsRight, Lists
  <2> QED BY <2>1
<1>2. PICK at :
        /\ at = IF saved_offset = NULL \/ length - (saved_offset - base) <= 0 THEN length
                ELSE IF length - (saved_offset - base) > length THEN 0
                ELSE length - (length - (saved_offset - base))
        /\ where' = at /\ saved_offset' = NULL
        /\ rl_line_buffer' = IF at = length THEN <<>> ELSE LineOf(PhysicalOffset(history, at))
        /\ expected' = IF expected # NULL /\ rl_line_buffer' = LineOf(expected)
                       THEN NULL ELSE expected
        /\ UNCHANGED <<options, history, histfile, recent>>
  BY <1>1 DEF StartEdit, history_length
<1>3. at \in 0..length
  <2>1. CASE saved_offset = NULL
    BY <1>1, <1>2, <2>1
  <2>2. CASE saved_offset # NULL
    <3>1. saved_offset \in Int
      BY <2>2 DEF HistInv, LineIsRight
    <3> QED BY <1>1, <1>2, <2>2, <3>1
  <2> QED BY <2>1, <2>2
<1>4. history \in Lists /\ histsize \in Nat
  BY DEF HistInv, ListIsRight
<1>5. rl_line_buffer' \in Seq(Rows)
  <2>1. CASE at = length
    BY <1>1, <1>2, <1>4, <2>1, Empty
  <2>2. CASE at # length
    <3>1. at \in 0..Len(history.list) - 1
      BY <1>1, <1>2, <1>3, <2>2
    <3>2. LineOf(PhysicalOffset(history, at)) \in Seq(Rows)
      BY <1>4, <3>1, LineThere
    <3> QED BY <1>1, <1>2, <2>2, <3>2
  <2> QED BY <2>1, <2>2
<1>6. expected' = NULL
  <2> SUFFICES ASSUME expected # NULL PROVE rl_line_buffer' = LineOf(expected)
    BY <1>1, <1>2
  <2>1. PICK o \in Int : o = saved_offset - base /\ saved_offset \in Int
                         /\ PhysicalOffset(history, o) = expected
    BY <1>1 DEF HistInv, Fetching
  <2>2. o \in 0..length - 1
    BY <1>1, <1>2, <2>1 DEF PhysicalOffset
  <2>3. saved_offset # NULL
    BY <2>1, RowsAssumption
  <2>4. at = o /\ at # length
    <3>1. /\ length - (saved_offset - base) = length - o /\ ~(length - o <= 0)
          /\ ~(length - o > length) /\ length - (length - o) = o /\ o # length
      BY <1>1, <2>1, <2>2
    <3> QED BY <1>2, <2>3, <3>1
  <2> QED BY <1>1, <1>2, <2>1, <2>4
<1>7. LineIsRight'
  BY <1>1, <1>2, <1>3, <1>5 DEF LineIsRight
<1> QED BY <1>1, <1>2, <1>6, <1>7 DEF HistInv, ListIsRight, FileIsRight, Lists, options

(* A new session begins with what the last one wrote, or with what it found. *)
LEMMA Restarted ==
  ASSUME HistInv, NEW killed \in BOOLEAN, Restart(killed)
  PROVE  HistInv'
<1>1. PICK s \in Seq(Rows) : /\ s = history.list /\ s = recent
                             /\ Len(s) \in Nat /\ Len(s) <= histsize
  BY LenProperties DEF HistInv, ListIsRight, Lists
<1>2. /\ histsize \in Nat /\ histfile \in Seq(Rows)
      /\ histsize # 0 /\ histfile # <<>> => s # <<>>
      /\ UNCHANGED options
      /\ rl_line_buffer' = <<>> /\ within_line_edit' = FALSE
      /\ saved_offset' = NULL /\ expected' = NULL
  BY <1>1 DEF HistInv, ListIsRight, FileIsRight, Restart
<1>3. PICK file \in Seq(Rows) :
        /\ file = IF ~killed /\ WritesHistory THEN s ELSE histfile
        /\ histfile' = file /\ history' = read_history(file)
        /\ where' = history_length(history')
  BY <1>1, <1>2 DEF Restart
<1>4. history' \in Lists /\ history'.list = LastRows(histsize, file)
  BY <1>2, <1>3, ReadingFile
<1>5. recent' = LastRows(histsize, file)
  <2>1. recent' = IF killed \/ ~write_histfile THEN LastRows(histsize, histfile) ELSE s
    BY <1>1 DEF Restart
  <2>2. LastRows(histsize, s) = s
    <3>1. Len(s) <= histsize => LastRows(histsize, s) = s
      BY <1>2, LastOnes
    <3> QED BY <1>1, <3>1
  <2>3. CASE killed \/ ~write_histfile
    BY <1>3, <2>1, <2>3 DEF WritesHistory
  <2>4. CASE ~killed /\ WritesHistory
    BY <1>3, <2>1, <2>2, <2>4 DEF WritesHistory
  <2>5. CASE ~killed /\ write_histfile /\ ~WritesHistory
    <3>1. histsize # 0 /\ \A i \in 1..Len(s) : s[i] = EMPTY
      BY <1>1, <2>5, LenProperties DEF WritesHistory
    <3>2. s = <<>>
      <4> SUFFICES ASSUME s # <<>> PROVE FALSE
        OBVIOUS
      <4>1. 1 \in 1..Len(s)
        BY <1>1, EmptySeq
      <4>2. s[1] \in Rows
        BY <4>1, ElementOfSeq
      <4> QED BY <3>1, <4>1, <4>2, RowsAssumption
    <3>3. histfile = <<>>
      BY <1>2, <3>1, <3>2
    <3> QED BY <1>3, <2>1, <2>2, <2>5, <3>2, <3>3
  <2> QED BY <2>3, <2>4, <2>5
<1>6. ListIsRight'
  BY <1>2, <1>4, <1>5 DEF HistInv, ListIsRight, Lists, options
<1>7. FileIsRight'
  <2>1. histsize # 0 /\ file # <<>> => LastRows(histsize, file) # <<>>
    BY <1>2, LastAreSome
  <2> QED BY <1>2, <1>3, <1>4, <2>1 DEF FileIsRight, options
<1>8. LineIsRight'
  <2>1. Len(history'.list) \in Nat
    BY <1>4, LenProperties DEF Lists
  <2> QED BY <1>2, <1>3, <2>1, Empty DEF LineIsRight, history_length
<1> QED BY <1>2, <1>6, <1>7, <1>8 DEF HistInv

-----------------------------------------------------------------------------
(* The inductive invariant holds: at any time the list is the history as it is *)
(* meant, the file has lost nothing, and the noted offset is the noted row's.  *)
THEOREM HistoryInvariant == Spec => []HistInv
<1>1. Init => HistInv
  <2> SUFFICES ASSUME Init PROVE HistInv
    OBVIOUS
  <2>1. /\ histsize \in Nat /\ history_duplicate_avoidance_policy \in 0..2
        /\ histfile \in Seq(Rows) /\ recent = LastRows(histsize, histfile)
        /\ history = read_history(histfile) /\ where = Len(history.list)
        /\ rl_line_buffer = <<>> /\ saved_offset = NULL /\ expected = NULL
    BY RowsAssumption DEF Init, history_length
  <2>2. history \in Lists /\ history.list = recent
    BY <2>1, ReadingFile
  <2>3. histsize # 0 /\ histfile # <<>> => history.list # <<>>
    <3>1. histsize # 0 /\ histfile # <<>> => LastRows(histsize, histfile) # <<>>
      BY <2>1, LastAreSome
    <3> QED BY <2>1, <2>2, <3>1
  <2>4. where \in Nat
    BY <2>1, <2>2, LenProperties DEF Lists
  <2> QED BY <2>1, <2>2, <2>3, <2>4, Empty DEF HistInv, ListIsRight, FileIsRight, LineIsRight
<1>2. HistInv /\ [Next]_vars => HistInv'
  <2> SUFFICES ASSUME HistInv, [Next]_vars PROVE HistInv'
    OBVIOUS
  <2>1. ASSUME NEW line \in Lines, Types(line) PROVE HistInv'
    <3>1. line \in Seq(Rows)
      BY RowsAssumption
    <3> QED BY <2>1, <3>1 DEF Types, HistInv, ListIsRight, FileIsRight, LineIsRight, Fetching,
                              Lists, options
  <2>2. ASSUME NEW redisplay \in BOOLEAN, NEW forget_line \in BOOLEAN,
               my_accept_line(redisplay, forget_line)
        PROVE  HistInv'
    BY <2>2, AcceptLine
  <2>3. CASE my_operate_and_get_next
    BY <2>3, OperateAndGetNext
  <2>4. CASE previous_history
    BY <2>4, Moves DEF previous_history
  <2>5. CASE next_history
    BY <2>5, Moves DEF next_history
  <2>6. ASSUME NEW row \in Rows, NEW i \in 0..histsize, NEW line \in Lines,
               NEW done \in BOOLEAN, Hotkey(row, i, line, done)
        PROVE  HistInv'
    <3>1. i \in Nat
      BY DEF HistInv, ListIsRight
    <3> QED BY <2>6, <3>1, HotkeyPressed
  <2>7. CASE StartEdit
    BY <2>7, EditStarted
  <2>8. CASE Output
    <3>1. Len(history.list) \in Nat
      BY LenProperties DEF HistInv, ListIsRight, Lists
    <3> QED BY <2>8, <3>1 DEF Output, HistInv, ListIsRight, FileIsRight, LineIsRight, Fetching,
                              Lists, options, history_length
  <2>9. ASSUME NEW killed \in BOOLEAN, Restart(killed) PROVE HistInv'
    BY <2>9, Restarted
  <2>10. CASE UNCHANGED vars
    BY <2>10 DEF vars, options, HistInv, ListIsRight, FileIsRight, LineIsRight, Fetching, Lists,
                 PhysicalOffset
  <2> QED BY <2>1, <2>2, <2>3, <2>4, <2>5, <2>6, <2>7, <2>8, <2>9, <2>10 DEF Next
<1> QED BY <1>1, <1>2, PTL DEF Spec

(* The history is what the user has entered of late, as -s, -D, -g and the     *)
(* filter have it, whatever is removed, dropped, deleted or carried over in    *)
(* the file.                                                                 *)
THEOREM HistoryAlwaysRecent == Spec => []HistoryIsRecentInput
<1>1. HistInv => HistoryIsRecentInput
  BY DEF HistInv, ListIsRight, HistoryIsRecentInput
<1> QED BY <1>1, HistoryInvariant, PTL

(* After operate-and-get-next the new input line is the row that followed the  *)
(* accepted one, though the history has changed meanwhile.                    *)
THEOREM NextLineAlwaysFetched == Spec => []NextLineFetched
<1>1. HistInv => NextLineFetched
  BY DEF HistInv, Fetching, NextLineFetched
<1> QED BY <1>1, HistoryInvariant, PTL
=============================================================================
