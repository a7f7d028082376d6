---------------------------- MODULE PromptProofs ----------------------------
(***************************************************************************)
(* Proofs about PromptText and Redisplay: rlwrap knows which screen the    *)
(* command is on, for all codes that can be told apart, all output, and all*)
(* ways of reading it in blocks; and my_homegrown_redisplay() shows the line,*)
(* for all prompts, lines and terminals. In between, what the loops of     *)
(* PromptText compute. What becomes of the text of a prompt is in TextProofs.*)
(***************************************************************************)
EXTENDS Redisplay, SequenceTheorems, FiniteSetTheorems, WellFoundedInduction, TLAPS

-----------------------------------------------------------------------------
(* Induction on numbers, as the existence of a least one. *)
LEMMA NotLess ==
  ASSUME NEW x \in Nat, NEW y \in Nat, <<y, x>> \notin OpToRel(<, Nat)
  PROVE  x <= y
BY DEF OpToRel

LEMMA LeastElement ==
  ASSUME NEW T \in SUBSET Nat, T # {}
  PROVE  \E m \in T : \A k \in T : m <= k
<1> DEFINE R == OpToRel(<, Nat)
<1>1. IsWellFoundedOn(R, Nat)
  BY NatLessThanWellFounded
<1> HIDE DEF R
<1>2. \E x \in T : \A y \in T : ~ (<<y, x>> \in R)
  BY <1>1, WFMin
<1>3. \E x \in T : \A y \in T : <<y, x>> \notin OpToRel(<, Nat)
  BY <1>2 DEF R
<1> QED BY <1>3, NotLess

(* A set that holds 0, and n + 1 whenever it holds n, as far as N. *)
LEMMA Induction ==
  ASSUME NEW N \in Nat, NEW G, 0 \in G, \A n \in 0..N - 1 : n \in G => n + 1 \in G
  PROVE  0..N \subseteq G
<1> DEFINE T == {n \in 0..N : n \notin G}
<1> SUFFICES ASSUME T # {} PROVE FALSE
  OBVIOUS
<1>1. T \in SUBSET Nat
  OBVIOUS
<1>2. PICK m \in T : \A k \in T : m <= k
  BY <1>1, LeastElement
<1>3. m # 0 /\ m - 1 \in 0..N - 1 /\ m - 1 \notin T
  BY <1>2
<1>4. m - 1 \in G
  BY <1>3
<1>5. (m - 1) + 1 \in G
  BY <1>3, <1>4
<1> QED BY <1>2, <1>5

-----------------------------------------------------------------------------
(* remove_padding() *)

(* The loop of remove_padding(): g[m] is what has been copied after m        *)
(* characters.                                                               *)
Copies(g, s) ==
  /\ g = [n \in 0..Len(s) |-> g[n]]
  /\ g[0] = <<>>
  /\ \A m \in 1..Len(s) : g[m] = IF s[m] = "NUL" THEN g[m - 1] ELSE Append(g[m - 1], s[m])

LEMMA CopyingIsPossible ==
  ASSUME NEW s \in Text
  PROVE  \E g \in [0..Len(s) -> Text] : Copies(g, s)
<1>1. Len(s) \in Nat /\ \A m \in 1..Len(s) : s[m] \in Char
  BY LenProperties, ElementOfSeq DEF Text
<1> DEFINE Good(n) == \E g \in [0..n -> Text] :
             /\ g[0] = <<>>
             /\ \A m \in 1..n : g[m] = IF s[m] = "NUL" THEN g[m - 1] ELSE Append(g[m - 1], s[m])
           G == {n \in Nat : Good(n)}
<1>2. 0 \in G
  <2>1. PICK g \in [0..0 -> Text] : g = [k \in 0..0 |-> <<>>]
    BY EmptySeq DEF Text
  <2>2. g[0] = <<>> /\ \A m \in 1..0 : FALSE
    BY <2>1
  <2>3. Good(0)
    BY <2>2
  <2> QED BY <2>3
<1>3. ASSUME NEW n \in 0..Len(s) - 1, Good(n) PROVE Good(n + 1)
  <2>1. PICK g \in [0..n -> Text] :
             /\ g[0] = <<>>
             /\ \A m \in 1..n : g[m] = IF s[m] = "NUL" THEN g[m - 1] ELSE Append(g[m - 1], s[m])
    BY <1>3
  <2>2. PICK next \in Text : next = IF s[n + 1] = "NUL" THEN g[n] ELSE Append(g[n], s[n + 1])
    <3>1. g[n] \in Text /\ s[n + 1] \in Char
      BY <1>1
    <3> QED BY <3>1, AppendProperties DEF Text
  <2>3. PICK h \in [0..n + 1 -> Text] : \A k \in 0..n + 1 : h[k] = IF k = n + 1 THEN next ELSE g[k]
    <3>1. [k \in 0..n + 1 |-> IF k = n + 1 THEN next ELSE g[k]] \in [0..n + 1 -> Text]
      OBVIOUS
    <3> QED BY <3>1
  <2>4. h[0] = <<>>
    BY <2>1, <2>3
  <2>5. ASSUME NEW m \in 1..n + 1
        PROVE  h[m] = IF s[m] = "NUL" THEN h[m - 1] ELSE Append(h[m - 1], s[m])
    <3>1. CASE m = n + 1
      <4>1. n + 1 \in 0..n + 1 /\ n \in 0..n + 1 /\ n # n + 1 /\ m - 1 = n
        BY <3>1
      <4>2. h[n + 1] = next /\ h[n] = g[n]
        BY <2>3, <4>1
      <4> QED BY <3>1, <4>1, <4>2, <2>2
    <3>2. CASE m # n + 1
      BY <3>2, <2>1, <2>3
    <3> QED BY <3>1, <3>2
  <2> QED BY <2>3, <2>4, <2>5
<1> HIDE DEF Good
<1>4. \A n \in 0..Len(s) - 1 : n \in G => n + 1 \in G
  BY <1>1, <1>3
<1> HIDE DEF G
<1>5. 0..Len(s) \subseteq G
  BY <1>1, <1>2, <1>4, Induction
<1>6. Len(s) \in G
  BY <1>1, <1>5
<1> QED BY <1>6 DEF G, Good, Copies

LEMMA CopyingIsUnique ==
  ASSUME NEW s \in Text, NEW g, NEW h, Copies(g, s), Copies(h, s)
  PROVE  g = h
<1>1. Len(s) \in Nat
  BY LenProperties DEF Text
<1> DEFINE G == {n \in Nat : n <= Len(s) => g[n] = h[n]}
<1>2. 0 \in G
  BY DEF Copies
<1>3. \A n \in 0..Len(s) - 1 : n \in G => n + 1 \in G
  <2> SUFFICES ASSUME NEW n \in 0..Len(s) - 1, g[n] = h[n] PROVE g[n + 1] = h[n + 1]
    BY <1>1
  <2>1. n + 1 \in 1..Len(s) /\ (n + 1) - 1 = n
    BY <1>1
  <2> QED BY <2>1 DEF Copies
<1> HIDE DEF G
<1>4. 0..Len(s) \subseteq G
  BY <1>1, <1>2, <1>3, Induction
<1>5. \A n \in 0..Len(s) : g[n] = h[n]
  BY <1>1, <1>4 DEF G
<1> QED BY <1>5 DEF Copies

LEMMA RemovePadding ==
  ASSUME NEW s \in Text
  PROVE  \E g \in [0..Len(s) -> Text] : Copies(g, s) /\ remove_padding(s) = g[Len(s)]
<1> DEFINE copied[n \in 0..Len(s)] ==
             IF n = 0 THEN <<>>
             ELSE IF s[n] = "NUL" THEN copied[n - 1] ELSE Append(copied[n - 1], s[n])
<1>1. Len(s) \in Nat
  BY LenProperties DEF Text
<1>2. PICK g \in [0..Len(s) -> Text] : Copies(g, s)
  BY CopyingIsPossible
<1>3. \A n \in 0..Len(s) :
         g[n] = IF n = 0 THEN <<>>
                ELSE IF s[n] = "NUL" THEN g[n - 1] ELSE Append(g[n - 1], s[n])
  <2> SUFFICES ASSUME NEW n \in 0..Len(s)
               PROVE  g[n] = IF n = 0 THEN <<>>
                             ELSE IF s[n] = "NUL" THEN g[n - 1] ELSE Append(g[n - 1], s[n])
    OBVIOUS
  <2>1. n = 0 \/ n \in 1..Len(s)
    BY <1>1
  <2> QED BY <1>2, <2>1 DEF Copies
<1>4. g = [n \in 0..Len(s) |->
             IF n = 0 THEN <<>>
             ELSE IF s[n] = "NUL" THEN g[n - 1] ELSE Append(g[n - 1], s[n])]
  BY <1>3
<1>5. copied = [n \in 0..Len(s) |->
             IF n = 0 THEN <<>>
             ELSE IF s[n] = "NUL" THEN copied[n - 1] ELSE Append(copied[n - 1], s[n])]
  BY <1>4
<1> HIDE DEF copied
<1>6. copied = [n \in 0..Len(s) |-> copied[n]]
  BY <1>5
<1>7. copied[0] = <<>>
  BY <1>1, <1>5
<1>8. \A m \in 1..Len(s) :
         copied[m] = IF s[m] = "NUL" THEN copied[m - 1] ELSE Append(copied[m - 1], s[m])
  <2> SUFFICES ASSUME NEW m \in 1..Len(s)
               PROVE  copied[m] = IF s[m] = "NUL" THEN copied[m - 1]
                                  ELSE Append(copied[m - 1], s[m])
    OBVIOUS
  <2>1. m \in 0..Len(s) /\ m # 0
    BY <1>1
  <2>2. copied[m] = IF m = 0 THEN <<>>
                    ELSE IF s[m] = "NUL" THEN copied[m - 1] ELSE Append(copied[m - 1], s[m])
    BY <1>5, <2>1
  <2> QED BY <2>1, <2>2
<1>9. Copies(copied, s)
  BY <1>6, <1>7, <1>8 DEF Copies
<1>10. remove_padding(s) = copied[Len(s)]
  BY DEF remove_padding, copied
<1>11. copied = g
  BY <1>2, <1>9, CopyingIsUnique
<1> QED BY <1>1, <1>2, <1>10, <1>11

LEMMA PaddingIsText ==
  ASSUME NEW s \in Text
  PROVE  remove_padding(s) \in Text
<1>1. Len(s) \in Nat
  BY LenProperties DEF Text
<1> QED BY <1>1, RemovePadding

LEMMA AppendOfPieces ==
  ASSUME NEW S, NEW s \in Seq(S), NEW t \in Seq(S), NEW c \in S
  PROVE  s \o Append(t, c) = Append(s \o t, c)
<1>1. s \o t \in Seq(S)
  BY ConcatProperties
<1>2. <<c>> \in Seq(S)
  OBVIOUS
<1>3. Append(t, c) = t \o <<c>>
  BY AppendIsConcat
<1>4. Append(s \o t, c) = (s \o t) \o <<c>>
  BY <1>1, AppendIsConcat
<1>5. (s \o t) \o <<c>> = s \o (t \o <<c>>)
  BY <1>2, ConcatAssociative
<1> QED BY <1>3, <1>4, <1>5

(* The padding of two pieces of text can be removed from each of them.       *)
LEMMA PaddingOfPieces ==
  ASSUME NEW s \in Text, NEW t \in Text
  PROVE  remove_padding(s \o t) = remove_padding(s) \o remove_padding(t)
<1>1. PICK g \in [0..Len(s) -> Text] : Copies(g, s) /\ remove_padding(s) = g[Len(s)]
  BY RemovePadding
<1>2. PICK h \in [0..Len(t) -> Text] : Copies(h, t) /\ remove_padding(t) = h[Len(t)]
  BY RemovePadding
<1>3. PICK w \in Text : w = s \o t
  BY ConcatProperties DEF Text
<1>4. /\ Len(s) \in Nat /\ Len(t) \in Nat /\ Len(w) = Len(s) + Len(t)
      /\ \A i \in 1..Len(s) : w[i] = s[i]
      /\ \A i \in 1..Len(t) : w[Len(s) + i] = t[i]
      /\ \A i \in 1..Len(t) : t[i] \in Char
  BY <1>3, ConcatProperties, LenProperties, ElementOfSeq DEF Text
<1>5. PICK e \in [0..Len(w) -> Text] : Copies(e, w) /\ remove_padding(w) = e[Len(w)]
  BY RemovePadding
<1>6. e[Len(s)] = g[Len(s)]
  <2> DEFINE G == {n \in Nat : n <= Len(s) => e[n] = g[n]}
  <2>1. 0 \in G
    BY <1>1, <1>5 DEF Copies
  <2>2. \A n \in 0..Len(s) - 1 : n \in G => n + 1 \in G
    <3> SUFFICES ASSUME NEW n \in 0..Len(s) - 1, e[n] = g[n] PROVE e[n + 1] = g[n + 1]
      BY <1>4
    <3>1. n + 1 \in 1..Len(s) /\ n + 1 \in 1..Len(w) /\ (n + 1) - 1 = n /\ w[n + 1] = s[n + 1]
      BY <1>4
    <3> QED BY <3>1, <1>1, <1>5 DEF Copies
  <2> HIDE DEF G
  <2>3. 0..Len(s) \subseteq G
    BY <1>4, <2>1, <2>2, Induction
  <2> QED BY <1>4, <2>3 DEF G
<1>7. e[Len(s) + Len(t)] = g[Len(s)] \o h[Len(t)]
  <2> DEFINE G == {n \in Nat : n <= Len(t) => e[Len(s) + n] = g[Len(s)] \o h[n]}
  <2>1. 0 \in G
    <3>1. g[Len(s)] \o <<>> = g[Len(s)]
      BY <1>1, <1>4, ConcatEmptySeq DEF Text
    <3>2. h[0] = <<>> /\ Len(s) + 0 = Len(s)
      BY <1>2, <1>4 DEF Copies
    <3> QED BY <3>1, <3>2, <1>6
  <2>2. \A n \in 0..Len(t) - 1 : n \in G => n + 1 \in G
    <3> SUFFICES ASSUME NEW n \in 0..Len(t) - 1, n \in G
                 PROVE  n + 1 \in G
      OBVIOUS
    <3>5. e[Len(s) + n] = g[Len(s)] \o h[n]
      BY <1>4
    <3> HIDE DEF G
    <3>0. n + 1 \in 1..Len(t)
      BY <1>4
    <3>1. /\ n + 1 \in 1..Len(t) /\ (n + 1) - 1 = n /\ Len(s) + (n + 1) \in 1..Len(w)
          /\ (Len(s) + (n + 1)) - 1 = Len(s) + n
          /\ w[Len(s) + (n + 1)] = t[n + 1]
      BY <1>4, <3>0
    <3>2. h[n + 1] = IF t[n + 1] = "NUL" THEN h[n] ELSE Append(h[n], t[n + 1])
      BY <1>2, <3>1 DEF Copies
    <3>3. e[Len(s) + (n + 1)] = IF t[n + 1] = "NUL" THEN e[Len(s) + n]
                                ELSE Append(e[Len(s) + n], t[n + 1])
      BY <1>5, <3>1 DEF Copies
    <3>4. g[Len(s)] \o Append(h[n], t[n + 1]) = Append(g[Len(s)] \o h[n], t[n + 1])
      <4>1. g[Len(s)] \in Text /\ h[n] \in Text /\ t[n + 1] \in Char
        <5>1. Len(s) \in 0..Len(s) /\ n \in 0..Len(t)
          BY <1>4
        <5> QED BY <1>1, <1>2, <1>4, <3>1, <5>1
      <4>2. g[Len(s)] \in Seq(Char) /\ h[n] \in Seq(Char) /\ t[n + 1] \in Char
        BY <4>1 DEF Text
      <4>3. PICK a \in Seq(Char), b \in Seq(Char), c \in Char :
              a = g[Len(s)] /\ b = h[n] /\ c = t[n + 1]
        BY <4>2
      <4>4. a \o Append(b, c) = Append(a \o b, c)
        BY AppendOfPieces, SMTT(20)
      <4> QED BY <4>3, <4>4
    <3>6. e[Len(s) + (n + 1)] = g[Len(s)] \o h[n + 1]
      BY <3>2, <3>3, <3>4, <3>5
    <3>7. n + 1 \in Nat
      BY <1>4
    <3> QED BY <3>6, <3>7 DEF G
  <2> HIDE DEF G
  <2>3. 0..Len(t) \subseteq G
    BY <1>4, <2>1, <2>2, Induction
  <2>4. Len(t) \in G
    BY <1>4, <2>3
  <2> QED BY <1>4, <2>4 DEF G
<1> QED BY <1>1, <1>2, <1>3, <1>4, <1>5, <1>7

-----------------------------------------------------------------------------
(* Codes in a text *)

Codes == {smcup, rmcup}
Entered(code) == code = smcup

CodeAt(s, i, code) == i + Len(code) - 1 <= Len(s) /\ AgreesFrom(s, i, code)

NoCodeFrom(s, i) == \A q \in i..Len(s), code \in Codes : ~CodeAt(s, q, code)

(* After what s holds from its i-th character on, the screen is v: as the     *)
(* last code says, or as before.                                             *)
Decided(s, i, before, v) ==
  \/ \E p \in i..Len(s), code \in Codes :
       CodeAt(s, p, code) /\ NoCodeFrom(s, p + 1) /\ v = Entered(code)
  \/ v = before /\ NoCodeFrom(s, i)

(* No code has been begun and not finished at the end of s.                   *)
NothingBegun(s) ==
  \A p \in 1..Len(s), code \in Codes : AgreesFrom(s, p, code) => CodeAt(s, p, code)

(* What rlwrap has kept of the output agrees with what it knows, and what it  *)
(* has kept and not read will tell it the rest.                              *)
ToBeSearched == still_unchecked \o remove_padding(pty)

ScreenInv ==
  /\ pty \in Text /\ still_unchecked \in Text
  /\ screen_is_alternate \in BOOLEAN /\ alternate \in BOOLEAN
  /\ Decided(still_unchecked, 1, screen_is_alternate, screen_is_alternate)
  /\ Decided(ToBeSearched, 1, screen_is_alternate, alternate)
  /\ NothingBegun(ToBeSearched)

-----------------------------------------------------------------------------
LEMMA CodesAreDistinct ==
  /\ smcup \in Codes /\ rmcup \in Codes /\ smcup # rmcup
  /\ Entered(smcup) = TRUE /\ Entered(rmcup) = FALSE
  /\ \A c \in Codes : /\ c \in Text /\ Len(c) \in Nat \ {0}
                      /\ remove_padding(c) = c /\ Entered(c) \in BOOLEAN
  /\ \A c, d \in Codes : \A k \in 1..Len(c) : AgreesFrom(c, k, d) => k = 1 /\ c = d
<1>1. ASSUME NEW c \in Codes
      PROVE  c \in Text /\ Len(c) \in Nat \ {0} /\ remove_padding(c) = c
  <2>1. c \in Text /\ c # <<>> /\ remove_padding(c) = c
    BY CodesAssumption DEF Codes
  <2> QED BY <2>1, EmptySeq DEF Text
<1>2. ASSUME NEW c \in Codes, NEW d \in Codes, NEW k \in 1..Len(c), AgreesFrom(c, k, d)
      PROVE  k = 1 /\ c = d
  BY <1>1, <1>2, CodesAssumption DEF Codes
<1>3. smcup # rmcup
  BY CodesAssumption
<1> QED BY <1>1, <1>2, <1>3 DEF Codes, Entered

(* Two codes in a text do not overlap.                                       *)
LEMMA CodesApart ==
  ASSUME NEW s \in Text, NEW p \in 1..Len(s), NEW q \in 1..Len(s),
         NEW c \in Codes, NEW d \in Codes, CodeAt(s, p, c), CodeAt(s, q, d), p <= q
  PROVE  (p = q /\ c = d) \/ p + Len(c) <= q
<1>1. Len(s) \in Nat /\ Len(c) \in Nat \ {0}
  BY CodesAreDistinct, LenProperties DEF Text
<1> SUFFICES ASSUME q < p + Len(c) PROVE p = q /\ c = d
  BY <1>1
<1>2. PICK k \in 1..Len(c) : k = q - p + 1
  BY <1>1
<1>3. ASSUME NEW n \in 1..Len(d), k + n - 1 <= Len(c)
      PROVE  c[k + n - 1] = d[n]
  <2>1. PICK m \in 1..Len(c) : m = k + n - 1 /\ n \in Nat
    BY <1>1, <1>2, <1>3, CodesAreDistinct
  <2>2. p + m - 1 = q + n - 1 /\ p + m - 1 <= Len(s)
    BY <1>1, <1>2, <2>1 DEF CodeAt
  <2>3. s[p + m - 1] = c[m]
    BY <2>1, <2>2 DEF CodeAt, AgreesFrom
  <2>4. s[q + n - 1] = d[n]
    BY <2>1, <2>2 DEF CodeAt, AgreesFrom
  <2> QED BY <2>1, <2>2, <2>3, <2>4
<1>4. AgreesFrom(c, k, d)
  BY <1>3 DEF AgreesFrom
<1> QED BY <1>1, <1>2, <1>4, CodesAreDistinct

LEMMA FromProperties ==
  ASSUME NEW s \in Text, NEW i \in 1..Len(s) + 1
  PROVE  /\ From(s, i) \in Text /\ Len(From(s, i)) = Len(s) - i + 1
         /\ \A j \in 1..Len(s) - i + 1 : From(s, i)[j] = s[i + j - 1]
<1>1. Len(s) \in Nat /\ \A j \in i..Len(s) : s[j] \in Char
  BY LenProperties, ElementOfSeq DEF Text
<1> QED BY <1>1, SubSeqProperties DEF From, Text

(* strstr() finds a code, if there is one.                                   *)
LEMMA StrstrFindsCode ==
  ASSUME NEW s \in Text, NEW i \in 1..Len(s) + 1, NEW c \in Codes
  PROVE  LET r == strstr(From(s, i), c)
         IN  \/ r = 0 /\ \A q \in i..Len(s) : ~CodeAt(s, q, c)
             \/ r \in 1..Len(s) - i + 1 /\ CodeAt(s, i + r - 1, c)
<1> DEFINE t == From(s, i)
           at == {j \in 1..Len(t) - Len(c) + 1 : SubSeq(t, j, j + Len(c) - 1) = c}
           r == strstr(t, c)
<1>1. /\ t \in Text /\ Len(t) = Len(s) - i + 1 /\ Len(s) \in Nat
      /\ \A j \in 1..Len(t) : t[j] = s[i + j - 1] /\ t[j] \in Char
      /\ c \in Text /\ Len(c) \in Nat \ {0}
  <2>1. \A j \in 1..Len(t) : t[j] \in Char
    BY FromProperties, ElementOfSeq DEF Text
  <2>2. Len(s) \in Nat
    BY LenProperties DEF Text
  <2> QED BY <2>1, <2>2, FromProperties, CodesAreDistinct
<1> HIDE DEF t
<1>2. ASSUME NEW j \in 1..Len(t) - Len(c) + 1
      PROVE  SubSeq(t, j, j + Len(c) - 1) = c <=> CodeAt(s, i + j - 1, c)
  <2>0. \A n \in j..j + Len(c) - 1 : t[n] \in Char
    BY <1>1
  <2>1. PICK u \in Text : u = SubSeq(t, j, j + Len(c) - 1)
    <3>1. j \in Int /\ j + Len(c) - 1 \in Int
      BY <1>1
    <3>2. SubSeq(t, j, j + Len(c) - 1) \in Seq(Char)
      BY <2>0, <3>1, SubSeqProperties
    <3> QED BY <3>2 DEF Text
  <2>2. Len(u) = Len(c) /\ \A n \in 1..Len(c) : u[n] = t[j + n - 1]
    BY <1>1, <2>0, <2>1, SubSeqProperties
  <2>3. \A n \in 1..Len(c) : t[j + n - 1] = s[(i + j - 1) + n - 1]
    BY <1>1
  <2>4. CodeAt(s, i + j - 1, c) <=> \A n \in 1..Len(c) : u[n] = c[n]
    BY <1>1, <2>2, <2>3 DEF CodeAt, AgreesFrom
  <2>5. u = c <=> \A n \in 1..Len(c) : u[n] = c[n]
    BY <1>1, <2>2, SeqEqual DEF Text
  <2> QED BY <2>1, <2>4, <2>5
<1>3. CASE at = {}
  <2>1. r = 0
    BY <1>3 DEF strstr
  <2>2. ASSUME NEW q \in i..Len(s), CodeAt(s, q, c) PROVE FALSE
    <3>1. q - i + 1 \in 1..Len(t) - Len(c) + 1 /\ i + (q - i + 1) - 1 = q
      BY <1>1, <2>2 DEF CodeAt
    <3>2. q - i + 1 \in at
      BY <1>2, <2>2, <3>1
    <3> QED BY <3>2, <1>3
  <2> QED BY <2>1, <2>2 DEF t
<1>4. CASE at # {}
  <2>1. at \in SUBSET Nat
    BY <1>1
  <2>2. \E m \in at : \A k \in at : m <= k
    BY <1>4, <2>1, LeastElement
  <2>3. r \in at
    BY <1>4, <2>2 DEF strstr
  <2>4. r \in 1..Len(s) - i + 1 /\ CodeAt(s, i + r - 1, c)
    <3>1. r \in 1..Len(t) - Len(c) + 1 /\ SubSeq(t, r, r + Len(c) - 1) = c
      BY <2>3
    <3> HIDE DEF r, at
    <3>2. CodeAt(s, i + r - 1, c)
      BY <1>2, <3>1
    <3> QED BY <1>1, <3>1, <3>2
  <2> QED BY <2>4 DEF t
<1> QED BY <1>3, <1>4

-----------------------------------------------------------------------------
(* check_cupcodes() *)

(* What comes before a code does not matter.                                 *)
LEMMA CodeDecides ==
  ASSUME NEW s \in Text, NEW i \in 1..Len(s) + 1, NEW p \in i..Len(s), NEW c \in Codes,
         CodeAt(s, p, c)
  PROVE  /\ p + Len(c) \in i + 1..Len(s) + 1
         /\ \A before, v : Decided(s, p + Len(c), Entered(c), v) => Decided(s, i, before, v)
<1>1. Len(s) \in Nat /\ Len(c) \in Nat \ {0}
  BY CodesAreDistinct, LenProperties DEF Text
<1>2. p + Len(c) \in i + 1..Len(s) + 1
  BY <1>1 DEF CodeAt
<1>3. ASSUME NEW before, NEW v, Decided(s, p + Len(c), Entered(c), v)
      PROVE  Decided(s, i, before, v)
  <2>1. CASE \E r \in p + Len(c)..Len(s), d \in Codes :
               CodeAt(s, r, d) /\ NoCodeFrom(s, r + 1) /\ v = Entered(d)
    BY <1>1, <1>2, <2>1 DEF Decided
  <2>2. CASE v = Entered(c) /\ NoCodeFrom(s, p + Len(c))
    <3>1. ASSUME NEW q \in p + 1..Len(s), NEW d \in Codes, CodeAt(s, q, d) PROVE FALSE
      <4>1. p \in 1..Len(s) /\ q \in 1..Len(s) /\ p <= q /\ p # q
        BY <1>1
      <4>2. p + Len(c) <= q
        BY <3>1, <4>1, CodesApart
      <4> QED BY <1>1, <2>2, <3>1, <4>1, <4>2 DEF NoCodeFrom
    <3>2. NoCodeFrom(s, p + 1)
      BY <3>1 DEF NoCodeFrom
    <3> QED BY <2>2, <3>2 DEF Decided
  <2> QED BY <1>3, <2>1, <2>2 DEF Decided
<1> QED BY <1>2, <1>3

(* One turn of the loop.                                                     *)
FirstAt(s, i, code) == strstr(From(s, i), code)

LEMMA SearchStep ==
  ASSUME NEW s \in Text, NEW i \in 1..Len(s) + 1
  PROVE  /\ \A c \in Codes : FirstAt(s, i, c) \in Nat
         /\ FirstAt(s, i, rmcup) = FirstAt(s, i, smcup) => NoCodeFrom(s, i)
         /\ \A c \in Codes : FirstAt(s, i, c) > 0 =>
              /\ i + FirstAt(s, i, c) - 1 + Len(c) \in i + 1..Len(s) + 1
              /\ \A before, v :
                   Decided(s, i + FirstAt(s, i, c) - 1 + Len(c), Entered(c), v)
                     => Decided(s, i, before, v)
<1>1. Len(s) \in Nat
  BY LenProperties DEF Text
<1>2. ASSUME NEW c \in Codes
      PROVE  \/ FirstAt(s, i, c) = 0 /\ \A q \in i..Len(s) : ~CodeAt(s, q, c)
             \/ /\ FirstAt(s, i, c) \in 1..Len(s) - i + 1
                /\ CodeAt(s, i + FirstAt(s, i, c) - 1, c)
  BY StrstrFindsCode DEF FirstAt
<1>3. ASSUME FirstAt(s, i, rmcup) = FirstAt(s, i, smcup)
      PROVE  NoCodeFrom(s, i)
  <2>1. CASE FirstAt(s, i, smcup) = 0
    <3>1. \A c \in Codes : FirstAt(s, i, c) = 0
      BY <1>3, <2>1 DEF Codes
    <3> QED BY <1>1, <1>2, <3>1 DEF NoCodeFrom
  <2>2. CASE FirstAt(s, i, smcup) # 0
    <3>1. PICK p \in 1..Len(s) : p = i + FirstAt(s, i, smcup) - 1
      BY <1>1, <1>2, <2>2, CodesAreDistinct
    <3>2. CodeAt(s, p, smcup) /\ CodeAt(s, p, rmcup)
      BY <1>2, <1>3, <2>2, <3>1, CodesAreDistinct
    <3>3. p + Len(smcup) <= p
      BY <1>1, <3>1, <3>2, CodesApart, CodesAreDistinct
    <3> QED BY <3>3, CodesAreDistinct
  <2> QED BY <2>1, <2>2
<1>4. ASSUME NEW c \in Codes, FirstAt(s, i, c) > 0
      PROVE  /\ i + FirstAt(s, i, c) - 1 + Len(c) \in i + 1..Len(s) + 1
             /\ \A before, v :
                  Decided(s, i + FirstAt(s, i, c) - 1 + Len(c), Entered(c), v)
                    => Decided(s, i, before, v)
  <2>1. PICK p \in i..Len(s) : p = i + FirstAt(s, i, c) - 1 /\ CodeAt(s, p, c)
    BY <1>1, <1>2, <1>4
  <2>2. /\ p + Len(c) \in i + 1..Len(s) + 1
        /\ \A before, v : Decided(s, p + Len(c), Entered(c), v) => Decided(s, i, before, v)
    BY <2>1, CodeDecides
  <2> QED BY <2>1, <2>2
<1>5. \A c \in Codes : FirstAt(s, i, c) \in Nat
  BY <1>1, <1>2
<1> QED BY <1>3, <1>4, <1>5

(* What the loop finds from a place on, if it finds f from later places.      *)
Finds(f, s, i, screen) ==
  LET rm == FirstAt(s, i, rmcup)
      sm == FirstAt(s, i, smcup)
  IN  IF rm = sm THEN screen
      ELSE IF rm > sm THEN f[i + rm - 1 + Len(rmcup)][FALSE]
      ELSE f[i + sm - 1 + Len(smcup)][TRUE]

Screens == [BOOLEAN -> BOOLEAN]

LEMMA FindsFromLater ==
  ASSUME NEW s \in Text, NEW i \in 1..Len(s) + 1, NEW f, NEW g,
         \A j \in i + 1..Len(s) + 1 : f[j] = g[j]
  PROVE  /\ \A b \in BOOLEAN : Finds(f, s, i, b) = Finds(g, s, i, b)
         /\ (\A j \in i + 1..Len(s) + 1 : f[j] \in Screens) =>
              \A b \in BOOLEAN : Finds(f, s, i, b) \in BOOLEAN
<1> DEFINE rm == FirstAt(s, i, rmcup)
           sm == FirstAt(s, i, smcup)
<1>1. rm \in Nat /\ sm \in Nat
  BY SearchStep, CodesAreDistinct
<1>2. /\ rm > 0 => i + rm - 1 + Len(rmcup) \in i + 1..Len(s) + 1
      /\ sm > 0 => i + sm - 1 + Len(smcup) \in i + 1..Len(s) + 1
  BY SearchStep, CodesAreDistinct
<1>3. CASE rm = sm
  BY <1>3 DEF Finds
<1>4. CASE rm > sm
  <2>1. PICK a \in i + 1..Len(s) + 1 : a = i + rm - 1 + Len(rmcup)
    BY <1>1, <1>2, <1>4
  <2>2. \A b : Finds(f, s, i, b) = f[a][FALSE] /\ Finds(g, s, i, b) = g[a][FALSE]
    <3>1. rm # sm /\ rm > sm
      BY <1>1, <1>4
    <3> QED BY <2>1, <3>1, Zenon DEF Finds
  <2> QED BY <2>1, <2>2 DEF Screens
<1>5. CASE rm < sm
  <2>1. PICK a \in i + 1..Len(s) + 1 : a = i + sm - 1 + Len(smcup)
    BY <1>1, <1>2, <1>5
  <2>2. \A b : Finds(f, s, i, b) = f[a][TRUE] /\ Finds(g, s, i, b) = g[a][TRUE]
    <3>1. rm # sm /\ ~(rm > sm)
      BY <1>1, <1>5
    <3> QED BY <2>1, <3>1, Zenon DEF Finds
  <2> QED BY <2>1, <2>2 DEF Screens
<1> QED BY <1>1, <1>3, <1>4, <1>5

LEMMA SearchIsPossible ==
  ASSUME NEW s \in Text
  PROVE  \E f \in [1..Len(s) + 1 -> Screens] :
           \A i \in 1..Len(s) + 1 : f[i] = [b \in BOOLEAN |-> Finds(f, s, i, b)]
<1>1. PICK N \in Nat : N = Len(s)
  BY LenProperties DEF Text
<1> DEFINE Good(n) == \E f \in [N + 1 - n..N + 1 -> Screens] :
             \A i \in N + 1 - n..N + 1 : f[i] = [b \in BOOLEAN |-> Finds(f, s, i, b)]
           G == {n \in Nat : n <= N => Good(n)}
<1>2. ASSUME NEW n \in 0..N, NEW f \in [N + 2 - n..N + 1 -> Screens],
             \A i \in N + 2 - n..N + 1 : f[i] = [b \in BOOLEAN |-> Finds(f, s, i, b)]
      PROVE  Good(n)
  <2>1. PICK k \in 1..N + 1 : k = N + 1 - n
    OBVIOUS
  <2>2. PICK h \in Screens : h = [b \in BOOLEAN |-> Finds(f, s, k, b)]
    <3>1. \A j \in k + 1..N + 1 : f[j] \in Screens
      BY <2>1
    <3>2. \A b \in BOOLEAN : Finds(f, s, k, b) \in BOOLEAN
      BY <1>1, <3>1, FindsFromLater
    <3> QED BY <3>2 DEF Screens
  <2>3. PICK g \in [k..N + 1 -> Screens] : \A i \in k..N + 1 : g[i] = IF i = k THEN h ELSE f[i]
    <3>1. [i \in k..N + 1 |-> IF i = k THEN h ELSE f[i]] \in [k..N + 1 -> Screens]
      BY <2>1
    <3> QED BY <3>1
  <2>4. ASSUME NEW i \in k..N + 1 PROVE g[i] = [b \in BOOLEAN |-> Finds(g, s, i, b)]
    <3>1. i \in 1..N + 1 /\ \A j \in i + 1..N + 1 : g[j] = f[j]
      BY <2>1, <2>3
    <3>2. \A b \in BOOLEAN : Finds(g, s, i, b) = Finds(f, s, i, b)
      BY <1>1, <3>1, FindsFromLater
    <3>3. g[i] = [b \in BOOLEAN |-> Finds(f, s, i, b)]
      <4>1. CASE i = k
        BY <4>1, <2>2, <2>3
      <4>2. CASE i # k
        BY <4>2, <1>2, <2>1, <2>3
      <4> QED BY <4>1, <4>2
    <3> QED BY <3>2, <3>3
  <2> QED BY <2>1, <2>3, <2>4
<1>3. 0 \in G
  <2>1. PICK f \in [N + 2 - 0..N + 1 -> Screens] : TRUE
    <3>1. N + 2 - 0..N + 1 = {}
      OBVIOUS
    <3>2. [i \in {} |-> 0] \in [{} -> Screens]
      OBVIOUS
    <3> QED BY <3>1, <3>2
  <2>2. \A i \in N + 2 - 0..N + 1 : FALSE
    OBVIOUS
  <2> HIDE DEF Good
  <2>3. Good(0)
    BY <1>2, <2>1, <2>2
  <2> QED BY <2>3
<1>4. \A n \in 0..N - 1 : n \in G => n + 1 \in G
  <2> SUFFICES ASSUME NEW n \in 0..N - 1, Good(n) PROVE Good(n + 1)
    OBVIOUS
  <2>1. N + 2 - (n + 1) = N + 1 - n /\ n + 1 \in 0..N
    OBVIOUS
  <2>2. PICK f \in [N + 1 - n..N + 1 -> Screens] :
          \A i \in N + 1 - n..N + 1 : f[i] = [b \in BOOLEAN |-> Finds(f, s, i, b)]
    OBVIOUS
  <2> HIDE DEF Good
  <2> QED BY <1>2, <2>1, <2>2
<1> HIDE DEF G
<1>5. 0..N \subseteq G
  BY <1>3, <1>4, Induction
<1>6. Good(N)
  BY <1>5 DEF G
<1>7. N + 1 - N = 1
  OBVIOUS
<1> QED BY <1>1, <1>6, <1>7

(* check_cupcodes() finds out what the last code says.                       *)
LEMMA SearchDecides ==
  ASSUME NEW s \in Text, NEW before \in BOOLEAN
  PROVE  /\ SearchCodes(s, before) \in BOOLEAN
         /\ Decided(s, 1, before, SearchCodes(s, before))
<1> DEFINE Found[i \in 1..Len(s) + 1] ==
             LET rm == strstr(From(s, i), rmcup)
                 sm == strstr(From(s, i), smcup)
             IN  [screen \in BOOLEAN |->
                    IF rm = sm THEN screen
                    ELSE IF rm > sm THEN Found[i + rm - 1 + Len(rmcup)][FALSE]
                    ELSE Found[i + sm - 1 + Len(smcup)][TRUE]]
<1>1. PICK N \in Nat : N = Len(s)
  BY LenProperties DEF Text
<1>2. PICK g \in [1..N + 1 -> Screens] :
        \A i \in 1..N + 1 : g[i] = [b \in BOOLEAN |-> Finds(g, s, i, b)]
  BY <1>1, SearchIsPossible
<1>3. g = [i \in 1..Len(s) + 1 |->
             LET rm == strstr(From(s, i), rmcup)
                 sm == strstr(From(s, i), smcup)
             IN  [screen \in BOOLEAN |->
                    IF rm = sm THEN screen
                    ELSE IF rm > sm THEN g[i + rm - 1 + Len(rmcup)][FALSE]
                    ELSE g[i + sm - 1 + Len(smcup)][TRUE]]]
  <2>1. g = [i \in 1..Len(s) + 1 |-> [screen \in BOOLEAN |-> Finds(g, s, i, screen)]]
    BY <1>1, <1>2
  <2> QED BY <2>1, Zenon DEF Finds, FirstAt
<1>4. Found = [i \in 1..Len(s) + 1 |->
             LET rm == strstr(From(s, i), rmcup)
                 sm == strstr(From(s, i), smcup)
             IN  [screen \in BOOLEAN |->
                    IF rm = sm THEN screen
                    ELSE IF rm > sm THEN Found[i + rm - 1 + Len(rmcup)][FALSE]
                    ELSE Found[i + sm - 1 + Len(smcup)][TRUE]]]
  BY <1>3, Zenon
<1>5. SearchCodes(s, before) = Found[1][before]
  BY Zenon DEF SearchCodes
<1> HIDE DEF Found
<1>6. Found = [i \in 1..N + 1 |-> [screen \in BOOLEAN |-> Finds(Found, s, i, screen)]]
  BY <1>1, <1>4, Zenon DEF Finds, FirstAt
<1>7. \A i \in 1..N + 1 : Found[i] = [screen \in BOOLEAN |-> Finds(Found, s, i, screen)]
  BY <1>6
<1>8. \A i \in 1..N + 1, b \in BOOLEAN : Found[i][b] = Finds(Found, s, i, b)
  BY <1>7
<1>9. ASSUME NEW i \in 1..N + 1,
             \A j \in i + 1..N + 1, b \in BOOLEAN :
               Found[j][b] \in BOOLEAN /\ Decided(s, j, b, Found[j][b])
      PROVE  \A b \in BOOLEAN : Found[i][b] \in BOOLEAN /\ Decided(s, i, b, Found[i][b])
  <2> DEFINE rm == FirstAt(s, i, rmcup)
             sm == FirstAt(s, i, smcup)
  <2>1. rm \in Nat /\ sm \in Nat /\ i \in 1..Len(s) + 1
    BY <1>1, SearchStep, CodesAreDistinct
  <2>2. CASE rm = sm
    <3>1. NoCodeFrom(s, i)
      BY <2>1, <2>2, SearchStep
    <3>2. \A b \in BOOLEAN : Found[i][b] = b
      BY <1>8, <2>2, Zenon DEF Finds
    <3> QED BY <3>1, <3>2 DEF Decided
  <2>3. CASE rm > sm
    <3>1. PICK a \in i + 1..N + 1 : a = i + rm - 1 + Len(rmcup)
      BY <1>1, <2>1, <2>3, SearchStep, CodesAreDistinct
    <3>2. \A b \in BOOLEAN : Found[i][b] = Found[a][FALSE]
      <4>1. rm # sm /\ rm > sm
        BY <2>1, <2>3
      <4> QED BY <1>8, <3>1, <4>1, Zenon DEF Finds
    <3>3. \A before_i, v : Decided(s, a, Entered(rmcup), v) => Decided(s, i, before_i, v)
      <4>1. rm > 0 /\ rmcup \in Codes
        BY <2>1, <2>3, CodesAreDistinct
      <4>2. \A before_i, v :
              Decided(s, i + rm - 1 + Len(rmcup), Entered(rmcup), v) => Decided(s, i, before_i, v)
        BY <2>1, <4>1, SearchStep
      <4> QED BY <3>1, <4>2
    <3>4. Found[a][FALSE] \in BOOLEAN /\ Decided(s, a, FALSE, Found[a][FALSE])
      BY <1>9, <3>1
    <3>5. Entered(rmcup) = FALSE
      BY CodesAreDistinct
    <3> QED BY <3>2, <3>3, <3>4, <3>5, Zenon
  <2>4. CASE rm < sm
    <3>1. PICK a \in i + 1..N + 1 : a = i + sm - 1 + Len(smcup)
      BY <1>1, <2>1, <2>4, SearchStep, CodesAreDistinct
    <3>2. \A b \in BOOLEAN : Found[i][b] = Found[a][TRUE]
      <4>1. rm # sm /\ ~(rm > sm)
        BY <2>1, <2>4
      <4> QED BY <1>8, <3>1, <4>1, Zenon DEF Finds
    <3>3. \A before_i, v : Decided(s, a, Entered(smcup), v) => Decided(s, i, before_i, v)
      <4>1. sm > 0 /\ smcup \in Codes
        BY <2>1, <2>4, CodesAreDistinct
      <4>2. \A before_i, v :
              Decided(s, i + sm - 1 + Len(smcup), Entered(smcup), v) => Decided(s, i, before_i, v)
        BY <2>1, <4>1, SearchStep
      <4> QED BY <3>1, <4>2
    <3>4. Found[a][TRUE] \in BOOLEAN /\ Decided(s, a, TRUE, Found[a][TRUE])
      BY <1>9, <3>1
    <3>5. Entered(smcup) = TRUE
      BY CodesAreDistinct
    <3> QED BY <3>2, <3>3, <3>4, <3>5, Zenon
  <2> QED BY <2>1, <2>2, <2>3, <2>4
<1> DEFINE Right(i) == \A b \in BOOLEAN : Found[i][b] \in BOOLEAN /\ Decided(s, i, b, Found[i][b])
           G == {n \in Nat : \A i \in 1..N + 1 : i >= N + 1 - n => Right(i)}
<1>10. ASSUME NEW i \in 1..N + 1, \A j \in i + 1..N + 1 : Right(j) PROVE Right(i)
  BY <1>9, <1>10
<1> HIDE DEF Right
<1>11. 0 \in G
  BY <1>10
<1>12. \A n \in 0..N - 1 : n \in G => n + 1 \in G
  <2> SUFFICES ASSUME NEW n \in 0..N - 1, n \in G PROVE n + 1 \in G
    OBVIOUS
  <2>1. ASSUME NEW i \in 1..N + 1, i >= N + 1 - (n + 1) PROVE Right(i)
    <3>1. \A j \in i + 1..N + 1 : Right(j)
      BY <2>1
    <3> QED BY <3>1, <1>10
  <2>2. n + 1 \in Nat
    OBVIOUS
  <2> QED BY <2>1, <2>2
<1> HIDE DEF G
<1>13. 0..N \subseteq G
  BY <1>11, <1>12, Induction
<1>14. N \in G /\ 1 \in 1..N + 1 /\ 1 >= N + 1 - N
  BY <1>13
<1>15. Right(1)
  BY <1>14 DEF G
<1> QED BY <1>5, <1>15 DEF Right

-----------------------------------------------------------------------------
(* Cutting text off at the front *)

LEMMA Pieced ==
  ASSUME NEW s \in Text, NEW t \in Text
  PROVE  /\ s \o t \in Text /\ Len(s \o t) = Len(s) + Len(t)
         /\ Len(s) \in Nat /\ Len(t) \in Nat
         /\ \A i \in 1..Len(s) : (s \o t)[i] = s[i]
         /\ \A i \in 1..Len(t) : (s \o t)[Len(s) + i] = t[i]
<1>1. s \in Seq(Char) /\ t \in Seq(Char)
  BY DEF Text
<1>2. /\ s \o t \in Seq(Char) /\ Len(s \o t) = Len(s) + Len(t)
      /\ \A i \in 1..Len(s) + Len(t) : (s \o t)[i] = IF i <= Len(s) THEN s[i] ELSE t[i - Len(s)]
  BY <1>1, ConcatProperties
<1>3. Len(s) \in Nat /\ Len(t) \in Nat
  BY <1>1, LenProperties
<1>4. ASSUME NEW i \in 1..Len(t) PROVE (s \o t)[Len(s) + i] = t[i]
  BY <1>2, <1>3
<1> QED BY <1>2, <1>3, <1>4 DEF Text

LEMMA Cut ==
  ASSUME NEW s \in Text, NEW d \in 0..Len(s)
  PROVE  /\ Len(s) \in Nat
         /\ From(s, d + 1) \in Text /\ Len(From(s, d + 1)) = Len(s) - d
         /\ \A j \in 1..Len(s) - d : From(s, d + 1)[j] = s[d + j]
<1>1. Len(s) \in Nat
  BY LenProperties DEF Text
<1>2. PICK i \in 1..Len(s) + 1 : i = d + 1
  BY <1>1
<1>3. /\ From(s, i) \in Text /\ Len(From(s, i)) = Len(s) - i + 1
      /\ \A j \in 1..Len(s) - i + 1 : From(s, i)[j] = s[i + j - 1]
  BY FromProperties
<1>4. \A j \in 1..Len(s) - d : From(s, i)[j] = s[d + j]
  <2> SUFFICES ASSUME NEW j \in 1..Len(s) - d PROVE From(s, i)[j] = s[d + j]
    OBVIOUS
  <2>1. j \in 1..Len(s) - i + 1 /\ i + j - 1 = d + j
    BY <1>1, <1>2
  <2> QED BY <1>3, <2>1
<1>5. Len(s) - i + 1 = Len(s) - d
  BY <1>1, <1>2
<1> QED BY <1>1, <1>2, <1>3, <1>4, <1>5

LEMMA CutPieces ==
  ASSUME NEW s \in Text, NEW t \in Text, NEW d \in 0..Len(s)
  PROVE  From(s, d + 1) \o t = From(s \o t, d + 1)
<1>1. Len(s) \in Nat /\ Len(t) \in Nat
  BY Pieced
<1>2. PICK w \in Text : w = s \o t
  BY Pieced
<1>3. /\ Len(w) = Len(s) + Len(t)
      /\ \A i \in 1..Len(s) : w[i] = s[i]
      /\ \A i \in 1..Len(t) : w[Len(s) + i] = t[i]
  BY <1>2, Pieced
<1>4. PICK f \in Text : /\ f = From(s, d + 1) /\ Len(f) = Len(s) - d
                        /\ \A j \in 1..Len(s) - d : f[j] = s[d + j]
  BY Cut
<1>5. PICK a \in Text : /\ a = f \o t /\ Len(a) = Len(s) - d + Len(t)
                        /\ \A i \in 1..Len(s) - d : a[i] = s[d + i]
                        /\ \A i \in 1..Len(t) : a[Len(s) - d + i] = t[i]
  <2>1. PICK a \in Text : a = f \o t
    BY Pieced
  <2>2. /\ Len(f \o t) = Len(f) + Len(t)
        /\ \A i \in 1..Len(f) : (f \o t)[i] = f[i]
        /\ \A i \in 1..Len(t) : (f \o t)[Len(f) + i] = t[i]
    BY Pieced
  <2>3. Len(f) = Len(s) - d /\ \A i \in 1..Len(s) - d : f[i] = s[d + i]
    BY <1>4
  <2>4. \A i \in 1..Len(s) - d : a[i] = s[d + i]
    BY <2>1, <2>2, <2>3
  <2>5. Len(a) = Len(s) - d + Len(t)
    BY <2>1, <2>2, <2>3
  <2>6. \A i \in 1..Len(t) : a[Len(s) - d + i] = t[i]
    BY <2>1, <2>2, <2>3
  <2> QED BY <2>1, <2>4, <2>5, <2>6
<1>6. PICK b \in Text : /\ b = From(w, d + 1) /\ Len(b) = Len(w) - d
                        /\ \A j \in 1..Len(w) - d : b[j] = w[d + j]
  <2>1. d \in 0..Len(w)
    BY <1>1, <1>3
  <2> QED BY <2>1, Cut
<1>7. ASSUME NEW i \in 1..Len(a) PROVE a[i] = b[i]
  <2>1. CASE i <= Len(s) - d
    BY <1>1, <1>3, <1>5, <1>6, <2>1
  <2>2. CASE i > Len(s) - d
    <3>1. PICK j \in 1..Len(t) : i = Len(s) - d + j
      <4>1. i - (Len(s) - d) \in 1..Len(t) /\ i = Len(s) - d + (i - (Len(s) - d))
        BY <1>1, <1>5, <2>2
      <4> QED BY <4>1
    <3>2. a[i] = t[j] /\ w[Len(s) + j] = t[j]
      BY <1>3, <1>5, <3>1
    <3>3. d + i = Len(s) + j /\ i \in 1..Len(w) - d
      BY <1>1, <1>3, <1>5, <3>1
    <3> QED BY <1>6, <3>2, <3>3
  <2> QED BY <1>1, <2>1, <2>2
<1>8. a = b
  <2>1. Len(a) = Len(b) /\ a \in Seq(Char) /\ b \in Seq(Char)
    BY <1>1, <1>3, <1>5, <1>6 DEF Text
  <2> QED BY <1>7, <2>1, SeqEqual
<1> QED BY <1>2, <1>4, <1>5, <1>6, <1>8

(* Codes stay where they were in the text.                                   *)
LEMMA CutCodes ==
  ASSUME NEW s \in Text, NEW d \in 0..Len(s), NEW c \in Codes,
         NEW p \in d + 1..Len(s)
  PROVE  /\ p - d \in 1..Len(From(s, d + 1)) /\ Len(From(s, d + 1)) = Len(s) - d
         /\ AgreesFrom(From(s, d + 1), p - d, c) <=> AgreesFrom(s, p, c)
         /\ CodeAt(From(s, d + 1), p - d, c) <=> CodeAt(s, p, c)
<1>1. Len(s) \in Nat /\ Len(c) \in Nat \ {0}
  BY CodesAreDistinct, LenProperties DEF Text
<1>2. PICK f \in Text : /\ f = From(s, d + 1) /\ Len(f) = Len(s) - d
                        /\ \A j \in 1..Len(s) - d : f[j] = s[d + j]
  BY Cut
<1>3. AgreesFrom(f, p - d, c) <=> AgreesFrom(s, p, c)
  <2>1. ASSUME NEW n \in 1..Len(c), p + n - 1 <= Len(s)
        PROVE  f[p - d + n - 1] = s[p + n - 1]
    <3>1. p - d + n - 1 \in 1..Len(s) - d /\ d + (p - d + n - 1) = p + n - 1
      BY <1>1, <2>1
    <3> QED BY <1>2, <3>1
  <2>2. \A n \in 1..Len(c) : p - d + n - 1 <= Len(f) <=> p + n - 1 <= Len(s)
    BY <1>1, <1>2
  <2> QED BY <2>1, <2>2 DEF AgreesFrom
<1>4. p - d + Len(c) - 1 <= Len(f) <=> p + Len(c) - 1 <= Len(s)
  BY <1>1, <1>2
<1> QED BY <1>1, <1>2, <1>3, <1>4 DEF CodeAt

LEMMA CutDecided ==
  ASSUME NEW s \in Text, NEW d \in 0..Len(s), NEW before, NEW known, NEW v,
         Decided(s, 1, before, v),
         \A p \in 1..d, c \in Codes :
           CodeAt(s, p, c) /\ NoCodeFrom(s, p + 1) => known = Entered(c),
         NoCodeFrom(s, 1) => known = before
  PROVE  Decided(From(s, d + 1), 1, known, v)
<1>1. Len(s) \in Nat
  BY LenProperties DEF Text
<1>2. PICK f : f = From(s, d + 1) /\ Len(f) = Len(s) - d
  BY Cut
<1>3. ASSUME NEW p \in d..Len(s), NoCodeFrom(s, p + 1) PROVE NoCodeFrom(f, p - d + 1)
  <2> SUFFICES ASSUME NEW q \in p - d + 1..Len(f), NEW c \in Codes, CodeAt(f, q, c) PROVE FALSE
    BY DEF NoCodeFrom
  <2>1. PICK r \in p + 1..Len(s) : r - d = q /\ r \in d + 1..Len(s)
    <3>1. q + d \in p + 1..Len(s) /\ (q + d) - d = q /\ q + d \in d + 1..Len(s)
      BY <1>1, <1>2
    <3> QED BY <3>1
  <2>2. CodeAt(s, r, c)
    BY <1>2, <2>1, CutCodes
  <2> QED BY <1>3, <2>1, <2>2 DEF NoCodeFrom
<1>4. CASE \E p \in 1..Len(s), c \in Codes :
             CodeAt(s, p, c) /\ NoCodeFrom(s, p + 1) /\ v = Entered(c)
  <2>1. PICK p \in 1..Len(s), c \in Codes :
               CodeAt(s, p, c) /\ NoCodeFrom(s, p + 1) /\ v = Entered(c)
    BY <1>4
  <2>2. CASE p > d
    <3>1. p \in d + 1..Len(s) /\ p - d \in 1..Len(f)
      BY <1>1, <1>2, <2>2
    <3>2. CodeAt(f, p - d, c)
      BY <1>2, <2>1, <3>1, CutCodes
    <3>3. NoCodeFrom(f, p - d + 1)
      BY <1>1, <1>3, <2>1, <3>1
    <3> QED BY <1>2, <2>1, <3>1, <3>2, <3>3 DEF Decided
  <2>3. CASE p <= d
    <3>1. known = Entered(c)
      BY <1>1, <2>1, <2>3
    <3>2. NoCodeFrom(s, d + 1)
      BY <1>1, <2>1, <2>3 DEF NoCodeFrom
    <3>3. NoCodeFrom(f, 1)
      BY <1>1, <1>3, <3>2
    <3> QED BY <1>2, <2>1, <3>1, <3>3 DEF Decided
  <2> QED BY <1>1, <2>2, <2>3
<1>5. CASE v = before /\ NoCodeFrom(s, 1)
  <2>1. NoCodeFrom(s, d + 1)
    BY <1>1, <1>5 DEF NoCodeFrom
  <2>2. NoCodeFrom(f, 1)
    BY <1>1, <1>3, <2>1
  <2> QED BY <1>2, <1>5, <2>2 DEF Decided
<1> QED BY <1>4, <1>5 DEF Decided

LEMMA CutNothingBegun ==
  ASSUME NEW s \in Text, NEW d \in 0..Len(s), NothingBegun(s)
  PROVE  NothingBegun(From(s, d + 1))
<1>1. Len(s) \in Nat
  BY LenProperties DEF Text
<1>2. PICK f : f = From(s, d + 1) /\ Len(f) = Len(s) - d
  BY Cut
<1>3. ASSUME NEW q \in 1..Len(f), NEW c \in Codes, AgreesFrom(f, q, c) PROVE CodeAt(f, q, c)
  <2>1. PICK p \in d + 1..Len(s) : p - d = q /\ p \in 1..Len(s)
    <3>1. q + d \in d + 1..Len(s) /\ (q + d) - d = q /\ q + d \in 1..Len(s)
      BY <1>1, <1>2
    <3> QED BY <3>1
  <2>2. AgreesFrom(s, p, c)
    BY <1>2, <1>3, <2>1, CutCodes
  <2>3. CodeAt(s, p, c)
    BY <2>1, <2>2 DEF NothingBegun
  <2> QED BY <1>2, <2>1, <2>3, CutCodes
<1> QED BY <1>2, <1>3 DEF NothingBegun

-----------------------------------------------------------------------------
(* Reading and writing *)

LEMMA CodesInFront ==
  ASSUME NEW s \in Text, NEW t \in Text, NEW p \in 1..Len(s), NEW c \in Codes
  PROVE  /\ AgreesFrom(s \o t, p, c) => AgreesFrom(s, p, c)
         /\ CodeAt(s, p, c) => CodeAt(s \o t, p, c)
         /\ p + Len(c) - 1 <= Len(s) /\ CodeAt(s \o t, p, c) => CodeAt(s, p, c)
<1>1. Len(c) \in Nat \ {0}
  BY CodesAreDistinct
<1>2. PICK w \in Text : w = s \o t
  BY Pieced
<1>3. /\ Len(s) \in Nat /\ Len(t) \in Nat /\ Len(w) = Len(s) + Len(t)
      /\ \A i \in 1..Len(s) : w[i] = s[i]
  BY <1>2, Pieced
<1>4. ASSUME NEW n \in 1..Len(c), p + n - 1 <= Len(s) PROVE w[p + n - 1] = s[p + n - 1]
  <2>1. p + n - 1 \in 1..Len(s)
    BY <1>1, <1>3, <1>4
  <2> QED BY <1>3, <2>1
<1>5. AgreesFrom(w, p, c) => AgreesFrom(s, p, c)
  <2>1. ASSUME NEW n \in 1..Len(c), p + n - 1 <= Len(s), AgreesFrom(w, p, c)
        PROVE  s[p + n - 1] = c[n]
    <3>1. p + n - 1 <= Len(w)
      BY <1>1, <1>3, <2>1
    <3>2. w[p + n - 1] = c[n]
      BY <2>1, <3>1 DEF AgreesFrom
    <3> QED BY <1>4, <2>1, <3>2
  <2> QED BY <2>1 DEF AgreesFrom
<1>6. p + Len(c) - 1 <= Len(s) =>
        /\ \A n \in 1..Len(c) : p + n - 1 <= Len(s)
        /\ p + Len(c) - 1 <= Len(w)
  BY <1>1, <1>3
<1>7. p + Len(c) - 1 <= Len(s) => (AgreesFrom(w, p, c) <=> AgreesFrom(s, p, c))
  BY <1>4, <1>5, <1>6 DEF AgreesFrom
<1> QED BY <1>2, <1>5, <1>6, <1>7 DEF CodeAt

(* There is one last code only.                                              *)
LEMMA LastCodeDecides ==
  ASSUME NEW s \in Text, NEW before, NEW v, Decided(s, 1, before, v)
  PROVE  /\ \A p \in 1..Len(s), c \in Codes :
              CodeAt(s, p, c) /\ NoCodeFrom(s, p + 1) => v = Entered(c)
         /\ NoCodeFrom(s, 1) => v = before
<1>1. Len(s) \in Nat
  BY LenProperties DEF Text
<1>2. ASSUME NEW p \in 1..Len(s), NEW c \in Codes, CodeAt(s, p, c), NoCodeFrom(s, p + 1)
      PROVE  v = Entered(c)
  <2>1. PICK q \in 1..Len(s), d \in Codes :
          CodeAt(s, q, d) /\ NoCodeFrom(s, q + 1) /\ v = Entered(d)
    BY <1>1, <1>2 DEF Decided, NoCodeFrom
  <2>2. p = q
    BY <1>1, <1>2, <2>1 DEF NoCodeFrom
  <2>3. c = d \/ p + Len(c) <= p
    BY <1>1, <1>2, <2>1, <2>2, CodesApart
  <2>4. Len(c) \in Nat \ {0}
    BY CodesAreDistinct
  <2> QED BY <2>1, <2>3, <2>4
<1>3. NoCodeFrom(s, 1) => v = before
  BY <1>1 DEF Decided, NoCodeFrom
<1> QED BY <1>2, <1>3

Kept(u) == Larger(0, Len(u) - Larger(Len(smcup), Len(rmcup)))

(* What is kept of the text that has been searched is enough for the codes    *)
(* that end in what is read later.                                           *)
LEMMA ReadingDecides ==
  ASSUME NEW u \in Text, NEW rest \in Text, NEW before, NEW known, NEW v,
         Decided(u, 1, before, known), Decided(u \o rest, 1, before, v)
  PROVE  /\ LastBytes(u) \in Text
         /\ Decided(LastBytes(u), 1, known, known)
         /\ Decided(LastBytes(u) \o rest, 1, known, v)
         /\ NothingBegun(u \o rest) => NothingBegun(LastBytes(u) \o rest)
<1>1. Len(u) \in Nat /\ \A c \in Codes : Len(c) \in Nat \ {0}
  BY CodesAreDistinct, LenProperties DEF Text
<1>2. PICK d \in 0..Len(u) : /\ d = Kept(u)
                            /\ \A c \in Codes, p \in 1..d : p + Len(c) - 1 <= Len(u)
  <2>1. \A c \in Codes : c = smcup \/ c = rmcup
    BY DEF Codes
  <2>2. PICK a \in Nat, b \in Nat : a = Len(smcup) /\ b = Len(rmcup)
    BY <1>1 DEF Codes
  <2>3. PICK m \in Nat : m = Larger(a, b) /\ a <= m /\ b <= m
    BY DEF Larger
  <2>4. \A c \in Codes : Len(c) \in Nat /\ Len(c) <= m
    BY <2>1, <2>2, <2>3
  <2>5. PICK d \in 0..Len(u) : d = Larger(0, Len(u) - m) /\ (d = 0 \/ d + m = Len(u))
    BY <1>1 DEF Larger
  <2>6. d = Kept(u)
    BY <2>2, <2>3, <2>5 DEF Kept
  <2>7. \A c \in Codes, p \in 1..d : p + Len(c) - 1 <= Len(u)
    BY <1>1, <2>4, <2>5
  <2> QED BY <2>6, <2>7
<1>3. PICK w \in Text : w = u \o rest
  BY Pieced
<1>4. Len(w) \in Nat /\ Len(u) <= Len(w)
  <2>1. Len(u \o rest) = Len(u) + Len(rest) /\ Len(rest) \in Nat
    BY Pieced
  <2> QED BY <1>1, <1>3, <2>1
<1>5. /\ \A p \in 1..Len(u), c \in Codes : CodeAt(u, p, c) => CodeAt(w, p, c)
      /\ \A p \in 1..d, c \in Codes : CodeAt(w, p, c) => CodeAt(u, p, c)
  <2>1. ASSUME NEW p \in 1..Len(u), NEW c \in Codes
        PROVE  /\ CodeAt(u, p, c) => CodeAt(w, p, c)
               /\ p + Len(c) - 1 <= Len(u) /\ CodeAt(w, p, c) => CodeAt(u, p, c)
    BY <1>3, CodesInFront
  <2>2. \A p \in 1..d : p \in 1..Len(u)
    BY <1>1
  <2> QED BY <1>2, <2>1, <2>2
<1>6. LastBytes(u) = From(u, d + 1)
  BY <1>2 DEF LastBytes, Kept
<1>7. /\ \A p \in 1..Len(u), c \in Codes :
           CodeAt(u, p, c) /\ NoCodeFrom(u, p + 1) => known = Entered(c)
      /\ NoCodeFrom(u, 1) => known = before
  BY LastCodeDecides
<1>8. \A p \in 0..Len(u) : NoCodeFrom(w, p + 1) => NoCodeFrom(u, p + 1)
  BY <1>1, <1>4, <1>5 DEF NoCodeFrom
<1>9. Decided(From(u, d + 1), 1, known, known)
  <2>1. \A p \in 1..d, c \in Codes :
          CodeAt(u, p, c) /\ NoCodeFrom(u, p + 1) => known = Entered(c)
    BY <1>1, <1>7
  <2> QED BY <1>7, <2>1, CutDecided
<1>10. Decided(From(w, d + 1), 1, known, v)
  <2>1. d \in 0..Len(w)
    BY <1>1, <1>4
  <2>2. ASSUME NEW p \in 1..d, NEW c \in Codes, CodeAt(w, p, c), NoCodeFrom(w, p + 1)
        PROVE  known = Entered(c)
    <3>1. p \in 1..Len(u) /\ p \in 0..Len(u)
      BY <1>1
    <3>2. CodeAt(u, p, c) /\ NoCodeFrom(u, p + 1)
      BY <1>5, <1>8, <2>2, <3>1
    <3> QED BY <1>7, <3>1, <3>2
  <2>3. NoCodeFrom(w, 1) => known = before
    BY <1>1, <1>7, <1>8
  <2>4. Decided(w, 1, before, v)
    BY <1>3
  <2> QED BY <2>1, <2>2, <2>3, <2>4, CutDecided
<1>11. From(u, d + 1) \o rest = From(w, d + 1)
  BY <1>3, CutPieces
<1>12. NothingBegun(w) => NothingBegun(From(w, d + 1))
  <2>1. d \in 0..Len(w)
    BY <1>1, <1>4
  <2> QED BY <2>1, CutNothingBegun
<1>13. From(u, d + 1) \in Text
  BY Cut
<1> QED BY <1>3, <1>6, <1>9, <1>10, <1>11, <1>12, <1>13

LEMMA WritingDecides ==
  ASSUME NEW s \in Text, NEW t \in Text, NothingBegun(s),
         \A k \in 1..Len(t), c \in Codes : AgreesFrom(t, k, c) => k = 1 /\ t = c,
         NEW before, NEW v, Decided(s, 1, before, v)
  PROVE  /\ NothingBegun(s \o t)
         /\ t \notin Codes => Decided(s \o t, 1, before, v)
         /\ t \in Codes => Decided(s \o t, 1, before, Entered(t))
<1>1. PICK w \in Text : w = s \o t
  <2>1. s \o t \in Text
    BY Pieced
  <2> QED BY <2>1
<1>2. /\ Len(s) \in Nat /\ Len(t) \in Nat /\ Len(w) = Len(s) + Len(t)
      /\ \A i \in 1..Len(t) : w[Len(s) + i] = t[i]
  <2>1. /\ Len(s) \in Nat /\ Len(t) \in Nat /\ Len(s \o t) = Len(s) + Len(t)
        /\ \A i \in 1..Len(t) : (s \o t)[Len(s) + i] = t[i]
    BY Pieced
  <2> QED BY <1>1, <2>1
<1>3. \A c \in Codes : Len(c) \in Nat \ {0}
  BY CodesAreDistinct
<1>4. \A p \in 1..Len(s), c \in Codes :
        /\ AgreesFrom(w, p, c) => CodeAt(s, p, c)
        /\ CodeAt(s, p, c) => CodeAt(w, p, c)
  BY <1>1, CodesInFront DEF NothingBegun
<1>5. ASSUME NEW p \in Len(s) + 1..Len(w), NEW c \in Codes
      PROVE  AgreesFrom(w, p, c) => p = Len(s) + 1 /\ t = c
  <2>1. PICK k \in 1..Len(t) : p = Len(s) + k
    <3>1. p - Len(s) \in 1..Len(t) /\ p = Len(s) + (p - Len(s))
      BY <1>2
    <3> QED BY <3>1
  <2>2. ASSUME NEW n \in 1..Len(c), k + n - 1 <= Len(t), AgreesFrom(w, p, c)
        PROVE  t[k + n - 1] = c[n]
    <3>1. PICK m \in 1..Len(t) : m = k + n - 1
      BY <1>2, <1>3, <2>2
    <3>2. p + n - 1 = Len(s) + m /\ p + n - 1 <= Len(w)
      BY <1>2, <1>3, <2>1, <3>1
    <3>3. w[p + n - 1] = c[n]
      BY <2>2, <3>2 DEF AgreesFrom
    <3> QED BY <1>2, <3>1, <3>2, <3>3
  <2>3. AgreesFrom(w, p, c) => AgreesFrom(t, k, c)
    BY <2>2 DEF AgreesFrom
  <2>4. AgreesFrom(t, k, c) => k = 1 /\ t = c
    OBVIOUS
  <2> QED BY <2>1, <2>3, <2>4
<1>6. ASSUME t \in Codes PROVE CodeAt(w, Len(s) + 1, t)
  <2>1. \A n \in 1..Len(t) : w[(Len(s) + 1) + n - 1] = t[n]
    <3> SUFFICES ASSUME NEW n \in 1..Len(t) PROVE w[(Len(s) + 1) + n - 1] = t[n]
      OBVIOUS
    <3>1. (Len(s) + 1) + n - 1 = Len(s) + n
      BY <1>2
    <3> QED BY <1>2, <3>1
  <2>2. (Len(s) + 1) + Len(t) - 1 <= Len(w)
    BY <1>2
  <2> QED BY <2>1, <2>2 DEF CodeAt, AgreesFrom
<1>7. NothingBegun(w)
  <2> SUFFICES ASSUME NEW p \in 1..Len(w), NEW c \in Codes, AgreesFrom(w, p, c)
               PROVE  CodeAt(w, p, c)
    BY DEF NothingBegun
  <2>1. CASE p <= Len(s)
    BY <1>2, <1>4, <2>1
  <2>2. CASE p > Len(s)
    <3>1. p \in Len(s) + 1..Len(w)
      BY <1>2, <2>2
    <3>2. p = Len(s) + 1 /\ t = c
      BY <1>5, <3>1
    <3> QED BY <1>6, <3>2
  <2> QED BY <1>2, <2>1, <2>2
<1>8. ASSUME t \in Codes PROVE Decided(w, 1, before, Entered(t))
  <2>1. Len(s) + 1 \in 1..Len(w)
    BY <1>2, <1>3, <1>8
  <2>2. ASSUME NEW q \in (Len(s) + 1) + 1..Len(w), NEW c \in Codes, CodeAt(w, q, c) PROVE FALSE
    <3>1. q \in Len(s) + 1..Len(w) /\ q # Len(s) + 1
      BY <1>2
    <3> QED BY <1>5, <2>2, <3>1 DEF CodeAt
  <2>3. NoCodeFrom(w, (Len(s) + 1) + 1)
    BY <2>2 DEF NoCodeFrom
  <2> QED BY <1>6, <1>8, <2>1, <2>3 DEF Decided
<1>9. ASSUME t \notin Codes PROVE Decided(w, 1, before, v)
  <2>1. ASSUME NEW p \in 0..Len(s), NoCodeFrom(s, p + 1) PROVE NoCodeFrom(w, p + 1)
    <3> SUFFICES ASSUME NEW q \in p + 1..Len(w), NEW c \in Codes, CodeAt(w, q, c) PROVE FALSE
      BY DEF NoCodeFrom
    <3>1. AgreesFrom(w, q, c)
      BY DEF CodeAt
    <3>2. CASE q <= Len(s)
      <4>1. q \in 1..Len(s) /\ q \in p + 1..Len(s)
        BY <1>2, <3>2
      <4> QED BY <1>4, <2>1, <3>1, <4>1 DEF NoCodeFrom
    <3>3. CASE q > Len(s)
      <4>1. q \in Len(s) + 1..Len(w)
        BY <1>2, <3>3
      <4> QED BY <1>5, <1>9, <3>1, <4>1
    <3> QED BY <1>2, <3>2, <3>3
  <2>2. CASE v = before /\ NoCodeFrom(s, 1)
    <3>1. NoCodeFrom(w, 1)
      BY <1>2, <2>1, <2>2
    <3> QED BY <2>2, <3>1 DEF Decided
  <2>3. CASE \E p \in 1..Len(s), c \in Codes :
               CodeAt(s, p, c) /\ NoCodeFrom(s, p + 1) /\ v = Entered(c)
    <3>1. PICK p \in 1..Len(s), c \in Codes :
                 CodeAt(s, p, c) /\ NoCodeFrom(s, p + 1) /\ v = Entered(c)
      BY <2>3
    <3>2. p \in 0..Len(s) /\ p \in 1..Len(w)
      BY <1>2
    <3>3. CodeAt(w, p, c) /\ NoCodeFrom(w, p + 1)
      BY <1>4, <2>1, <3>1, <3>2
    <3> QED BY <3>1, <3>2, <3>3 DEF Decided
  <2> QED BY <2>2, <2>3 DEF Decided
<1> QED BY <1>1, <1>7, <1>8, <1>9
-----------------------------------------------------------------------------
(* The invariant *)

LEMMA JoinedText ==
  ASSUME NEW s \in Text, NEW t \in Text, NEW u \in Text
  PROVE  s \o (t \o u) = (s \o t) \o u
<1>1. s \in Seq(Char) /\ t \in Seq(Char) /\ u \in Seq(Char)
  BY DEF Text
<1> QED BY <1>1, ConcatAssociative

LEMMA NothingToCopy ==
  /\ <<>> \in Text /\ Len(<<>>) = 0 /\ remove_padding(<<>>) = <<>>
  /\ \A s \in Text : s \o <<>> = s
<1>1. <<>> \in Text /\ Len(<<>>) = 0
  BY EmptySeq DEF Text
<1>2. PICK g \in [0..Len(<<>>) -> Text] :
        Copies(g, <<>>) /\ remove_padding(<<>>) = g[Len(<<>>)]
  BY <1>1, RemovePadding
<1>3. remove_padding(<<>>) = <<>>
  BY <1>1, <1>2 DEF Copies
<1>4. \A s \in Text : s \o <<>> = s
  BY ConcatEmptySeq DEF Text
<1> QED BY <1>1, <1>3, <1>4

LEMMA ScreenStarts ==
  Init => ScreenInv
<1> SUFFICES ASSUME Init PROVE ScreenInv
  OBVIOUS
<1>1. /\ pty = <<>> /\ still_unchecked = <<>>
      /\ screen_is_alternate = FALSE /\ alternate = FALSE
  BY DEF Init, TextInit
<1>2. ToBeSearched = <<>>
  BY <1>1, NothingToCopy DEF ToBeSearched
<1>3. Decided(<<>>, 1, FALSE, FALSE) /\ NothingBegun(<<>>)
  BY NothingToCopy DEF Decided, NoCodeFrom, NothingBegun
<1> QED BY <1>1, <1>2, <1>3, NothingToCopy DEF ScreenInv

LEMMA WritingKeepsScreen ==
  ASSUME ScreenInv, NEW piece \in Pieces, Writes(piece)
  PROVE  ScreenInv'
<1>1. /\ pty' = pty \o piece
      /\ alternate' = (CASE piece = smcup -> TRUE [] piece = rmcup -> FALSE [] OTHER -> alternate)
      /\ still_unchecked' = still_unchecked /\ screen_is_alternate' = screen_is_alternate
  BY DEF Writes
<1>2. pty \in Text /\ still_unchecked \in Text /\ piece \in Text
  BY CodesAssumption DEF ScreenInv
<1>3. PICK t \in Text : t = remove_padding(piece)
  BY <1>2, PaddingIsText
<1>4. PICK s \in Text : s = ToBeSearched
  <2>1. remove_padding(pty) \in Text
    BY <1>2, PaddingIsText
  <2> QED BY <1>2, <2>1, Pieced DEF ToBeSearched
<1>5. ToBeSearched' = s \o t
  <2>1. remove_padding(pty \o piece) = remove_padding(pty) \o t
    BY <1>2, <1>3, PaddingOfPieces
  <2>2. remove_padding(pty) \in Text
    BY <1>2, PaddingIsText
  <2>3. still_unchecked \o (remove_padding(pty) \o t) =
          (still_unchecked \o remove_padding(pty)) \o t
    <3>1. PICK a \in Text, b \in Text : a = still_unchecked /\ b = remove_padding(pty)
      BY <1>2, <2>2
    <3>2. a \o (b \o t) = (a \o b) \o t
      BY JoinedText
    <3> QED BY <3>1, <3>2
  <2> QED BY <1>1, <1>4, <2>1, <2>3 DEF ToBeSearched
<1>6. /\ \A k \in 1..Len(t), c \in Codes : AgreesFrom(t, k, c) => k = 1 /\ piece = c
      /\ \A c \in Codes : remove_padding(c) = c
  BY <1>3, CodesAssumption DEF Codes
<1>7. \A k \in 1..Len(t), c \in Codes : AgreesFrom(t, k, c) => k = 1 /\ t = c
  BY <1>3, <1>6
<1>8. t \in Codes => piece = t
  <2> SUFFICES ASSUME t \in Codes PROVE piece = t
    OBVIOUS
  <2>1. 1 \in 1..Len(t) /\ Len(t) \in Nat
    BY CodesAreDistinct
  <2>2. AgreesFrom(t, 1, t)
    <3>1. \A n \in 1..Len(t) : 1 + n - 1 = n
      BY <2>1
    <3> QED BY <3>1 DEF AgreesFrom
  <2> QED BY <1>6, <2>1, <2>2
<1>9. Decided(s, 1, screen_is_alternate, alternate) /\ NothingBegun(s)
  BY <1>4 DEF ScreenInv
<1>10. /\ NothingBegun(s \o t)
       /\ t \notin Codes => Decided(s \o t, 1, screen_is_alternate, alternate)
       /\ t \in Codes => Decided(s \o t, 1, screen_is_alternate, Entered(t))
  BY <1>7, <1>9, WritingDecides
<1>11. Decided(s \o t, 1, screen_is_alternate, alternate') /\ alternate' \in BOOLEAN
  <2>1. CASE piece = smcup
    <3>1. t = smcup /\ alternate' = TRUE
      BY <1>1, <1>3, <2>1, CodesAreDistinct
    <3> QED BY <1>10, <3>1, CodesAreDistinct
  <2>2. CASE piece = rmcup
    <3>1. t = rmcup /\ alternate' = FALSE
      BY <1>1, <1>3, <2>2, CodesAreDistinct
    <3> QED BY <1>10, <3>1, CodesAreDistinct
  <2>3. CASE piece \notin Codes
    <3>1. t \notin Codes /\ alternate' = alternate
      BY <1>1, <1>8, <2>3 DEF Codes
    <3> QED BY <1>10, <3>1 DEF ScreenInv
  <2> QED BY <2>1, <2>2, <2>3 DEF Codes
<1>12. pty' \in Text
  BY <1>1, <1>2, Pieced
<1> QED BY <1>1, <1>5, <1>10, <1>11, <1>12 DEF ScreenInv

LEMMA ReadingKeepsScreen ==
  ASSUME ScreenInv, NEW n \in 1..Len(pty), ReadBlockOf(n)
  PROVE  ScreenInv'
<1>1. PICK buf : buf = remove_padding(SubSeq(pty, 1, n))
  OBVIOUS
<1>2. /\ pty' = From(pty, n + 1) /\ alternate' = alternate
      /\ screen_is_alternate' = SearchCodes(still_unchecked \o buf, screen_is_alternate)
      /\ still_unchecked' = LastBytes(still_unchecked \o buf)
  BY <1>1 DEF ReadBlockOf, check_cupcodes
<1>3. pty \in Text /\ still_unchecked \in Text /\ Len(pty) \in Nat
  BY LenProperties DEF ScreenInv, Text
<1>4. SubSeq(pty, 1, n) \in Text /\ pty' \in Text
  <2>1. n \in 0..Len(pty) /\ \A k \in 1..n : k \in 1..Len(pty)
    BY <1>3
  <2>2. From(pty, n + 1) \in Text
    BY <1>3, <2>1, Cut
  <2>3. pty \in Seq(Char) /\ \A k \in 1..n : pty[k] \in Char
    BY <1>3, <2>1, ElementOfSeq DEF Text
  <2>4. SubSeq(pty, 1, n) \in Seq(Char)
    BY <2>1, <2>3, SubSeqProperties
  <2> QED BY <1>2, <2>2, <2>4 DEF Text
<1>5. pty = SubSeq(pty, 1, n) \o pty'
  <2>1. pty \in Seq(Char) /\ n \in 0..Len(pty)
    BY <1>3 DEF Text
  <2>2. SubSeq(pty, 1, n) \o SubSeq(pty, n + 1, Len(pty)) = SubSeq(pty, 1, Len(pty))
    BY <1>3, <2>1, ConcatAdjacentSubSeq
  <2>3. SubSeq(pty, 1, Len(pty)) = pty
    BY <2>1, SubSeqFull
  <2> QED BY <1>2, <2>2, <2>3 DEF From
<1>6. PICK rest \in Text : rest = remove_padding(pty')
  BY <1>4, PaddingIsText
<1>7. buf \in Text
  BY <1>1, <1>4, PaddingIsText
<1>8. PICK u \in Text : u = still_unchecked \o buf
  BY <1>3, <1>7, Pieced
<1>9. ToBeSearched = u \o rest
  <2>1. remove_padding(pty) = buf \o rest
    BY <1>1, <1>4, <1>5, <1>6, PaddingOfPieces
  <2>2. still_unchecked \o (buf \o rest) = (still_unchecked \o buf) \o rest
    <3>1. PICK a \in Text, b \in Text : a = still_unchecked /\ b = buf
      BY <1>3, <1>7
    <3>2. a \o (b \o rest) = (a \o b) \o rest
      BY JoinedText
    <3> QED BY <3>1, <3>2
  <2> QED BY <1>8, <2>1, <2>2 DEF ToBeSearched
<1>10. screen_is_alternate \in BOOLEAN /\ alternate \in BOOLEAN
  BY DEF ScreenInv
<1>11. /\ screen_is_alternate' \in BOOLEAN
       /\ Decided(u, 1, screen_is_alternate, screen_is_alternate')
  BY <1>2, <1>8, <1>10, SearchDecides
<1>12. /\ Decided(u \o rest, 1, screen_is_alternate, alternate)
       /\ NothingBegun(u \o rest)
  BY <1>9 DEF ScreenInv
<1>13. /\ LastBytes(u) \in Text
       /\ Decided(LastBytes(u), 1, screen_is_alternate', screen_is_alternate')
       /\ Decided(LastBytes(u) \o rest, 1, screen_is_alternate', alternate)
       /\ NothingBegun(LastBytes(u) \o rest)
  BY <1>11, <1>12, ReadingDecides
<1>14. still_unchecked' = LastBytes(u) /\ ToBeSearched' = LastBytes(u) \o rest
  BY <1>2, <1>6, <1>8 DEF ToBeSearched
<1> QED BY <1>2, <1>4, <1>10, <1>11, <1>13, <1>14 DEF ScreenInv

LEMMA OthersKeepScreen ==
  ASSUME ScreenInv, UNCHANGED <<pty, still_unchecked, screen_is_alternate, alternate>>
  PROVE  ScreenInv'
BY DEF ScreenInv, ToBeSearched

(* What rlwrap knows about the screen, and the end of the output that it has  *)
(* kept, always suffice to find out, from what it has not read, on which       *)
(* screen the command is (check_cupcodes(), and the reads before it).         *)
THEOREM ScreenInvariant == Spec => []ScreenInv
<1>1. Init => ScreenInv
  BY ScreenStarts
<1>2. ScreenInv /\ [Next]_vars => ScreenInv'
  <2> SUFFICES ASSUME ScreenInv, [Next]_vars PROVE ScreenInv'
    OBVIOUS
  <2>1. CASE \E piece \in Pieces : Writes(piece)
    BY <2>1, WritingKeepsScreen
  <2>2. CASE \E n \in 1..Len(pty) : ReadBlock(n) \/ ReadWithinEdit(n)
    <3>1. PICK n \in 1..Len(pty) : ReadBlockOf(n)
      BY <2>2 DEF ReadBlock, ReadWithinEdit
    <3> QED BY <3>1, ReadingKeepsScreen
  <2>3. CASE StartEdit
    BY <2>3, OthersKeepScreen DEF StartEdit
  <2>4. CASE EditKey
    <3>1. UNCHANGED textVars
      BY <2>4 DEF EditKey, Key, self_insert, rubout, backward_char, forward_char,
                  beginning_of_line, end_of_line, unix_line_discard
    <3> QED BY <3>1, OthersKeepScreen DEF textVars
  <2>5. CASE AcceptLine
    BY <2>5, OthersKeepScreen DEF AcceptLine
  <2>6. CASE \E width \in Widths : Resize(width)
    BY <2>6, OthersKeepScreen DEF Resize
  <2>7. CASE UNCHANGED vars
    BY <2>7, OthersKeepScreen DEF vars, textVars
  <2> QED BY <2>1, <2>2, <2>3, <2>4, <2>5, <2>6, <2>7 DEF Next
<1> QED BY <1>1, <1>2, PTL DEF Spec

(* When all output has been read, rlwrap knows which screen the command is    *)
(* on, wherever the blocks in which it read the output began and ended.       *)
THEOREM AlternateScreenAlwaysKnown == Spec => []AlternateScreenKnown
<1>1. ScreenInv => AlternateScreenKnown
  <2> SUFFICES ASSUME ScreenInv, pty = <<>> PROVE screen_is_alternate = alternate
    BY DEF AlternateScreenKnown
  <2>1. still_unchecked \in Text
    BY DEF ScreenInv
  <2>2. ToBeSearched = still_unchecked
    BY <2>1, NothingToCopy DEF ToBeSearched
  <2>3. /\ Decided(still_unchecked, 1, screen_is_alternate, screen_is_alternate)
        /\ Decided(still_unchecked, 1, screen_is_alternate, alternate)
    BY <2>2 DEF ScreenInv
  <2>4. /\ \A p \in 1..Len(still_unchecked), c \in Codes :
             CodeAt(still_unchecked, p, c) /\ NoCodeFrom(still_unchecked, p + 1) =>
               screen_is_alternate = Entered(c)
        /\ NoCodeFrom(still_unchecked, 1) => screen_is_alternate = screen_is_alternate
    BY <2>1, <2>3, LastCodeDecides
  <2> QED BY <2>3, <2>4 DEF Decided
<1> QED BY <1>1, ScreenInvariant, PTL

-----------------------------------------------------------------------------
(* my_homegrown_redisplay() *)

(* What is on the terminal, and what the function remembers. *)
Displays ==
  [line_start : Nat, line_extends_left : {0, 1}, line_extends_right : {0, 1},
   previous_line : Text \cup {NULL}, row : Text, cursor : Int, foreign : BOOLEAN,
   asserted : BOOLEAN]

(* Where the displayed part begins is such that the cursor is on the row, and  *)
(* the row is full unless it shows the end; a prompt that fits is all shown.   *)
OnRow(d, width, promptlen, invisible, curpos, total) ==
  LET v == VirtualStart(d, width, promptlen, invisible, curpos, total)
      vls == IF v <= invisible THEN invisible ELSE Larger(v, promptlen)
      ls == IF v <= invisible THEN 0 ELSE vls
      pw == IF ls > 0 THEN width ELSE width + invisible
      pl == Smaller(pw, total - ls)
  IN  /\ vls \in Nat /\ ls \in Nat /\ pw \in Nat /\ pl \in Nat
      /\ \/ ls = 0 /\ vls = invisible
         \/ ls > 0 /\ vls = ls /\ promptlen <= ls /\ ls <= curpos
      /\ curpos - vls \in 0..width
      /\ curpos <= ls + pl /\ ls + pl <= total
      /\ pl <= pw /\ (ls + pl = total \/ pl = pw)
      /\ (d.line_start = 0 /\ curpos = total /\ total - invisible < width => ls = 0)

LEMMA CursorIsOnRow ==
  ASSUME NEW width \in Nat, width >= 2, NEW promptlen \in Nat, NEW invisible \in 0..promptlen,
         NEW curpos \in Nat, promptlen <= curpos, NEW total \in Nat, curpos <= total,
         NEW d \in Displays
  PROVE  OnRow(d, width, promptlen, invisible, curpos, total)
<1> DEFINE v == VirtualStart(d, width, promptlen, invisible, curpos, total)
           vls == IF v <= invisible THEN invisible ELSE Larger(v, promptlen)
           ls == IF v <= invisible THEN 0 ELSE vls
           pw == IF ls > 0 THEN width ELSE width + invisible
           pl == Smaller(pw, total - ls)
           skip == Larger(1, Smaller(width \div 5, 10))
           before == IF d.line_start > promptlen THEN d.line_start ELSE invisible
           l == d.line_extends_left
           r == d.line_extends_right
<1>1. skip \in Nat /\ skip >= 1 /\ skip + 1 <= width
  <2>1. width \div 5 \in Nat /\ 5 * (width \div 5) <= width
    OBVIOUS
  <2> QED BY <2>1 DEF Larger, Smaller
<1>2. d.line_start \in Nat /\ l \in {0, 1} /\ r \in {0, 1}
  BY DEF Displays
<1>3. v = IF curpos - before > width - r THEN curpos - width + r + skip
          ELSE IF curpos >= before + l THEN before
          ELSE IF curpos = total THEN Larger(0, total - width)
          ELSE curpos - l - skip
  BY DEF VirtualStart
<1>4. before \in Nat /\ (before = invisible \/ before > promptlen)
  BY <1>2
<1> HIDE DEF skip, before, l, r, v
<1>5. v \in Int
  BY <1>1, <1>2, <1>3, <1>4 DEF Larger
<1>6. ASSUME v <= invisible
      PROVE  /\ vls \in Nat /\ ls \in Nat /\ pw \in Nat /\ pl \in Nat
             /\ \/ ls = 0 /\ vls = invisible
                \/ ls > 0 /\ vls = ls /\ promptlen <= ls /\ ls <= curpos
             /\ curpos - vls \in 0..width
             /\ curpos <= ls + pl /\ ls + pl <= total
             /\ pl <= pw /\ (ls + pl = total \/ pl = pw)
             /\ (d.line_start = 0 /\ curpos = total /\ total - invisible < width => ls = 0)
  <2>1. vls = invisible /\ ls = 0 /\ pw = width + invisible /\ pl = Smaller(pw, total)
    BY <1>6
  <2>2. curpos - invisible <= width
    BY <1>1, <1>2, <1>3, <1>4, <1>5, <1>6 DEF Larger
  <2> HIDE DEF vls, ls, pw, pl
  <2> QED BY <2>1, <2>2 DEF Smaller
<1>7. ASSUME v > invisible
      PROVE  /\ vls \in Nat /\ ls \in Nat /\ pw \in Nat /\ pl \in Nat
             /\ \/ ls = 0 /\ vls = invisible
                \/ ls > 0 /\ vls = ls /\ promptlen <= ls /\ ls <= curpos
             /\ curpos - vls \in 0..width
             /\ curpos <= ls + pl /\ ls + pl <= total
             /\ pl <= pw /\ (ls + pl = total \/ pl = pw)
             /\ (d.line_start = 0 /\ curpos = total /\ total - invisible < width => ls = 0)
  <2>1. v <= curpos /\ curpos - v <= width
    BY <1>1, <1>2, <1>3, <1>4, <1>5, <1>7 DEF Larger
  <2>2. vls = Larger(v, promptlen) /\ ls = vls /\ ls > 0 /\ pw = width
    BY <1>5, <1>7 DEF Larger
  <2>3. ls \in Nat /\ promptlen <= ls /\ ls <= curpos /\ curpos - ls <= width
    BY <2>1, <2>2, <1>5, <1>7 DEF Larger
  <2>4. pl = Smaller(pw, total - ls)
    OBVIOUS
  <2>5. ~(d.line_start = 0 /\ curpos = total /\ total - invisible < width)
    <3> SUFFICES ASSUME d.line_start = 0, curpos = total, total - invisible < width PROVE FALSE
      OBVIOUS
    <3>1. before = invisible
      BY DEF before
    <3> QED BY <1>1, <1>2, <1>3, <1>5, <1>7, <3>1 DEF Larger
  <2> HIDE DEF vls, ls, pw, pl
  <2> QED BY <2>2, <2>3, <2>4, <2>5 DEF Smaller
<1>8. v <= invisible \/ v > invisible
  BY <1>5
<1> HIDE DEF vls, ls, pw, pl
<1>9. /\ vls \in Nat /\ ls \in Nat /\ pw \in Nat /\ pl \in Nat
      /\ \/ ls = 0 /\ vls = invisible
         \/ ls > 0 /\ vls = ls /\ promptlen <= ls /\ ls <= curpos
      /\ curpos - vls \in 0..width
      /\ curpos <= ls + pl /\ ls + pl <= total
      /\ pl <= pw /\ (ls + pl = total \/ pl = pw)
      /\ (d.line_start = 0 /\ curpos = total /\ total - invisible < width => ls = 0)
  BY <1>6, <1>7, <1>8
<1> QED BY <1>9 DEF v, vls, ls, pw, pl, OnRow

(* The bytes that take no column. *)
Plus(s) == {i \in 1..Len(s) : s[i] = "+"}

LEMMA ColumnsAndBytes ==
  ASSUME NEW s, Len(s) \in Nat
  PROVE  /\ Cardinality(Plus(s)) \in 0..Len(s)
         /\ Columns(s) = Len(s) - Cardinality(Plus(s))
         /\ Plus(s) = {} => Columns(s) = Len(s)
<1>1. PICK n \in Nat : n = Len(s)
  OBVIOUS
<1> DEFINE A == {i \in 1..n : s[i] # "+"}
           B == {i \in 1..n : s[i] = "+"}
<1>2. IsFiniteSet(1..n) /\ Cardinality(1..n) = n
  <2>1. PICK one \in Int : one = 1
    OBVIOUS
  <2>2. IsFiniteSet(one..n) /\ Cardinality(one..n) = IF one > n THEN 0 ELSE n - one + 1
    BY FS_Interval
  <2> QED BY <2>1, <2>2
<1>3. A = (1..n) \ B /\ (1..n) \cap B = B /\ B \in SUBSET (1..n)
  OBVIOUS
<1>4. IsFiniteSet(B) /\ Cardinality(B) <= n
  BY <1>2, <1>3, FS_Subset
<1>5. Cardinality(B) \in Nat
  BY <1>4, FS_CardinalityType
<1>6. Cardinality((1..n) \ B) = Cardinality(1..n) - Cardinality((1..n) \cap B)
  BY <1>2, FS_Difference
<1>7. Plus(s) = B /\ Columns(s) = Cardinality(A)
  BY <1>1 DEF Plus, Columns
<1>8. B = {} => Cardinality(B) = 0
  BY FS_EmptySet
<1> HIDE DEF A, B
<1>9. Cardinality(A) = n - Cardinality(B)
  BY <1>2, <1>3, <1>6
<1>10. Cardinality(B) \in 0..n
  BY <1>4, <1>5
<1> QED BY <1>1, <1>7, <1>8, <1>9, <1>10

(* The comment in my_homegrown_redisplay(), for a row r. *)
Shown(r, prompt, line, point, hide) ==
  LET whole == PromptPlusLine(prompt, line, hide)
      s == r.line_start
      row == r.row
  IN  /\ \A k \in 1..Len(row) :
           \/ row[k] = whole[s + k]
           \/ k = 1 /\ row[k] = "<" /\ s > 0
           \/ k = Len(row) /\ row[k] = ">" /\ s + k < Len(whole)
      /\ s + Len(row) = Len(whole) \/ Columns(row) = ws_col
      /\ r.cursor = Columns(SubSeq(whole, s + 1, Len(prompt) + point))
      /\ r.cursor \in 0..ws_col

(* The prompt's wide characters are all in the columns that its row shows when *)
(* the line goes on past it.                                                 *)
WideInRow(prompt) == \A k \in Plus(prompt) : k < ws_col + Cardinality(Plus(prompt))

LEMMA WholeLine ==
  ASSUME NEW p \in Text, NEW line \in Text, NEW hide \in BOOLEAN
  PROVE  /\ PromptPlusLine(p, line, hide) \in Text
         /\ Len(p) \in Nat /\ Len(line) \in Nat
         /\ Len(PromptPlusLine(p, line, hide)) = Len(p) + Len(line)
         /\ Plus(line) = {} => Plus(PromptPlusLine(p, line, hide)) = Plus(p)
<1>1. Len(p) \in Nat /\ Len(line) \in Nat
  BY LenProperties DEF Text
<1> DEFINE stars == [i \in 1..Len(line) |-> "*"]
<1>2. stars \in Text /\ Len(stars) = Len(line)
  <2>1. "*" \in Char
    BY RedisplayAssumption
  <2> QED BY <1>1, <2>1 DEF Text
<1> DEFINE t == IF hide THEN stars ELSE line
<1>3. t \in Text /\ Len(t) = Len(line)
  BY <1>2
<1>4. PromptPlusLine(p, line, hide) = p \o t
  BY DEF PromptPlusLine
<1>5. ASSUME Plus(line) = {} PROVE \A i \in 1..Len(line) : t[i] # "+"
  <2>1. \A i \in 1..Len(line) : line[i] # "+"
    BY <1>5 DEF Plus
  <2>2. \A i \in 1..Len(line) : stars[i] # "+"
    OBVIOUS
  <2> HIDE DEF stars
  <2> QED BY <2>1, <2>2
<1> HIDE DEF t, stars
<1>6. /\ p \o t \in Text /\ Len(p \o t) = Len(p) + Len(line)
      /\ \A i \in 1..Len(p) : (p \o t)[i] = p[i]
      /\ \A i \in 1..Len(line) : (p \o t)[Len(p) + i] = t[i]
  <2>1. /\ p \o t \in Text /\ Len(p \o t) = Len(p) + Len(t)
        /\ \A i \in 1..Len(p) : (p \o t)[i] = p[i]
        /\ \A i \in 1..Len(t) : (p \o t)[Len(p) + i] = t[i]
    BY <1>3, Pieced
  <2> QED BY <1>3, <2>1
<1>7. ASSUME Plus(line) = {} PROVE Plus(p \o t) = Plus(p)
  <2>1. ASSUME NEW k \in Len(p) + 1..Len(p) + Len(line) PROVE (p \o t)[k] # "+"
    <3>1. PICK i \in 1..Len(line) : k = Len(p) + i
      <4>1. k - Len(p) \in 1..Len(line) /\ k = Len(p) + (k - Len(p))
        BY <1>1
      <4> QED BY <4>1
    <3> QED BY <1>5, <1>6, <1>7, <3>1
  <2> QED BY <1>1, <1>6, <2>1 DEF Plus
<1> QED BY <1>1, <1>4, <1>6, <1>7

(* my_homegrown_redisplay() shows the line. *)
LEMMA Redisplayed ==
  ASSUME NEW old \in Displays, NEW prompt \in Text, NEW line \in Text, NEW point \in 0..Len(line),
         NEW hide \in BOOLEAN, ws_col \in Nat, ws_col >= 2,
         NEW r, r = my_homegrown_redisplay(old, prompt, line, point, hide)
  PROVE  /\ r \in Displays
         /\ r.line_start = 0 \/ r.line_start >= Len(prompt)
         /\ old.asserted /\ (point = 0 \/ old.line_start = 0 \/ old.line_start >= Len(prompt))
              => r.asserted
         /\ (/\ term_cursor_hpos /\ WideInRow(prompt) /\ Plus(line) = {}
             /\ (~old.foreign => old.previous_line = old.row) /\ ~r.foreign)
              => r.previous_line = r.row /\ Shown(r, prompt, line, point, hide)
         /\ term_cursor_hpos /\ line = <<>> /\ Columns(prompt) < ws_col
              => r.previous_line = prompt /\ r.line_start = 0
<1> DEFINE width == ws_col
           d == IF point = 0 THEN [old EXCEPT !.line_start = 0] ELSE old
           promptlen == Len(prompt)
           invisible == promptlen - Columns(prompt)
           whole == PromptPlusLine(prompt, line, hide)
           total == Len(whole)
           curpos == promptlen + point
           v == VirtualStart(d, width, promptlen, invisible, curpos, total)
           vlinestart == IF v <= invisible THEN invisible ELSE Larger(v, promptlen)
           line_start == IF v <= invisible THEN 0 ELSE vlinestart
           printwidth == IF line_start > 0 THEN width ELSE width + invisible
           printed_length == Smaller(printwidth, total - line_start)
           extends_left == IF line_start > 0 THEN 1 ELSE 0
           extends_right == IF total - vlinestart > width THEN 1 ELSE 0
           new_line == [i \in 1..printed_length |->
                          IF extends_right = 1 /\ i = printwidth THEN ">"
                          ELSE IF extends_left = 1 /\ i = 1 THEN "<"
                          ELSE whole[line_start + i]]
           p == Printed(d, new_line)
           new_curpos == curpos - vlinestart
           cursor == IF term_cursor_hpos THEN new_curpos
                     ELSE Larger(0, p.cursor - Larger(0, printed_length - vlinestart - new_curpos))
           asserted == /\ p.asserted /\ (d.line_start = 0 \/ d.line_start >= promptlen)
                       /\ 0 <= line_start /\ line_start <= curpos
                       /\ curpos <= line_start + printed_length
                       /\ line_start + printed_length <= total
<1>1. r = [p EXCEPT !.line_start = line_start, !.line_extends_left = extends_left,
                    !.line_extends_right = extends_right, !.cursor = cursor, !.asserted = asserted]
  BY DEF my_homegrown_redisplay
<1>2. /\ promptlen \in Nat /\ invisible \in 0..promptlen /\ invisible = Cardinality(Plus(prompt))
      /\ whole \in Text /\ total \in Nat /\ curpos \in Nat /\ promptlen <= curpos /\ curpos <= total
      /\ total = promptlen + Len(line)
      /\ Plus(line) = {} => Plus(whole) = Plus(prompt)
  <2>1. Len(prompt) \in Nat
    BY LenProperties DEF Text
  <2>2. invisible = Cardinality(Plus(prompt)) /\ invisible \in 0..promptlen
    BY <2>1, ColumnsAndBytes
  <2>3. /\ whole \in Text /\ Len(line) \in Nat /\ total = promptlen + Len(line)
        /\ Plus(line) = {} => Plus(whole) = Plus(prompt)
    BY WholeLine
  <2> HIDE DEF whole, total, invisible
  <2> QED BY <2>1, <2>2, <2>3
<1>3. d \in Displays /\ d.row = old.row /\ d.previous_line = old.previous_line
      /\ d.foreign = old.foreign /\ d.asserted = old.asserted
      /\ (point = 0 \/ old.line_start = 0 \/ old.line_start >= promptlen
            => d.line_start = 0 \/ d.line_start >= promptlen)
      /\ (point = 0 => d.line_start = 0)
  BY DEF Displays
<1> HIDE DEF d, promptlen, invisible, total, curpos, whole
<1>4. /\ vlinestart \in Nat /\ line_start \in Nat /\ printwidth \in Nat /\ printed_length \in Nat
      /\ \/ line_start = 0 /\ vlinestart = invisible
         \/ /\ line_start > 0 /\ vlinestart = line_start
            /\ promptlen <= line_start /\ line_start <= curpos
      /\ curpos - vlinestart \in 0..width
      /\ curpos <= line_start + printed_length /\ line_start + printed_length <= total
      /\ printed_length <= printwidth
      /\ line_start + printed_length = total \/ printed_length = printwidth
      /\ (d.line_start = 0 /\ curpos = total /\ total - invisible < width => line_start = 0)
  <2>1. d \in Displays
    BY <1>3
  <2>2. OnRow(d, width, promptlen, invisible, curpos, total)
    BY <1>2, <2>1, CursorIsOnRow
  <2> QED BY <2>2 DEF OnRow
<1>5. printwidth = IF line_start > 0 THEN width ELSE width + invisible
  OBVIOUS
<1> HIDE DEF v, vlinestart, line_start, printwidth, printed_length
<1>6. new_line \in Text /\ Len(new_line) = printed_length
  <2>1. ASSUME NEW i \in 1..printed_length PROVE whole[line_start + i] \in Char
    <3>1. PICK k \in 1..Len(whole) : k = line_start + i
      BY <1>2, <1>4 DEF total
    <3> QED BY <1>2, <3>1, ElementOfSeq DEF Text
  <2>2. ">" \in Char /\ "<" \in Char
    BY RedisplayAssumption
  <2> QED BY <1>4, <2>1, <2>2 DEF Text
<1> HIDE DEF new_line
<1>7. /\ p \in Displays /\ p.asserted = d.asserted
      /\ (/\ term_cursor_hpos
          /\ ~d.foreign => d.previous_line = d.row
          /\ ~p.foreign) => p.row = new_line /\ p.previous_line = new_line
      /\ (term_cursor_hpos => p.previous_line = new_line)
  <2>1. CASE term_cursor_hpos /\ d.previous_line = new_line
    BY <1>3, <2>1 DEF Printed
  <2>2. CASE ~(term_cursor_hpos /\ d.previous_line = new_line)
    <3>1. PICK c \in Int : c = Columns(new_line)
      BY <1>4, <1>6, ColumnsAndBytes
    <3>2. p = [d EXCEPT !.row = new_line, !.foreign = FALSE, !.cursor = c,
                        !.previous_line = IF term_cursor_hpos THEN new_line ELSE @]
      BY <2>2, <3>1 DEF Printed
    <3> HIDE DEF p
    <3> QED BY <1>3, <1>6, <3>2 DEF Displays
  <2> QED BY <2>1, <2>2
<1> HIDE DEF p
<1>8. cursor \in Int /\ asserted \in BOOLEAN
  <2>1. p.cursor \in Int /\ p.asserted \in BOOLEAN
    BY <1>7 DEF Displays
  <2>2. new_curpos \in Int
    BY <1>2, <1>4
  <2> HIDE DEF new_curpos
  <2>3. cursor \in Int
    BY <1>4, <2>1, <2>2 DEF Larger
  <2> QED BY <2>1, <2>3
<1>9. /\ r \in Displays /\ r.line_start = line_start /\ r.cursor = cursor /\ r.asserted = asserted
      /\ r.row = p.row /\ r.previous_line = p.previous_line /\ r.foreign = p.foreign
  <2> HIDE DEF cursor, asserted
  <2>1. extends_left \in {0, 1} /\ extends_right \in {0, 1}
    OBVIOUS
  <2> HIDE DEF extends_left, extends_right
  <2> QED BY <1>1, <1>4, <1>7, <1>8, <2>1 DEF Displays
<1>10. r.line_start = 0 \/ r.line_start >= Len(prompt)
  BY <1>4, <1>9 DEF promptlen
<1>11. old.asserted /\ (point = 0 \/ old.line_start = 0 \/ old.line_start >= Len(prompt))
         => r.asserted
  BY <1>2, <1>3, <1>4, <1>7, <1>9 DEF promptlen
<1>12. ASSUME term_cursor_hpos, WideInRow(prompt), Plus(line) = {},
              ~old.foreign => old.previous_line = old.row, ~r.foreign
       PROVE  r.previous_line = r.row /\ Shown(r, prompt, line, point, hide)
  <2>1. r.row = new_line /\ r.previous_line = new_line /\ r.cursor = curpos - vlinestart
    BY <1>3, <1>7, <1>9, <1>12
  <2>2. Plus(whole) = Plus(prompt)
    BY <1>2, <1>12
  <2>3. \A k \in 1..printed_length :
          new_line[k] = IF extends_right = 1 /\ k = printwidth THEN ">"
                        ELSE IF extends_left = 1 /\ k = 1 THEN "<"
                        ELSE whole[line_start + k]
    BY DEF new_line
  <2>4. \A k \in 1..Len(new_line) :
             \/ new_line[k] = whole[line_start + k]
             \/ k = 1 /\ new_line[k] = "<" /\ line_start > 0
             \/ k = Len(new_line) /\ new_line[k] = ">" /\ line_start + k < Len(whole)
    <3> SUFFICES ASSUME NEW k \in 1..printed_length, extends_right = 1, k = printwidth
                 PROVE  k = printed_length /\ line_start + k < total
      BY <1>6, <2>3 DEF total
    <3>1. total - vlinestart > width
      OBVIOUS
    <3> HIDE DEF extends_right
    <3>2. k \in Nat /\ printed_length = k
      BY <1>4
    <3> QED BY <1>2, <1>4, <1>5, <3>1, <3>2
  <2>5. line_start + Len(new_line) = Len(whole) \/ Columns(new_line) = ws_col
    <3> SUFFICES ASSUME line_start + printed_length # total PROVE Columns(new_line) = ws_col
      BY <1>6 DEF total
    <3>1. printed_length = printwidth /\ extends_right = 1
      BY <1>2, <1>4, <1>5
    <3>2. CASE line_start = 0
      <4>1. Plus(new_line) = Plus(whole)
        <5>1. ASSUME NEW k \in Plus(new_line) PROVE k \in Plus(whole)
          <6>1. k \in 1..printed_length /\ new_line[k] = "+"
            BY <1>6, <5>1 DEF Plus
          <6>2. whole[line_start + k] = "+"
            BY <2>3, <6>1
          <6> QED BY <1>2, <1>4, <3>2, <6>1, <6>2 DEF Plus, total
        <5>2. ASSUME NEW k \in Plus(whole) PROVE k \in Plus(new_line)
          <6>1. k \in Nat /\ k >= 1 /\ k < width + invisible /\ whole[k] = "+"
            <7>1. k \in 1..total /\ whole[k] = "+"
              BY <5>2 DEF Plus, total
            <7>2. k < ws_col + Cardinality(Plus(prompt))
              BY <1>12, <2>2, <5>2 DEF WideInRow
            <7> QED BY <1>2, <7>1, <7>2
          <6>2. k \in 1..printed_length /\ k # printwidth /\ line_start + k = k
            BY <1>5, <3>1, <3>2, <6>1, <1>2
          <6>3. new_line[k] = "+"
            BY <2>3, <3>2, <6>1, <6>2
          <6> QED BY <1>6, <6>2, <6>3 DEF Plus
        <5> QED BY <5>1, <5>2
      <4>2. Columns(new_line) = Len(new_line) - Cardinality(Plus(new_line))
        BY <1>4, <1>6, ColumnsAndBytes
      <4> QED BY <1>2, <1>4, <1>5, <1>6, <2>2, <3>1, <3>2, <4>1, <4>2
    <3>3. CASE line_start > 0
      <4>1. Plus(new_line) = {}
        <5> SUFFICES ASSUME NEW k \in 1..printed_length, new_line[k] = "+" PROVE FALSE
          BY <1>6 DEF Plus
        <5>0. new_line[k] = "+"
          OBVIOUS
        <5>1. whole[line_start + k] = "+" /\ line_start + k \in 1..total
          <6>1. new_line[k] # "<" /\ new_line[k] # ">"
            BY <5>0
          <6>2. whole[line_start + k] = "+"
            BY <2>3, <5>0, <6>1
          <6>3. line_start + k \in 1..total
            BY <1>2, <1>4
          <6> QED BY <6>2, <6>3
        <5>2. line_start + k \in Plus(prompt)
          BY <2>2, <5>1 DEF Plus, total
        <5> QED BY <1>2, <1>4, <3>3, <5>2 DEF Plus, promptlen
      <4>2. Columns(new_line) = Len(new_line)
        BY <1>4, <1>6, <4>1, ColumnsAndBytes
      <4> QED BY <1>4, <1>5, <1>6, <3>1, <3>3, <4>2
    <3> QED BY <1>4, <3>2, <3>3
  <2>6. curpos - vlinestart = Columns(SubSeq(whole, line_start + 1, Len(prompt) + point))
    <3>1. PICK a \in Int, b \in Int : a = line_start + 1 /\ b = curpos
      BY <1>2, <1>4
    <3> DEFINE t == SubSeq(whole, a, b)
    <3>2. /\ Len(t) = curpos - line_start /\ Len(t) \in Nat
          /\ \A k \in 1..curpos - line_start : t[k] = whole[line_start + k]
      <4>1. \A i \in a..b : whole[i] \in Char
        <5>1. \A i \in 1..Len(whole) : whole[i] \in Char
          BY <1>2, ElementOfSeq DEF Text
        <5>2. \A i \in a..b : i \in 1..Len(whole)
          BY <1>2, <1>4, <3>1 DEF total
        <5> QED BY <5>1, <5>2
      <4>2. /\ Len(t) = (IF a <= b THEN b - a + 1 ELSE 0)
            /\ \A k \in 1..b - a + 1 : t[k] = whole[a + k - 1]
        BY <4>1, SubSeqProperties
      <4> HIDE DEF t
      <4> QED BY <1>2, <1>4, <3>1, <4>2
    <3> HIDE DEF t
    <3>3. t = SubSeq(whole, line_start + 1, Len(prompt) + point)
      BY <3>1 DEF t, curpos, promptlen
    <3>4. CASE line_start = 0
      <4>1. Plus(t) = Plus(whole)
        <5>1. \A k \in Plus(whole) : k <= curpos
          BY <1>2, <2>2 DEF Plus, promptlen
        <5> QED BY <1>2, <3>2, <3>4, <5>1 DEF Plus, total
      <4>2. Columns(t) = Len(t) - Cardinality(Plus(t))
        BY <3>2, ColumnsAndBytes
      <4> QED BY <1>2, <1>4, <2>2, <3>2, <3>3, <3>4, <4>1, <4>2
    <3>5. CASE line_start > 0
      <4>1. Plus(t) = {}
        <5> SUFFICES ASSUME NEW k \in 1..curpos - line_start, t[k] = "+" PROVE FALSE
          BY <3>2 DEF Plus
        <5>1. whole[line_start + k] = "+" /\ line_start + k \in 1..total
          <6>1. whole[line_start + k] = "+"
            BY <3>2
          <6> QED BY <1>2, <1>4, <6>1
        <5>2. line_start + k \in Plus(prompt)
          BY <2>2, <5>1 DEF Plus, total
        <5> QED BY <1>2, <1>4, <3>5, <5>2 DEF Plus, promptlen
      <4>2. Columns(t) = Len(t)
        BY <3>2, <4>1, ColumnsAndBytes
      <4> QED BY <1>4, <3>2, <3>3, <3>5, <4>2
    <3> QED BY <1>4, <3>4, <3>5
  <2>7. r.line_start = line_start
    BY <1>9
  <2> QED BY <1>4, <2>1, <2>4, <2>5, <2>6, <2>7 DEF Shown, whole
<1>13. ASSUME term_cursor_hpos, line = <<>>, Columns(prompt) < ws_col
       PROVE  r.previous_line = prompt /\ r.line_start = 0
  <2>1. Len(line) = 0 /\ point = 0
    BY <1>13
  <2>2. total = promptlen /\ curpos = total /\ total - invisible < width
    <3>1. curpos = promptlen + point /\ invisible = promptlen - Columns(prompt)
      BY DEF curpos, invisible
    <3>2. Columns(prompt) \in Nat
      <4>1. /\ Columns(prompt) = Len(prompt) - Cardinality(Plus(prompt))
            /\ Cardinality(Plus(prompt)) \in 0..Len(prompt)
        BY <1>2, ColumnsAndBytes DEF promptlen
      <4> QED BY <1>2, <4>1 DEF promptlen
    <3> QED BY <1>2, <1>13, <2>1, <3>1, <3>2
  <2>3. line_start = 0 /\ vlinestart = invisible
    BY <1>2, <1>3, <1>4, <2>1, <2>2
  <2>4. printed_length = total /\ extends_left = 0 /\ extends_right = 0
    <3>1. total - vlinestart < width
      BY <2>2, <2>3
    <3>5. total \in Nat /\ vlinestart \in Nat /\ line_start = 0
      BY <1>2, <1>4, <2>3
    <3>2. PICK rest \in Int : rest = total - vlinestart
      BY <3>5
    <3>6. ~(rest > width) /\ ~(line_start > 0)
      BY <3>1, <3>2, <3>5
    <3>4. extends_left = 0 /\ extends_right = 0
      BY <3>2, <3>6
    <3> HIDE DEF extends_left, extends_right
    <3>3. printwidth = width + invisible /\ total < width + invisible
      BY <1>2, <1>5, <2>2, <2>3
    <3> QED BY <1>2, <1>4, <2>3, <3>4, <3>3
  <2>5. \A i \in 1..total : new_line[i] = whole[i]
    <3> HIDE DEF extends_left, extends_right
    <3> QED BY <1>2, <2>3, <2>4 DEF new_line
  <2>6. \A i \in 1..total : whole[i] = prompt[i]
    <3> DEFINE t == IF hide THEN [i \in 1..Len(line) |-> "*"] ELSE line
    <3>1. t \in Text
      <4>1. [i \in 1..Len(line) |-> "*"] \in Text
        <5>1. "*" \in Char
          BY RedisplayAssumption
        <5> QED BY <2>1, <5>1 DEF Text
      <4> QED BY <4>1
    <3> HIDE DEF t
    <3>2. \A i \in 1..Len(prompt) : (prompt \o t)[i] = prompt[i]
      BY <3>1, Pieced
    <3>3. whole = prompt \o t
      BY DEF whole, t, PromptPlusLine
    <3> QED BY <2>2, <3>2, <3>3 DEF promptlen
  <2>7. new_line = prompt
    <3>1. Len(new_line) = Len(prompt) /\ new_line \in Seq(Char) /\ prompt \in Seq(Char)
      BY <1>6, <2>2, <2>4 DEF promptlen, Text
    <3>2. \A i \in 1..Len(new_line) : new_line[i] = prompt[i]
      BY <2>2, <2>5, <2>6, <3>1 DEF promptlen
    <3> QED BY <3>1, <3>2, SeqEqual
  <2> QED BY <1>7, <1>9, <1>13, <2>3, <2>7
<1> QED BY <1>9, <1>10, <1>11, <1>12, <1>13

(* restore_rl_state() shows the prompt, and the line if it is empty.            *)
LEMMA RestoredRow ==
  ASSUME NEW old \in Displays, NEW prompt \in Text, NEW input \in Text, NEW point \in 0..Len(input),
         NEW hide \in BOOLEAN, ws_col \in Nat, ws_col >= 2,
         NEW r, r = Restored(old, prompt, input, point, hide)
  PROVE  /\ r \in Displays
         /\ r.line_start = 0 \/ r.line_start >= Len(prompt)
         /\ old.asserted => r.asserted
         /\ term_cursor_hpos /\ ~r.foreign
              => r.previous_line = r.row /\ Shown(r, prompt, input, point, hide)
<1> DEFINE cleared == [old EXCEPT !.row = <<>>, !.cursor = 0]
           empty == my_homegrown_redisplay(cleared, prompt, <<>>, 0, hide)
<1>1. <<>> \in Text /\ Len(<<>>) = 0
  BY EmptySeq DEF Text
<1>2. cleared \in Displays /\ cleared.asserted = old.asserted
  <2>1. PICK none \in Text : none = <<>>
    BY <1>1
  <2>2. PICK zero \in Int : zero = 0
    OBVIOUS
  <2>3. cleared = [old EXCEPT !.row = none, !.cursor = zero]
    BY <2>1, <2>2
  <2> HIDE DEF cleared
  <2> QED BY <2>3 DEF Displays
<1> HIDE DEF cleared
<1>3. PICK e : e = empty
  OBVIOUS
<1>4. /\ e \in Displays
      /\ e.line_start = 0 \/ e.line_start >= Len(prompt)
      /\ old.asserted => e.asserted
      /\ term_cursor_hpos /\ Columns(prompt) < ws_col
           => e.previous_line = prompt /\ e.line_start = 0
  <2>1. PICK none \in Text : none = <<>> /\ Len(none) = 0
    BY <1>1
  <2>2. PICK zero \in 0..Len(none) : zero = 0
    BY <2>1
  <2>3. e = my_homegrown_redisplay(cleared, prompt, none, zero, hide)
    BY <1>3, <2>1, <2>2
  <2>4. /\ e \in Displays
        /\ e.line_start = 0 \/ e.line_start >= Len(prompt)
        /\ (/\ cleared.asserted
            /\ zero = 0 \/ cleared.line_start = 0 \/ cleared.line_start >= Len(prompt))
              => e.asserted
        /\ term_cursor_hpos /\ none = <<>> /\ Columns(prompt) < ws_col
              => e.previous_line = prompt /\ e.line_start = 0
    BY <1>2, <2>3, Redisplayed
  <2> QED BY <1>2, <2>1, <2>2, <2>4
<1>5. r = [e EXCEPT !.row = prompt, !.cursor = Columns(prompt),
                    !.foreign = input # <<>> \/ Columns(prompt) >= ws_col]
  BY <1>3 DEF Restored, cleared
<1>6. Len(prompt) \in Nat /\ Columns(prompt) \in 0..Len(prompt)
  <2>1. Len(prompt) \in Nat
    BY LenProperties DEF Text
  <2>2. /\ Columns(prompt) = Len(prompt) - Cardinality(Plus(prompt))
        /\ Cardinality(Plus(prompt)) \in 0..Len(prompt)
    BY <2>1, ColumnsAndBytes
  <2> QED BY <2>1, <2>2
<1> HIDE DEF empty
<1>7. /\ r \in Displays /\ r.line_start = e.line_start /\ r.asserted = e.asserted
      /\ r.row = prompt /\ r.cursor = Columns(prompt) /\ r.previous_line = e.previous_line
      /\ ~r.foreign => input = <<>> /\ Columns(prompt) < ws_col
  <2>1. PICK c \in Int : c = Columns(prompt)
    BY <1>6
  <2>2. PICK f \in BOOLEAN : f <=> (input # <<>> \/ Columns(prompt) >= ws_col)
    OBVIOUS
  <2>3. r = [e EXCEPT !.row = prompt, !.cursor = c, !.foreign = f]
    BY <1>5, <2>1, <2>2
  <2>4. /\ r \in Displays /\ r.line_start = e.line_start /\ r.asserted = e.asserted
        /\ r.row = prompt /\ r.cursor = c /\ r.previous_line = e.previous_line /\ r.foreign = f
    BY <1>4, <2>3 DEF Displays
  <2> QED BY <1>6, <2>1, <2>2, <2>4
<1>8. ASSUME term_cursor_hpos, ~r.foreign
      PROVE  r.previous_line = r.row /\ Shown(r, prompt, input, point, hide)
  <2>1. input = <<>> /\ point = 0 /\ Columns(prompt) < ws_col
    BY <1>1, <1>7, <1>8
  <2>2. r.line_start = 0 /\ r.previous_line = prompt
    BY <1>4, <1>7, <1>8, <2>1
  <2> DEFINE whole == PromptPlusLine(prompt, input, hide)
  <2>3. whole = prompt
    <3>1. (IF hide THEN [i \in 1..Len(input) |-> "*"] ELSE input) = <<>>
      BY <2>1
    <3>2. prompt \in Seq(Char)
      BY DEF Text
    <3>3. prompt \o <<>> = prompt
      BY <3>2, ConcatEmptySeq
    <3> QED BY <3>1, <3>3 DEF PromptPlusLine
  <2>4. SubSeq(whole, 0 + 1, Len(prompt) + point) = prompt
    <3>1. prompt \in Seq(Char)
      BY DEF Text
    <3>2. SubSeq(prompt, 1, Len(prompt)) = prompt
      BY <3>1, SubSeqFull
    <3>3. 0 + 1 = 1 /\ Len(prompt) + point = Len(prompt)
      BY <1>6, <2>1
    <3> QED BY <2>3, <3>2, <3>3
  <2> HIDE DEF whole
  <2>5. \A k \in 1..Len(prompt) : 0 + k = k
    BY <1>6
  <2>6. 0 + Len(prompt) = Len(whole) /\ Columns(prompt) \in 0..ws_col
    BY <1>6, <2>1, <2>3
  <2>7. Shown(r, prompt, input, point, hide)
    BY <1>7, <2>2, <2>3, <2>4, <2>5, <2>6 DEF Shown, whole
  <2> QED BY <1>7, <2>2, <2>7
<1> QED BY <1>4, <1>7, <1>8

-----------------------------------------------------------------------------
(* Loops over a text *)

(* A set that holds 0, and n whenever it holds n - 1, as far as N. *)
LEMMA Steps ==
  ASSUME NEW N \in Nat, NEW G, 0 \in G, \A n \in 1..N : n - 1 \in G => n \in G
  PROVE  0..N \subseteq G
<1>1. ASSUME NEW n \in 0..N - 1, n \in G PROVE n + 1 \in G
  <2>1. n + 1 \in 1..N /\ (n + 1) - 1 = n
    OBVIOUS
  <2> QED BY <1>1, <2>1
<1> QED BY <1>1, Induction

(* What a loop computes: g[n] after n steps. *)
Loop(g, base, step, N) == g[0] = base /\ \A n \in 1..N : g[n] = step[n][g[n - 1]]

(* Every loop with a bound has such a g. *)
LEMMA LoopsEnd ==
  ASSUME NEW S, NEW base \in S, NEW N \in Nat, NEW step \in [1..N -> [S -> S]]
  PROVE  \E g \in [0..N -> S] : Loop(g, base, step, N)
<1> DEFINE Good(n) == \E g \in [0..n -> S] : Loop(g, base, step, n)
           G == {n \in Nat : Good(n)}
<1>1. Good(0)
  <2>1. PICK g \in [0..0 -> S] : g = [k \in 0..0 |-> base]
    OBVIOUS
  <2>2. Loop(g, base, step, 0)
    BY <2>1 DEF Loop
  <2> QED BY <2>2
<1>2. ASSUME NEW n \in 1..N, Good(n - 1) PROVE Good(n)
  <2>1. PICK g \in [0..n - 1 -> S] : Loop(g, base, step, n - 1)
    BY <1>2
  <2>2. PICK next \in S : next = step[n][g[n - 1]]
    OBVIOUS
  <2>3. PICK h \in [0..n -> S] : \A k \in 0..n : h[k] = IF k = n THEN next ELSE g[k]
    <3>1. [k \in 0..n |-> IF k = n THEN next ELSE g[k]] \in [0..n -> S]
      OBVIOUS
    <3> QED BY <3>1
  <2>4. h[0] = base
    BY <2>1, <2>3 DEF Loop
  <2>5. ASSUME NEW m \in 1..n PROVE h[m] = step[m][h[m - 1]]
    <3>1. h[m - 1] = g[m - 1]
      BY <2>3
    <3>2. CASE m = n
      BY <2>2, <2>3, <3>1, <3>2
    <3>3. CASE m # n
      BY <2>1, <2>3, <3>1, <3>3 DEF Loop
    <3> QED BY <3>2, <3>3
  <2> QED BY <2>4, <2>5 DEF Loop
<1> HIDE DEF Good
<1>3. 0 \in G /\ \A n \in 1..N : n - 1 \in G => n \in G
  BY <1>1, <1>2
<1> HIDE DEF G
<1>4. 0..N \subseteq G
  BY <1>3, Steps
<1>5. Good(N)
  BY <1>4 DEF G
<1> QED BY <1>5 DEF Good

(* A piece of a text. *)
LEMMA Piece ==
  ASSUME NEW s \in Text, NEW a \in Nat \ {0}, NEW b \in Int, b <= Len(s)
  PROVE  /\ SubSeq(s, a, b) \in Text /\ Len(s) \in Nat
         /\ Len(SubSeq(s, a, b)) = IF a <= b THEN b - a + 1 ELSE 0
         /\ \A i \in 1..b - a + 1 : SubSeq(s, a, b)[i] = s[a + i - 1]
<1>1. Len(s) \in Nat /\ \A i \in a..b : s[i] \in Char
  BY LenProperties, ElementOfSeq DEF Text
<1> QED BY <1>1, SubSeqProperties DEF Text

(* One character more. *)
LEMMA OneMore ==
  ASSUME NEW s \in Text, NEW c \in Char
  PROVE  /\ Append(s, c) \in Text /\ Len(s) \in Nat /\ Len(Append(s, c)) = Len(s) + 1
         /\ \A i \in 1..Len(s) : Append(s, c)[i] = s[i]
         /\ Append(s, c)[Len(s) + 1] = c
<1>1. s \in Seq(Char)
  BY DEF Text
<1> QED BY <1>1, AppendProperties, LenProperties DEF Text

LEMMA Characters ==
  ASSUME NEW s \in Text
  PROVE  Len(s) \in Nat /\ \A i \in 1..Len(s) : s[i] \in Char
BY LenProperties, ElementOfSeq DEF Text

(* A text of one or two characters, or none. *)
LEMMA ShortTexts ==
  ASSUME NEW c \in Char, NEW d \in Char
  PROVE  /\ <<>> \in Text /\ Len(<<>>) = 0
         /\ <<c>> \in Text /\ Len(<<c>>) = 1 /\ <<c>>[1] = c
         /\ <<c, d>> \in Text /\ Len(<<c, d>>) = 2 /\ <<c, d>>[1] = c /\ <<c, d>>[2] = d
<1>1. <<>> \in Seq(Char) /\ Len(<<>>) = 0
  BY EmptySeq
<1>2. <<c>> \in Seq(Char) /\ Len(<<c>>) = 1 /\ <<c>>[1] = c
  OBVIOUS
<1>3. <<c, d>> \in Seq(Char) /\ Len(<<c, d>>) = 2 /\ <<c, d>>[1] = c /\ <<c, d>>[2] = d
  OBVIOUS
<1> QED BY <1>1, <1>2, <1>3 DEF Text

(* PastAll() is the first place past them. *)
LEMMA Past ==
  ASSUME NEW s \in Text, NEW i \in 1..Len(s) + 1, NEW chars
  PROVE  /\ PastAll(s, i, chars) \in i..Len(s) + 1
         /\ \A k \in i..PastAll(s, i, chars) - 1 : s[k] \in chars
         /\ PastAll(s, i, chars) > Len(s) \/ s[PastAll(s, i, chars)] \notin chars
<1>1. Len(s) \in Nat
  BY Characters
<1> DEFINE T == {j \in i..Len(s) + 1 : j > Len(s) \/ s[j] \notin chars}
<1>2. T \in SUBSET Nat /\ Len(s) + 1 \in T
  BY <1>1
<1>3. PICK m \in T : \A k \in T : m <= k
  BY <1>2, LeastElement
<1>4. \A k \in i..m - 1 : s[k] \in chars
  <2> SUFFICES ASSUME NEW k \in i..m - 1, s[k] \notin chars PROVE FALSE
    OBVIOUS
  <2>1. k \in T
    BY <1>1
  <2> QED BY <1>1, <1>3, <2>1
<1>5. m \in i..Len(s) + 1 /\ (m > Len(s) \/ s[m] \notin chars)
  OBVIOUS
<1> HIDE DEF T
<1>6. \E j \in i..Len(s) + 1 :
        (\A k \in i..j - 1 : s[k] \in chars) /\ (j > Len(s) \/ s[j] \notin chars)
  BY <1>4, <1>5
<1> QED BY <1>6 DEF PastAll

-----------------------------------------------------------------------------
(* What has been replaced *)

(* The matches are within s. *)
Matches(s, length) ==
  length \in [1..Len(s) -> Nat] /\ \A i \in 1..Len(s) : i + length[i] - 1 <= Len(s)

(* The loop of Replaced(). *)
Copied(r, n, s, length, by) ==
  IF n <= r.upto THEN r
  ELSE IF length[n] = 0 THEN [text |-> Append(r.text, s[n]), upto |-> n]
  ELSE [text |-> r.text \o by[n], upto |-> n + length[n] - 1]

Copying == [text : Text, upto : Nat]

LEMMA CopiedType ==
  ASSUME NEW s \in Text, NEW length, Matches(s, length), NEW by \in [1..Len(s) -> Text],
         NEW n \in 1..Len(s), NEW r \in Copying
  PROVE  Copied(r, n, s, length, by) \in Copying
<1>1. Len(s) \in Nat /\ s[n] \in Char /\ length[n] \in Nat /\ by[n] \in Text
  BY Characters DEF Matches
<1>2. r.text \in Text /\ r.upto \in Nat
  BY DEF Copying
<1>3. Append(r.text, s[n]) \in Text
  BY <1>1, <1>2, OneMore
<1>4. r.text \o by[n] \in Text
  BY <1>1, <1>2, Pieced
<1>5. length[n] # 0 => n + length[n] - 1 \in Nat
  BY <1>1
<1>6. CASE n <= r.upto
  BY <1>6 DEF Copied
<1>7. CASE ~(n <= r.upto) /\ length[n] = 0
  BY <1>3, <1>7, <1>1 DEF Copied, Copying
<1>8. CASE ~(n <= r.upto) /\ length[n] # 0
  BY <1>4, <1>5, <1>8 DEF Copied, Copying
<1> QED BY <1>6, <1>7, <1>8

LEMMA ReplacedLoop ==
  ASSUME NEW s \in Text, NEW length, Matches(s, length), NEW by \in [1..Len(s) -> Text]
  PROVE  \E g \in [0..Len(s) -> Copying] :
           /\ g[0] = [text |-> <<>>, upto |-> 0]
           /\ \A n \in 1..Len(s) : g[n] = Copied(g[n - 1], n, s, length, by)
           /\ Replaced(s, length, by) = g[Len(s)].text
<1> DEFINE copy[n \in 0..Len(s)] ==
             IF n = 0 THEN [text |-> <<>>, upto |-> 0]
             ELSE LET before == copy[n - 1]
                  IN  IF n <= before.upto THEN before
                      ELSE IF length[n] = 0 THEN [text |-> Append(before.text, s[n]), upto |-> n]
                      ELSE [text |-> before.text \o by[n], upto |-> n + length[n] - 1]
<1>1. PICK N \in Nat : N = Len(s)
  BY Characters
<1>2. PICK base \in Copying : base = [text |-> <<>>, upto |-> 0]
  BY NothingToCopy DEF Copying
<1>3. PICK step \in [1..N -> [Copying -> Copying]] :
        \A n \in 1..N, r \in Copying : step[n][r] = Copied(r, n, s, length, by)
  <2>1. [n \in 1..N |-> [r \in Copying |-> Copied(r, n, s, length, by)]]
          \in [1..N -> [Copying -> Copying]]
    BY <1>1, CopiedType
  <2> QED BY <2>1
<1>4. PICK g \in [0..N -> Copying] : Loop(g, base, step, N)
  BY LoopsEnd
<1>5. g[0] = base /\ \A n \in 1..N : g[n] = Copied(g[n - 1], n, s, length, by)
  <2>1. \A n \in 1..N : n - 1 \in 0..N
    OBVIOUS
  <2> QED BY <1>3, <1>4, <2>1 DEF Loop
<1>6. g = [n \in 0..N |-> IF n = 0 THEN [text |-> <<>>, upto |-> 0]
                          ELSE Copied(g[n - 1], n, s, length, by)]
  BY <1>2, <1>5
<1>7. copy = [n \in 0..N |-> IF n = 0 THEN [text |-> <<>>, upto |-> 0]
                             ELSE Copied(copy[n - 1], n, s, length, by)]
  BY <1>1, <1>6 DEF Copied
<1>8. Replaced(s, length, by) = copy[N].text
  BY <1>1 DEF Replaced
<1> HIDE DEF copy
<1> DEFINE G == {n \in Nat : n <= N => copy[n] = g[n]}
<1>9. 0 \in G
  BY <1>2, <1>5, <1>7
<1>10. \A n \in 1..N : n - 1 \in G => n \in G
  <2> SUFFICES ASSUME NEW n \in 1..N, copy[n - 1] = g[n - 1] PROVE copy[n] = g[n]
    OBVIOUS
  <2>1. copy[n] = Copied(copy[n - 1], n, s, length, by)
    BY <1>7
  <2> QED BY <1>5, <2>1
<1> HIDE DEF G
<1>11. 0..N \subseteq G
  BY <1>9, <1>10, Steps
<1>12. copy[N] = g[N]
  BY <1>11 DEF G
<1> QED BY <1>1, <1>2, <1>5, <1>8, <1>12

LEMMA ReplacedType ==
  ASSUME NEW s \in Text, NEW length, Matches(s, length), NEW by \in [1..Len(s) -> Text]
  PROVE  Replaced(s, length, by) \in Text
<1>1. Len(s) \in Nat
  BY Characters
<1> QED BY <1>1, ReplacedLoop DEF Copying

-----------------------------------------------------------------------------
(* Cells *)

(* The loop of Cells(). *)
Seen(r, c) ==
  IF c \in {"START", "END"} THEN [r EXCEPT !.visible = c = "END"]
  ELSE IF ~r.visible THEN r
  ELSE [r EXCEPT !.cells = Filled(@, c)]

Visibles == [visible : BOOLEAN, cells : Text]

LEMMA FilledType ==
  ASSUME NEW cells \in Text, NEW c \in Char
  PROVE  Filled(cells, c) \in Text
<1>1. Append(cells, c) \in Text
  BY OneMore
<1>2. WithoutLast(cells) \in Text
  <2>1. CASE cells = <<>>
    BY <2>1, NothingToCopy DEF WithoutLast
  <2>2. CASE cells # <<>>
    <3>1. PICK b \in Int : b = Len(cells) - 1 /\ b <= Len(cells)
      <4>1. Len(cells) \in Nat
        BY Characters
      <4>2. Len(cells) - 1 \in Int /\ Len(cells) - 1 <= Len(cells)
        BY <4>1
      <4> QED BY <4>2
    <3>2. SubSeq(cells, 1, b) \in Text
      BY <3>1, Piece
    <3> QED BY <2>2, <3>1, <3>2 DEF WithoutLast, Front
  <2> QED BY <2>1, <2>2
<1> QED BY <1>1, <1>2, NothingToCopy DEF Filled

LEMMA SeenType ==
  ASSUME NEW r \in Visibles, NEW c \in Char
  PROVE  Seen(r, c) \in Visibles
<1>1. r.cells \in Text /\ r.visible \in BOOLEAN
  BY DEF Visibles
<1>2. PICK cells \in Text : cells = Filled(r.cells, c)
  BY <1>1, FilledType
<1>3. PICK v \in BOOLEAN : v <=> c = "END"
  OBVIOUS
<1>4. CASE c \in {"START", "END"}
  <2>1. Seen(r, c) = [r EXCEPT !.visible = v]
    BY <1>3, <1>4 DEF Seen
  <2> QED BY <2>1 DEF Visibles
<1>5. CASE c \notin {"START", "END"} /\ ~r.visible
  BY <1>5 DEF Seen
<1>6. CASE c \notin {"START", "END"} /\ r.visible
  <2>1. Seen(r, c) = [r EXCEPT !.cells = cells]
    BY <1>2, <1>6 DEF Seen
  <2> QED BY <2>1 DEF Visibles
<1> QED BY <1>4, <1>5, <1>6

LEMMA CellsLoop ==
  ASSUME NEW s \in Text
  PROVE  \E g \in [0..Len(s) -> Visibles] :
           /\ g[0] = [visible |-> TRUE, cells |-> <<>>]
           /\ \A n \in 1..Len(s) : g[n] = Seen(g[n - 1], s[n])
           /\ Cells(s) = g[Len(s)].cells
<1> DEFINE copied[n \in 0..Len(s)] ==
             IF n = 0 THEN [visible |-> TRUE, cells |-> <<>>]
             ELSE LET before == copied[n - 1]
                  IN  IF s[n] \in {"START", "END"} THEN [before EXCEPT !.visible = s[n] = "END"]
                      ELSE IF ~before.visible THEN before
                      ELSE [before EXCEPT !.cells = Filled(@, s[n])]
<1>1. PICK N \in Nat : N = Len(s) /\ \A n \in 1..N : s[n] \in Char
  BY Characters
<1>2. PICK base \in Visibles : base = [visible |-> TRUE, cells |-> <<>>]
  BY NothingToCopy DEF Visibles
<1>3. PICK step \in [1..N -> [Visibles -> Visibles]] :
        \A n \in 1..N, r \in Visibles : step[n][r] = Seen(r, s[n])
  <2>1. [n \in 1..N |-> [r \in Visibles |-> Seen(r, s[n])]] \in [1..N -> [Visibles -> Visibles]]
    BY <1>1, SeenType
  <2> QED BY <2>1
<1>4. PICK g \in [0..N -> Visibles] : Loop(g, base, step, N)
  BY LoopsEnd
<1>5. g[0] = base /\ \A n \in 1..N : g[n] = Seen(g[n - 1], s[n])
  <2>1. \A n \in 1..N : n - 1 \in 0..N
    OBVIOUS
  <2> QED BY <1>3, <1>4, <2>1 DEF Loop
<1>6. g = [n \in 0..N |-> IF n = 0 THEN [visible |-> TRUE, cells |-> <<>>]
                          ELSE Seen(g[n - 1], s[n])]
  BY <1>2, <1>5
<1>7. copied = [n \in 0..N |-> IF n = 0 THEN [visible |-> TRUE, cells |-> <<>>]
                               ELSE Seen(copied[n - 1], s[n])]
  BY <1>1, <1>6 DEF Seen
<1>8. Cells(s) = copied[N].cells
  BY <1>1 DEF Cells
<1> HIDE DEF copied
<1> DEFINE G == {n \in Nat : n <= N => copied[n] = g[n]}
<1>9. 0 \in G
  BY <1>2, <1>5, <1>7
<1>10. \A n \in 1..N : n - 1 \in G => n \in G
  <2> SUFFICES ASSUME NEW n \in 1..N, copied[n - 1] = g[n - 1] PROVE copied[n] = g[n]
    OBVIOUS
  <2>1. n \in 0..N /\ n # 0
    OBVIOUS
  <2>2. copied[n] = Seen(copied[n - 1], s[n])
    BY <1>7, <2>1
  <2> QED BY <1>5, <2>2
<1> HIDE DEF G
<1>11. 0..N \subseteq G
  BY <1>9, <1>10, Steps
<1>12. copied[N] = g[N]
  BY <1>11 DEF G
<1> QED BY <1>1, <1>2, <1>5, <1>8, <1>12

LEMMA CellsType ==
  ASSUME NEW s \in Text
  PROVE  Cells(s) \in Text
<1>1. Len(s) \in Nat
  BY Characters
<1> QED BY <1>1, CellsLoop DEF Visibles

(* A cell's bytes. *)
BytesOf(c) == IF c \in Wide THEN <<c, "+">> ELSE <<c>>

LEMMA BytesType ==
  ASSUME NEW cells \in Text
  PROVE  Bytes(cells) \in Text
<1> DEFINE copy[n \in 0..Len(cells)] ==
             IF n = 0 THEN <<>>
             ELSE copy[n - 1] \o (IF cells[n] \in Wide THEN <<cells[n], "+">> ELSE <<cells[n]>>)
<1>1. PICK N \in Nat : N = Len(cells) /\ \A n \in 1..N : cells[n] \in Char
  BY Characters
<1>2. PICK base \in Text : base = <<>>
  BY NothingToCopy
<1>3. ASSUME NEW n \in 1..N, NEW t \in Text PROVE t \o BytesOf(cells[n]) \in Text
  <2>1. cells[n] \in Char /\ "+" \in Char
    BY <1>1, RedisplayAssumption
  <2>2. BytesOf(cells[n]) \in Text
    BY <2>1, ShortTexts DEF BytesOf
  <2> QED BY <2>2, Pieced
<1>4. PICK step \in [1..N -> [Text -> Text]] :
        \A n \in 1..N, t \in Text : step[n][t] = t \o BytesOf(cells[n])
  <2>1. [n \in 1..N |-> [t \in Text |-> t \o BytesOf(cells[n])]] \in [1..N -> [Text -> Text]]
    BY <1>3
  <2> QED BY <2>1
<1>5. PICK g \in [0..N -> Text] : Loop(g, base, step, N)
  BY LoopsEnd
<1>6. g[0] = base /\ \A n \in 1..N : g[n] = g[n - 1] \o BytesOf(cells[n])
  <2>1. \A n \in 1..N : n - 1 \in 0..N
    OBVIOUS
  <2> QED BY <1>4, <1>5, <2>1 DEF Loop
<1>7. g = [n \in 0..N |-> IF n = 0 THEN <<>> ELSE g[n - 1] \o BytesOf(cells[n])]
  BY <1>2, <1>6
<1>8. copy = [n \in 0..N |-> IF n = 0 THEN <<>> ELSE copy[n - 1] \o BytesOf(cells[n])]
  BY <1>1, <1>7 DEF BytesOf
<1>9. Bytes(cells) = copy[N]
  BY <1>1 DEF Bytes
<1> HIDE DEF copy
<1> DEFINE G == {n \in Nat : n <= N => copy[n] \in Text}
<1>10. 0 \in G
  BY <1>2, <1>8
<1>11. \A n \in 1..N : n - 1 \in G => n \in G
  <2> SUFFICES ASSUME NEW n \in 1..N, copy[n - 1] \in Text PROVE copy[n] \in Text
    OBVIOUS
  <2>1. n \in 0..N /\ n # 0
    OBVIOUS
  <2>2. copy[n] = copy[n - 1] \o BytesOf(cells[n])
    BY <1>8, <2>1
  <2> QED BY <1>3, <2>2
<1> HIDE DEF G
<1>12. 0..N \subseteq G
  BY <1>10, <1>11, Steps
<1> QED BY <1>9, <1>12 DEF G

-----------------------------------------------------------------------------
(* What is written back *)

LEMMA GreatestElement ==
  ASSUME NEW N \in Nat, NEW T \in SUBSET (0..N), T # {}
  PROVE  \E m \in T : \A k \in T : k <= m
<1> DEFINE U == {i \in 0..N : N - i \in T}
<1>1. U \in SUBSET Nat /\ U # {}
  <2>1. PICK k \in T : TRUE
    OBVIOUS
  <2>2. k \in 0..N /\ N - k \in 0..N /\ N - (N - k) = k
    OBVIOUS
  <2>3. N - k \in U
    BY <2>1, <2>2
  <2>4. U \in SUBSET Nat
    OBVIOUS
  <2> HIDE DEF U
  <2> QED BY <2>3, <2>4
<1>2. PICK m \in U : \A k \in U : m <= k
  BY <1>1, LeastElement
<1>3. N - m \in T /\ m \in 0..N
  OBVIOUS
<1>4. ASSUME NEW k \in T PROVE k <= N - m
  <2>1. k \in 0..N /\ N - k \in 0..N /\ N - (N - k) = k
    OBVIOUS
  <2>2. N - k \in U
    BY <2>1
  <2>3. m <= N - k
    BY <1>2, <2>2
  <2> QED BY <1>3, <2>1, <2>3
<1> QED BY <1>3, <1>4

(* Where the code begins whose END is copy[p + 1], counted from 0. *)
IsBlockStart(copy, p, q) ==
  (q = 0 \/ copy[q + 1] = "START") /\ \A r \in q + 1..p : copy[r + 1] # "START"

LEMMA BlocksStart ==
  ASSUME NEW copy, NEW p \in Nat
  PROVE  CodeStart(copy, p) \in 0..p /\ IsBlockStart(copy, p, CodeStart(copy, p))
<1> DEFINE T == {q \in 0..p : q = 0 \/ copy[q + 1] = "START"}
<1>1. PICK m \in T : \A k \in T : k <= m
  <2>1. T \in SUBSET (0..p) /\ 0 \in T
    OBVIOUS
  <2> HIDE DEF T
  <2> QED BY <2>1, GreatestElement
<1>2. m \in 0..p /\ IsBlockStart(copy, p, m)
  <2>1. ASSUME NEW r \in m + 1..p, copy[r + 1] = "START" PROVE FALSE
    <3>1. r \in T
      BY <2>1
    <3> QED BY <1>1, <3>1
  <2> QED BY <2>1 DEF IsBlockStart
<1> HIDE DEF T
<1>3. \E q \in 0..p : IsBlockStart(copy, p, q)
  BY <1>2
<1> QED BY <1>3 DEF CodeStart, IsBlockStart

(* The recursion of Unwritten(). *)
Skipped(g, copy, p) ==
  IF p = 0 \/ copy[p + 1] # "END" THEN p
  ELSE IF CodeStart(copy, p) = 0 THEN 0 ELSE g[CodeStart(copy, p) - 1]

LEMMA SkippingIsPossible ==
  ASSUME NEW copy, NEW N \in Nat
  PROVE  \E g \in [0..N -> Nat] : \A p \in 0..N : g[p] \in 0..p /\ g[p] = Skipped(g, copy, p)
<1> DEFINE Good(n) ==
             \E g \in [0..n -> Nat] : \A p \in 0..n : g[p] \in 0..p /\ g[p] = Skipped(g, copy, p)
           G == {n \in Nat : Good(n)}
<1>1. Good(0)
  <2>1. PICK g \in [0..0 -> Nat] : g = [k \in 0..0 |-> 0]
    OBVIOUS
  <2>2. \A p \in 0..0 : g[p] \in 0..p /\ g[p] = Skipped(g, copy, p)
    BY <2>1 DEF Skipped
  <2> QED BY <2>2
<1>2. ASSUME NEW n \in 1..N, Good(n - 1) PROVE Good(n)
  <2>1. PICK g \in [0..n - 1 -> Nat] :
          \A p \in 0..n - 1 : g[p] \in 0..p /\ g[p] = Skipped(g, copy, p)
    BY <1>2
  <2>2. n \in Nat /\ \A p \in 0..n : CodeStart(copy, p) \in 0..p
    BY BlocksStart
  <2>3. PICK next \in 0..n : next = Skipped(g, copy, n)
    <3>1. CodeStart(copy, n) \in 0..n
      BY <2>2
    <3>2. CodeStart(copy, n) # 0 => g[CodeStart(copy, n) - 1] \in 0..n
      <4> SUFFICES ASSUME CodeStart(copy, n) # 0 PROVE g[CodeStart(copy, n) - 1] \in 0..n
        OBVIOUS
      <4>1. PICK q \in 0..n - 1 : q = CodeStart(copy, n) - 1
        BY <3>1
      <4>2. g[q] \in 0..q
        BY <2>1
      <4> QED BY <4>1, <4>2
    <3>3. Skipped(g, copy, n) \in 0..n
      BY <2>2, <3>2 DEF Skipped
    <3> QED BY <3>3
  <2>4. PICK h \in [0..n -> Nat] : \A k \in 0..n : h[k] = IF k = n THEN next ELSE g[k]
    <3>1. [k \in 0..n |-> IF k = n THEN next ELSE g[k]] \in [0..n -> Nat]
      OBVIOUS
    <3> QED BY <3>1
  <2>5. ASSUME NEW p \in 0..n PROVE h[p] \in 0..p /\ h[p] = Skipped(h, copy, p)
    <3>1. Skipped(h, copy, p) = Skipped(g, copy, p)
      <4>1. CodeStart(copy, p) # 0 => h[CodeStart(copy, p) - 1] = g[CodeStart(copy, p) - 1]
        <5>0. CodeStart(copy, p) \in 0..p
          BY <2>2
        <5>1. CodeStart(copy, p) # 0 =>
                CodeStart(copy, p) - 1 \in 0..n /\ CodeStart(copy, p) - 1 # n
          <6>1. PICK q \in 0..p : q = CodeStart(copy, p)
            BY <5>0
          <6>2. q # 0 => q - 1 \in 0..n /\ q - 1 # n
            BY <2>2
          <6> QED BY <6>1, <6>2
        <5> QED BY <2>4, <5>1
      <4> QED BY <4>1 DEF Skipped
    <3>2. CASE p = n
      BY <2>3, <2>4, <3>1, <3>2
    <3>3. CASE p # n
      BY <2>1, <2>4, <3>1, <3>3
    <3> QED BY <3>2, <3>3
  <2> QED BY <2>5
<1> HIDE DEF Good
<1>3. 0 \in G /\ \A n \in 1..N : n - 1 \in G => n \in G
  BY <1>1, <1>2
<1> HIDE DEF G
<1>4. 0..N \subseteq G
  BY <1>3, Steps
<1>5. Good(N)
  BY <1>4 DEF G
<1> QED BY <1>5 DEF Good

(* Unwritten() keeps the first characters, and how many is as in the code. *)
LEMMA UnwrittenSkips ==
  ASSUME NEW copy \in Text, copy # <<>>
  PROVE  \E g \in [0..Len(copy) - 1 -> Nat] :
           /\ \A p \in 0..Len(copy) - 1 : g[p] \in 0..p /\ g[p] = Skipped(g, copy, p)
           /\ Unwritten(copy) = SubSeq(copy, 1, g[Len(copy) - 1])
<1> DEFINE SkipCode[p \in 0..Len(copy) - 1] ==
             IF p = 0 \/ copy[p + 1] # "END" THEN p
             ELSE IF CodeStart(copy, p) = 0 THEN 0 ELSE SkipCode[CodeStart(copy, p) - 1]
<1>1. Len(copy) \in Nat \ {0}
  BY Characters, EmptySeq DEF Text
<1>2. PICK N \in Nat : N = Len(copy) - 1
  BY <1>1
<1>3. PICK g \in [0..N -> Nat] : \A p \in 0..N : g[p] \in 0..p /\ g[p] = Skipped(g, copy, p)
  BY SkippingIsPossible
<1>4. g = [p \in 0..N |-> Skipped(g, copy, p)]
  BY <1>3
<1>5. SkipCode = [p \in 0..N |-> Skipped(SkipCode, copy, p)]
  BY <1>2, <1>4 DEF Skipped
<1>6. Unwritten(copy) = SubSeq(copy, 1, SkipCode[Len(copy) - 1])
  BY DEF Unwritten
<1> HIDE DEF SkipCode
<1> DEFINE G == {n \in Nat : n <= N => \A p \in 0..n : SkipCode[p] = g[p]}
<1>7. 0 \in G
  <2>1. SkipCode[0] = 0 /\ g[0] = 0
    BY <1>3, <1>5 DEF Skipped
  <2> QED BY <2>1
<1>8. ASSUME NEW n \in 1..N, n - 1 \in G PROVE n \in G
  <2>1. \A p \in 0..n - 1 : SkipCode[p] = g[p]
    BY <1>8
  <2>2. CodeStart(copy, n) \in 0..n
    BY BlocksStart
  <2>3. CodeStart(copy, n) # 0 => SkipCode[CodeStart(copy, n) - 1] = g[CodeStart(copy, n) - 1]
    BY <2>1, <2>2
  <2>4. SkipCode[n] = g[n]
    <3>1. SkipCode[n] = Skipped(SkipCode, copy, n) /\ g[n] = Skipped(g, copy, n)
      BY <1>3, <1>5
    <3> QED BY <2>3, <3>1 DEF Skipped
  <2>5. \A p \in 0..n : p = n \/ p \in 0..n - 1
    OBVIOUS
  <2> QED BY <2>1, <2>4, <2>5
<1> HIDE DEF G
<1>9. 0..N \subseteq G
  BY <1>7, <1>8, Steps
<1>10. SkipCode[N] = g[N]
  BY <1>9 DEF G
<1> QED BY <1>2, <1>3, <1>6, <1>10

LEMMA UnwrittenType ==
  ASSUME NEW copy \in Text
  PROVE  Unwritten(copy) \in Text
<1>1. CASE copy = <<>>
  BY <1>1, NothingToCopy DEF Unwritten
<1>2. CASE copy # <<>>
  <2>1. Len(copy) \in Nat \ {0}
    BY <1>2, Characters, EmptySeq DEF Text
  <2>2. PICK g \in [0..Len(copy) - 1 -> Nat] :
           /\ \A p \in 0..Len(copy) - 1 : g[p] \in 0..p /\ g[p] = Skipped(g, copy, p)
           /\ Unwritten(copy) = SubSeq(copy, 1, g[Len(copy) - 1])
    BY <1>2, UnwrittenSkips
  <2>3. PICK b \in Int : b = g[Len(copy) - 1] /\ b <= Len(copy)
    BY <2>1, <2>2
  <2>4. SubSeq(copy, 1, b) \in Text
    BY <2>3, Piece
  <2> QED BY <2>2, <2>3, <2>4
<1> QED BY <1>1, <1>2

(* The loop of unbackspace(). *)
Backspaced(t, c) ==
  IF c = "CR" THEN <<>> ELSE IF c = "BS" THEN Unwritten(t) ELSE Append(t, c)

LEMMA UnbackspaceLoop ==
  ASSUME NEW s \in Text
  PROVE  \E g \in [0..Len(s) -> Text] :
           /\ g[0] = <<>>
           /\ \A n \in 1..Len(s) : g[n] = Backspaced(g[n - 1], s[n])
           /\ unbackspace(s) = g[Len(s)]
<1> DEFINE copy[n \in 0..Len(s)] ==
             IF n = 0 \/ s[n] = "CR" THEN <<>>
             ELSE IF s[n] = "BS" THEN Unwritten(copy[n - 1]) ELSE Append(copy[n - 1], s[n])
<1>1. PICK N \in Nat : N = Len(s) /\ \A n \in 1..N : s[n] \in Char
  BY Characters
<1>2. PICK base \in Text : base = <<>>
  BY NothingToCopy
<1>3. PICK step \in [1..N -> [Text -> Text]] :
        \A n \in 1..N, t \in Text : step[n][t] = Backspaced(t, s[n])
  <2>1. ASSUME NEW n \in 1..N, NEW t \in Text PROVE Backspaced(t, s[n]) \in Text
    <3>1. Unwritten(t) \in Text /\ Append(t, s[n]) \in Text
      BY <1>1, UnwrittenType, OneMore
    <3> QED BY <1>2, <3>1 DEF Backspaced
  <2>2. [n \in 1..N |-> [t \in Text |-> Backspaced(t, s[n])]] \in [1..N -> [Text -> Text]]
    BY <2>1
  <2> QED BY <2>2
<1>4. PICK g \in [0..N -> Text] : Loop(g, base, step, N)
  BY LoopsEnd
<1>5. g[0] = base /\ \A n \in 1..N : g[n] = Backspaced(g[n - 1], s[n])
  <2>1. \A n \in 1..N : n - 1 \in 0..N
    OBVIOUS
  <2> QED BY <1>3, <1>4, <2>1 DEF Loop
<1>6. g = [n \in 0..N |-> IF n = 0 THEN <<>> ELSE Backspaced(g[n - 1], s[n])]
  BY <1>2, <1>5
<1>7. copy = [n \in 0..N |-> IF n = 0 THEN <<>> ELSE Backspaced(copy[n - 1], s[n])]
  <2>1. g = [n \in 0..N |-> IF n = 0 \/ s[n] = "CR" THEN <<>>
             ELSE IF s[n] = "BS" THEN Unwritten(g[n - 1]) ELSE Append(g[n - 1], s[n])]
    BY <1>6 DEF Backspaced
  <2>2. copy = [n \in 0..N |-> IF n = 0 \/ s[n] = "CR" THEN <<>>
             ELSE IF s[n] = "BS" THEN Unwritten(copy[n - 1]) ELSE Append(copy[n - 1], s[n])]
    BY <1>1, <2>1
  <2> HIDE DEF copy
  <2> QED BY <2>2 DEF Backspaced
<1>8. unbackspace(s) = copy[N]
  BY <1>1 DEF unbackspace
<1> HIDE DEF copy
<1> DEFINE G == {n \in Nat : n <= N => copy[n] = g[n]}
<1>9. 0 \in G
  BY <1>6, <1>7
<1>10. \A n \in 1..N : n - 1 \in G => n \in G
  <2> SUFFICES ASSUME NEW n \in 1..N, copy[n - 1] = g[n - 1] PROVE copy[n] = g[n]
    OBVIOUS
  <2>1. copy[n] = Backspaced(copy[n - 1], s[n])
    BY <1>7
  <2> QED BY <1>5, <2>1
<1> HIDE DEF G
<1>11. 0..N \subseteq G
  BY <1>9, <1>10, Steps
<1>12. copy[N] = g[N]
  BY <1>11 DEF G
<1> QED BY <1>1, <1>2, <1>5, <1>8, <1>12

-----------------------------------------------------------------------------
(* Codes that are replaced *)

LEMMA UnbackspaceType ==
  ASSUME NEW s \in Text
  PROVE  unbackspace(s) \in Text
<1>1. Len(s) \in Nat
  BY Characters
<1> QED BY <1>1, UnbackspaceLoop

LEMMA SetOffType ==
  ASSUME NEW code \in Text
  PROVE  SetOff(code) \in Text
<1>1. "START" \in Char /\ "END" \in Char
  BY CharAssumption DEF Unprintable
<1>2. <<"START">> \in Text /\ <<"END">> \in Text
  BY <1>1, ShortTexts
<1> QED BY <1>2, Pieced DEF SetOff

(* What looks like a colour code is within the text. *)
LEMMA InvisibleWithin ==
  ASSUME NEW s \in Text, NEW i \in 1..Len(s)
  PROVE  InvisibleAt(s, i) \in Nat /\ i + InvisibleAt(s, i) - 1 <= Len(s)
<1>1. PICK N \in Nat : N = Len(s)
  BY Characters
<1>2. CASE ~IsSequenceAt(s, i, {"[", "]"})
  BY <1>1, <1>2 DEF InvisibleAt
<1>3. CASE IsSequenceAt(s, i, {"[", "]"})
  <2>1. i + 2 \in 1..Len(s) + 1
    BY <1>1, <1>3 DEF IsSequenceAt
  <2>2. PICK j \in 1..Len(s) + 1 : j = PastAll(s, i + 2, Digits) /\ j >= i + 2
    BY <1>1, <2>1, Past
  <2>3. PICK k \in 1..Len(s) + 1 : k = PastAll(s, j, {"m"}) /\ k >= j
    BY <1>1, Past
  <2>4. InvisibleAt(s, i) = k - i
    BY <1>3, <2>2, <2>3 DEF InvisibleAt
  <2> QED BY <1>1, <2>2, <2>3, <2>4
<1> QED BY <1>2, <1>3

LEMMA ColourCodeWithin ==
  ASSUME NEW s \in Text, NEW i \in 1..Len(s)
  PROVE  ColourCodeAt(s, i) \in Nat /\ i + ColourCodeAt(s, i) - 1 <= Len(s)
<1>1. PICK N \in Nat : N = Len(s)
  BY Characters
<1>2. CASE ~IsSequenceAt(s, i, {"["})
  BY <1>1, <1>2 DEF ColourCodeAt
<1>3. CASE IsSequenceAt(s, i, {"["})
  <2>1. i + 2 \in 1..Len(s) + 1
    BY <1>1, <1>3 DEF IsSequenceAt
  <2>2. PICK j \in 1..Len(s) + 1 : j = PastAll(s, i + 2, Digits) /\ j >= i + 2
    BY <1>1, <2>1, Past
  <2>3. ColourCodeAt(s, i) = IF j <= Len(s) /\ s[j] = "m" THEN j - i + 1 ELSE 0
    BY <1>3, <2>2 DEF ColourCodeAt
  <2> QED BY <1>1, <2>2, <2>3
<1> QED BY <1>2, <1>3

LEMMA ProtectedWithin ==
  ASSUME NEW s \in Text, NEW i \in 1..Len(s), NEW keep_colours \in BOOLEAN
  PROVE  /\ ProtectedAt(s, i, keep_colours) \in Nat
         /\ i + ProtectedAt(s, i, keep_colours) - 1 <= Len(s)
<1>1. PICK N \in Nat : N = Len(s)
  BY Characters
<1> QED BY <1>1, ColourCodeWithin DEF ProtectedAt

LEMMA UnwantedWithin ==
  ASSUME NEW s \in Text, NEW i \in 1..Len(s)
  PROVE  UnwantedAt(s, i) \in Nat /\ i + UnwantedAt(s, i) - 1 <= Len(s)
<1>1. PICK N \in Nat : N = Len(s)
  BY Characters
<1> DEFINE past == IF IsSequenceAt(s, i, {"["}) THEN PastAll(s, i + 2, Digits) ELSE i + 1
<1>2. past \in i + 1..Len(s) + 1
  <2>1. CASE IsSequenceAt(s, i, {"["})
    <3>1. i + 2 \in 1..Len(s) + 1
      BY <1>1, <2>1 DEF IsSequenceAt
    <3>2. PICK j \in 1..Len(s) + 1 : j = PastAll(s, i + 2, Digits) /\ j >= i + 2
      BY <1>1, <3>1, Past
    <3> QED BY <1>1, <2>1, <3>2
  <2>2. CASE ~IsSequenceAt(s, i, {"["})
    BY <1>1, <2>2
  <2> QED BY <2>1, <2>2
<1>3. UnwantedAt(s, i) =
        IF s[i] # "ESC" \/ past > Len(s) \/ s[past] \in Unprintable THEN 0 ELSE past - i + 1
  BY DEF UnwantedAt
<1> HIDE DEF past
<1> QED BY <1>1, <1>2, <1>3

LEMMA IgnoredWithin ==
  ASSUME NEW s \in Text, NEW i \in 1..Len(s)
  PROVE  IgnoredAt(s, i) \in Nat /\ i + IgnoredAt(s, i) - 1 <= Len(s)
<1>1. PICK N \in Nat : N = Len(s)
  BY Characters
<1> DEFINE ends == {j \in i + 1..Len(s) : s[j] = "END" /\ \A k \in i + 1..j - 1 : s[k] # "END"}
           j == CHOOSE j \in ends : TRUE
<1>2. IgnoredAt(s, i) = IF s[i] = "START" /\ ends # {} THEN j - i + 1 ELSE 0
  BY DEF IgnoredAt
<1>3. ends # {} => j \in ends
  OBVIOUS
<1>4. ends # {} => j \in i + 1..Len(s)
  BY <1>3
<1> HIDE DEF ends, j
<1> QED BY <1>1, <1>2, <1>4

LEMMA SpecialType ==
  ASSUME NEW s \in Text, NEW length, Matches(s, length), NEW by \in [1..Len(s) -> Text]
  PROVE  replace_special(s, length, by) \in Text
<1> DEFINE ignored == [i \in 1..Len(s) |-> IgnoredAt(s, i)]
           l == [i \in 1..Len(s) |-> IF ignored[i] > 0 THEN ignored[i] ELSE length[i]]
           b == [i \in 1..Len(s) |-> IF ignored[i] > 0 THEN SubSeq(s, i, i + ignored[i] - 1)
                                     ELSE by[i]]
<1>1. PICK N \in Nat : N = Len(s)
  BY Characters
<1>2. \A i \in 1..Len(s) : ignored[i] \in Nat /\ i + ignored[i] - 1 <= Len(s)
  BY IgnoredWithin
<1>3. replace_special(s, length, by) = Replaced(s, l, b)
  BY DEF replace_special
<1> HIDE DEF ignored
<1>4. Matches(s, l)
  BY <1>2 DEF Matches
<1>5. b \in [1..Len(s) -> Text]
  <2> SUFFICES ASSUME NEW i \in 1..Len(s), ignored[i] > 0
               PROVE  SubSeq(s, i, i + ignored[i] - 1) \in Text
    OBVIOUS
  <2>1. PICK a \in Nat \ {0}, c \in Int : a = i /\ c = i + ignored[i] - 1 /\ c <= Len(s)
    <3>1. ignored[i] \in Nat /\ i + ignored[i] - 1 <= Len(s) /\ i \in Nat \ {0}
      BY <1>1, <1>2
    <3>2. i + ignored[i] - 1 \in Int
      BY <3>1
    <3> QED BY <3>1, <3>2
  <2>2. SubSeq(s, a, c) \in Text
    BY <2>1, Piece
  <2> QED BY <2>1, <2>2
<1> HIDE DEF l, b
<1> QED BY <1>3, <1>4, <1>5, ReplacedType

(* Matches set off. *)
LEMMA SettingOff ==
  ASSUME NEW s \in Text, NEW length, Matches(s, length)
  PROVE  [i \in 1..Len(s) |-> SetOff(SubSeq(s, i, i + length[i] - 1))] \in [1..Len(s) -> Text]
<1>1. Len(s) \in Nat
  BY Characters
<1> SUFFICES ASSUME NEW i \in 1..Len(s)
             PROVE  SetOff(SubSeq(s, i, i + length[i] - 1)) \in Text
  OBVIOUS
<1>2. PICK a \in Nat \ {0}, c \in Int : a = i /\ c = i + length[i] - 1 /\ c <= Len(s)
  <2>1. i \in Nat \ {0} /\ length[i] \in Nat /\ i + length[i] - 1 <= Len(s)
    BY <1>1 DEF Matches
  <2>2. i + length[i] - 1 \in Int
    BY <2>1
  <2> QED BY <2>1, <2>2
<1>3. SubSeq(s, a, c) \in Text
  BY <1>2, Piece
<1> QED BY <1>2, <1>3, SetOffType

LEMMA MarkedType ==
  ASSUME NEW s \in Text
  PROVE  mark_invisible(s) \in Text
<1>1. PICK length \in [1..Len(s) -> Nat] :
        length = [i \in 1..Len(s) |-> InvisibleAt(s, i)] /\ Matches(s, length)
  <2> DEFINE f == [i \in 1..Len(s) |-> InvisibleAt(s, i)]
  <2>1. f \in [1..Len(s) -> Nat] /\ \A i \in 1..Len(s) : i + f[i] - 1 <= Len(s)
    BY InvisibleWithin
  <2>2. Matches(s, f)
    BY <2>1 DEF Matches
  <2> QED BY <2>1, <2>2
<1>2. PICK by \in [1..Len(s) -> Text] :
        by = [i \in 1..Len(s) |-> SetOff(SubSeq(s, i, i + length[i] - 1))]
  BY <1>1, SettingOff
<1>3. mark_invisible(s) = IF Contains(s, "START") THEN s ELSE Replaced(s, length, by)
  BY <1>1, <1>2 DEF mark_invisible
<1>4. Replaced(s, length, by) \in Text
  BY <1>1, ReplacedType
<1> QED BY <1>3, <1>4

LEMMA ProtectedType ==
  ASSUME NEW s \in Text
  PROVE  protect_or_cleanup(s) \in Text
<1>1. PICK keep \in BOOLEAN : keep <=> mode # "bleach"
  OBVIOUS
<1>2. PICK protected \in [1..Len(s) -> Nat] :
        /\ protected = [i \in 1..Len(s) |-> ProtectedAt(s, i, keep)] /\ Matches(s, protected)
  <2> DEFINE f == [i \in 1..Len(s) |-> ProtectedAt(s, i, keep)]
  <2>1. f \in [1..Len(s) -> Nat] /\ \A i \in 1..Len(s) : i + f[i] - 1 <= Len(s)
    BY ProtectedWithin
  <2>2. Matches(s, f)
    BY <2>1 DEF Matches
  <2> QED BY <2>1, <2>2
<1>3. PICK by \in [1..Len(s) -> Text] :
        by = [i \in 1..Len(s) |-> SetOff(SubSeq(s, i, i + protected[i] - 1))]
  BY <1>2, SettingOff
<1>4. PICK t \in Text : t = replace_special(s, protected, by)
  BY <1>2, SpecialType
<1>5. PICK unwanted \in [1..Len(t) -> Nat] :
        unwanted = [i \in 1..Len(t) |-> UnwantedAt(t, i)] /\ Matches(t, unwanted)
  <2> DEFINE f == [i \in 1..Len(t) |-> UnwantedAt(t, i)]
  <2>1. f \in [1..Len(t) -> Nat] /\ \A i \in 1..Len(t) : i + f[i] - 1 <= Len(t)
    BY UnwantedWithin
  <2>2. Matches(t, f)
    BY <2>1 DEF Matches
  <2> QED BY <2>1, <2>2
<1>6. PICK nothing \in [1..Len(t) -> Text] : nothing = [i \in 1..Len(t) |-> <<>>]
  BY NothingToCopy
<1>7. protect_or_cleanup(s) = replace_special(t, unwanted, nothing)
  BY <1>1, <1>2, <1>3, <1>4, <1>5, <1>6 DEF protect_or_cleanup
<1> QED BY <1>5, <1>7, SpecialType

-----------------------------------------------------------------------------
(* Cooking *)

LEMMA FirstAtWithin ==
  ASSUME NEW s \in Text
  PROVE  /\ strstr(s, rmcup) \in Nat
         /\ strstr(s, rmcup) # 0 => strstr(s, rmcup) + Len(rmcup) \in 1..Len(s) + 1
<1>1. PICK N \in Nat : N = Len(s)
  BY Characters
<1>2. PICK c \in Codes : c = rmcup /\ Len(c) \in Nat \ {0}
  BY CodesAreDistinct
<1>3. PICK i \in 1..Len(s) + 1 : i = 1
  BY <1>1
<1>4. From(s, i) = s
  BY <1>3, SubSeqFull DEF From, Text
<1>5. LET r == strstr(From(s, i), c)
      IN  \/ r = 0 /\ \A q \in i..Len(s) : ~CodeAt(s, q, c)
          \/ r \in 1..Len(s) - i + 1 /\ CodeAt(s, i + r - 1, c)
  BY StrstrFindsCode
<1>6. \/ strstr(s, c) = 0
      \/ strstr(s, c) \in 1..Len(s) /\ strstr(s, c) + Len(c) - 1 <= Len(s)
  BY <1>1, <1>2, <1>3, <1>4, <1>5 DEF CodeAt
<1> QED BY <1>1, <1>2, <1>6

LEMMA NonRubbishType ==
  ASSUME NEW s \in Text
  PROVE  NonRubbish(s) \in Text
<1>1. CASE strstr(s, rmcup) = 0
  BY <1>1 DEF NonRubbish
<1>2. CASE strstr(s, rmcup) # 0
  <2>1. PICK i \in 1..Len(s) + 1 : i = strstr(s, rmcup) + Len(rmcup)
    BY <1>2, FirstAtWithin
  <2> QED BY <1>2, <2>1, FromProperties DEF NonRubbish
<1> QED BY <1>1, <1>2

LEMMA LastLineType ==
  ASSUME NEW s \in Text
  PROVE  AfterLastNL(s) \in Text
<1>1. PICK N \in Nat : N = Len(s)
  BY Characters
<1> DEFINE ends == {i \in 1..N : s[i] = "NL"}
           last == CHOOSE i \in ends : \A j \in ends : j <= i
<1>2. CASE ends = {}
  BY <1>1, <1>2 DEF AfterLastNL
<1>3. CASE ends # {}
  <2>1. ends \in SUBSET (0..N)
    OBVIOUS
  <2>2. \E m \in ends : \A k \in ends : k <= m
    <3> HIDE DEF ends
    <3> QED BY <1>3, <2>1, GreatestElement
  <2>3. last \in ends
    BY <2>2
  <2>4. last \in 1..N
    BY <2>3
  <2>5. AfterLastNL(s) = From(s, last + 1)
    BY <1>1, <1>3 DEF AfterLastNL
  <2> HIDE DEF last, ends
  <2>6. PICK i \in 1..Len(s) + 1 : i = last + 1
    BY <1>1, <2>4
  <2> QED BY <2>5, <2>6, FromProperties
<1> QED BY <1>2, <1>3

LEMMA ColourCodes ==
  /\ colour_start \in Text /\ colour_end \in Text
  /\ colour_start = <<"ESC", "[", "1", ";", "1", "m">> /\ colour_end = <<"ESC", "[", "1", "m">>
<1>1. {"ESC", "[", "1", ";", "m"} \subseteq Char
  BY CharAssumption DEF Unprintable, Digits
<1>2. PICK e \in Char, b \in Char, o \in Char, c \in Char, m \in Char :
        e = "ESC" /\ b = "[" /\ o = "1" /\ c = ";" /\ m = "m"
  BY <1>1
<1>3. <<e, b, o, c, o, m>> \in Seq(Char) /\ <<e, b, o, m>> \in Seq(Char)
  OBVIOUS
<1> QED BY <1>2, <1>3 DEF colour_start, colour_end, Text

LEMMA ColouredType ==
  ASSUME NEW s \in Text
  PROVE  colourise(s) \in Text
<1>1. colour_start \o s \in Text
  BY ColourCodes, Pieced
<1>2. (colour_start \o s) \o colour_end \in Text
  BY <1>1, ColourCodes, Pieced
<1> QED BY <1>2 DEF colourise

LEMMA CookedType ==
  ASSUME NEW s \in Text
  PROVE  Cooked(s) \in Text
<1>1. slightly_cooked(s) \in Text
  BY NonRubbishType, ProtectedType, UnbackspaceType DEF slightly_cooked
<1> QED BY <1>1, ColouredType DEF Cooked

-----------------------------------------------------------------------------
(* The row *)

(* The function's memory fits the row, and no assertion has failed. *)
RowInv ==
  /\ ws_col \in Widths
  /\ raw_prompt \in Text /\ cooked_prompt \in Text \cup {NULL}
  /\ rl_line_buffer \in Seq(Letters) /\ rl_point \in 0..Len(rl_line_buffer)
  /\ hide_passwords \in BOOLEAN
  /\ display \in Displays /\ display.asserted
  /\ within_line_edit =>
       /\ cooked_prompt \in Text
       /\ display.line_start = 0 \/ display.line_start >= Len(prompt_without_ignore_markers)

(* The row shows the line, and the function knows what is on it. *)
RowShown ==
  within_line_edit /\ ~display.foreign =>
    /\ display.previous_line = display.row
    /\ Shown(display, prompt_without_ignore_markers, rl_line_buffer, rl_point, hide_passwords)

(* The wide characters of a prompt after which the user types are in the       *)
(* columns that a row shows which goes on to the right.                      *)
PromptFits == Edited => WideInRow(prompt_without_ignore_markers)

LEMMA TypedText ==
  ASSUME NEW line \in Seq(Letters)
  PROVE  line \in Text /\ Len(line) \in Nat /\ Plus(line) = {}
<1>1. Len(line) \in Nat /\ \A i \in 1..Len(line) : line[i] \in Letters
  BY LenProperties, ElementOfSeq
<1>2. Letters \subseteq Char /\ "+" \notin Letters
  BY RedisplayAssumption
<1>3. line \in Seq(Char)
  BY <1>1, <1>2, LenProperties
<1> QED BY <1>1, <1>2, <1>3 DEF Text, Plus

LEMMA PromptType ==
  /\ prompt_without_ignore_markers \in Text
       \/ ~(cooked_prompt = NULL \/ cooked_prompt \in Text)
  /\ \A s \in Text : Bytes(Cells(mark_invisible(s))) \in Text
<1>1. \A s \in Text : Bytes(Cells(mark_invisible(s))) \in Text
  BY MarkedType, CellsType, BytesType
<1> QED BY <1>1, NothingToCopy DEF prompt_without_ignore_markers

LEMMA Width ==
  ASSUME ws_col \in Widths
  PROVE  ws_col \in Nat /\ ws_col >= 2
BY RedisplayAssumption

-----------------------------------------------------------------------------
(* The user's line *)

LEMMA Inserted ==
  ASSUME NEW s \in Seq(Letters), NEW k \in 0..Len(s), NEW c \in Letters
  PROVE  InsertAt(s, k + 1, c) \in Seq(Letters) /\ Len(InsertAt(s, k + 1, c)) = Len(s) + 1
<1>1. Len(s) \in Nat /\ \A i \in 1..Len(s) : s[i] \in Letters
  BY LenProperties, ElementOfSeq
<1>2. PICK a \in Int, b \in Int : a = (k + 1) - 1 /\ b = k + 1 /\ a = k
  BY <1>1
<1>3. PICK u \in Seq(Letters) : u = SubSeq(s, 1, a) /\ Len(u) = a
  <2>1. \A i \in 1..a : s[i] \in Letters
    BY <1>1, <1>2
  <2>2. SubSeq(s, 1, a) \in Seq(Letters) /\ Len(SubSeq(s, 1, a)) = IF 1 <= a THEN a - 1 + 1 ELSE 0
    BY <2>1, SubSeqProperties
  <2>3. (IF 1 <= a THEN a - 1 + 1 ELSE 0) = a
    BY <1>1, <1>2
  <2> QED BY <2>2, <2>3
<1>4. PICK w \in Seq(Letters) : w = SubSeq(s, b, Len(s)) /\ Len(w) = Len(s) - a
  <2>1. \A i \in b..Len(s) : s[i] \in Letters
    BY <1>1, <1>2
  <2>2. /\ SubSeq(s, b, Len(s)) \in Seq(Letters)
        /\ Len(SubSeq(s, b, Len(s))) = IF b <= Len(s) THEN Len(s) - b + 1 ELSE 0
    BY <1>1, <2>1, SubSeqProperties
  <2>3. (IF b <= Len(s) THEN Len(s) - b + 1 ELSE 0) = Len(s) - a
    BY <1>1, <1>2
  <2> QED BY <2>2, <2>3
<1>5. <<c>> \in Seq(Letters) /\ Len(<<c>>) = 1
  OBVIOUS
<1>6. PICK v \in Seq(Letters) : v = u \o <<c>> /\ Len(v) = a + 1
  <2>1. u \o <<c>> \in Seq(Letters) /\ Len(u \o <<c>>) = Len(u) + Len(<<c>>)
    BY <1>5, ConcatProperties
  <2> QED BY <1>3, <1>5, <2>1
<1>7. v \o w \in Seq(Letters) /\ Len(v \o w) = Len(s) + 1
  <2>1. v \o w \in Seq(Letters) /\ Len(v \o w) = Len(v) + Len(w)
    BY ConcatProperties
  <2>2. (a + 1) + (Len(s) - a) = Len(s) + 1
    BY <1>1, <1>2
  <2> QED BY <1>4, <1>6, <2>1, <2>2
<1>8. InsertAt(s, k + 1, c) = v \o w
  BY <1>2, <1>3, <1>4, <1>6 DEF InsertAt
<1> QED BY <1>7, <1>8

LEMMA Removed ==
  ASSUME NEW s \in Seq(Letters), NEW k \in 1..Len(s)
  PROVE  RemoveAt(s, k) \in Seq(Letters) /\ Len(RemoveAt(s, k)) = Len(s) - 1
<1>1. Len(s) \in Nat /\ \A i \in 1..Len(s) : s[i] \in Letters
  BY LenProperties, ElementOfSeq
<1>2. PICK a \in Int, b \in Int : a = k - 1 /\ b = k + 1
  BY <1>1
<1>3. PICK u \in Seq(Letters) : u = SubSeq(s, 1, a) /\ Len(u) = a
  <2>1. \A i \in 1..a : s[i] \in Letters
    BY <1>1, <1>2
  <2>2. SubSeq(s, 1, a) \in Seq(Letters) /\ Len(SubSeq(s, 1, a)) = IF 1 <= a THEN a - 1 + 1 ELSE 0
    BY <2>1, SubSeqProperties
  <2>3. (IF 1 <= a THEN a - 1 + 1 ELSE 0) = a
    BY <1>1, <1>2
  <2> QED BY <2>2, <2>3
<1>4. PICK w \in Seq(Letters) : w = SubSeq(s, b, Len(s)) /\ Len(w) = Len(s) - k
  <2>1. \A i \in b..Len(s) : s[i] \in Letters
    BY <1>1, <1>2
  <2>2. /\ SubSeq(s, b, Len(s)) \in Seq(Letters)
        /\ Len(SubSeq(s, b, Len(s))) = IF b <= Len(s) THEN Len(s) - b + 1 ELSE 0
    BY <1>1, <2>1, SubSeqProperties
  <2>3. (IF b <= Len(s) THEN Len(s) - b + 1 ELSE 0) = Len(s) - k
    BY <1>1, <1>2
  <2> QED BY <2>2, <2>3
<1>5. u \o w \in Seq(Letters) /\ Len(u \o w) = a + (Len(s) - k)
  <2>1. u \o w \in Seq(Letters) /\ Len(u \o w) = Len(u) + Len(w)
    BY ConcatProperties
  <2> QED BY <1>3, <1>4, <2>1
<1>6. RemoveAt(s, k) = u \o w
  BY <1>2, <1>3, <1>4 DEF RemoveAt
<1> QED BY <1>1, <1>2, <1>5, <1>6

LEMMA Discarded ==
  ASSUME NEW s \in Seq(Letters), NEW k \in 0..Len(s)
  PROVE  From(s, k + 1) \in Seq(Letters)
<1>1. Len(s) \in Nat /\ \A i \in 1..Len(s) : s[i] \in Letters
  BY LenProperties, ElementOfSeq
<1>2. k + 1 \in Int /\ \A i \in k + 1..Len(s) : s[i] \in Letters
  BY <1>1
<1> QED BY <1>1, <1>2, SubSeqProperties DEF From

(* After every key: the row shows the line as it has become. *)
LEMMA KeyShows ==
  ASSUME RowInv, NEW line \in Seq(Letters), NEW point \in 0..Len(line), Key(line, point)
  PROVE  RowInv' /\ (term_cursor_hpos /\ PromptFits /\ RowShown => RowShown')
<1>1. PICK prompt \in Text : prompt = prompt_without_ignore_markers
  BY PromptType DEF RowInv
<1>2. /\ Edited /\ within_line_edit /\ within_line_edit'
      /\ rl_line_buffer' = line /\ rl_point' = point
      /\ hide_passwords' = hide_passwords /\ UNCHANGED textVars
      /\ display' = my_homegrown_redisplay(display, prompt, line, point, hide_passwords)
  BY <1>1 DEF Key, Edited, my_redisplay
<1>3. ws_col' = ws_col /\ raw_prompt' = raw_prompt /\ cooked_prompt' = cooked_prompt
  BY <1>2 DEF textVars
<1>4. prompt_without_ignore_markers' = prompt
  BY <1>1, <1>3 DEF prompt_without_ignore_markers
<1>5. line \in Text /\ Len(line) \in Nat /\ Plus(line) = {}
  BY TypedText
<1>6. /\ ws_col \in Widths /\ ws_col \in Nat /\ ws_col >= 2 /\ display \in Displays
      /\ hide_passwords \in BOOLEAN /\ display.asserted
      /\ display.line_start = 0 \/ display.line_start >= Len(prompt)
  BY <1>1, <1>2, Width DEF RowInv
<1>7. PICK r : r = my_homegrown_redisplay(display, prompt, line, point, hide_passwords)
  OBVIOUS
<1>8. /\ r \in Displays
      /\ r.line_start = 0 \/ r.line_start >= Len(prompt)
      /\ (/\ display.asserted
          /\ point = 0 \/ display.line_start = 0 \/ display.line_start >= Len(prompt))
           => r.asserted
      /\ (/\ term_cursor_hpos /\ WideInRow(prompt) /\ Plus(line) = {}
          /\ (~display.foreign => display.previous_line = display.row) /\ ~r.foreign)
           => r.previous_line = r.row /\ Shown(r, prompt, line, point, hide_passwords)
      /\ term_cursor_hpos /\ line = <<>> /\ Columns(prompt) < ws_col
           => r.previous_line = prompt /\ r.line_start = 0
  BY <1>5, <1>6, <1>7, Redisplayed
<1>9. display' = r
  BY <1>2, <1>7
<1>10. RowInv'
  BY <1>2, <1>3, <1>4, <1>6, <1>8, <1>9 DEF RowInv
<1>11. ASSUME term_cursor_hpos, PromptFits, RowShown, ~r.foreign PROVE RowShown'
  <2>1. WideInRow(prompt) /\ (~display.foreign => display.previous_line = display.row)
    BY <1>1, <1>2, <1>11 DEF PromptFits, RowShown
  <2>2. r.previous_line = r.row /\ Shown(r, prompt, line, point, hide_passwords)
    BY <1>5, <1>8, <1>11, <2>1
  <2> QED BY <1>2, <1>3, <1>4, <1>9, <2>2 DEF RowShown, Shown
<1>12. r.foreign => RowShown'
  BY <1>9 DEF RowShown
<1> QED BY <1>10, <1>11, <1>12

LEMMA EditingShows ==
  ASSUME RowInv, EditKey
  PROVE  RowInv' /\ (term_cursor_hpos /\ PromptFits /\ RowShown => RowShown')
<1>1. /\ rl_line_buffer \in Seq(Letters) /\ rl_point \in 0..Len(rl_line_buffer)
      /\ Len(rl_line_buffer) \in Nat
  BY LenProperties DEF RowInv
<1>2. \E line \in Seq(Letters) : \E point \in 0..Len(line) : Key(line, point)
  <2>1. ASSUME NEW c \in Letters, self_insert(c)
        PROVE  \E line \in Seq(Letters) : \E point \in 0..Len(line) : Key(line, point)
    <3>1. PICK line \in Seq(Letters) : /\ line = InsertAt(rl_line_buffer, rl_point + 1, c)
                                       /\ Len(line) = Len(rl_line_buffer) + 1
      BY <1>1, Inserted
    <3>2. rl_point + 1 \in 0..Len(line)
      BY <1>1, <3>1
    <3>3. Key(line, rl_point + 1)
      BY <2>1, <3>1 DEF self_insert
    <3> QED BY <3>2, <3>3
  <2>2. ASSUME rubout
        PROVE  \E line \in Seq(Letters) : \E point \in 0..Len(line) : Key(line, point)
    <3>1. PICK k \in 1..Len(rl_line_buffer) : k = rl_point
      BY <1>1, <2>2 DEF rubout
    <3>2. PICK line \in Seq(Letters) : /\ line = RemoveAt(rl_line_buffer, k)
                                       /\ Len(line) = Len(rl_line_buffer) - 1
      BY <1>1, Removed
    <3>3. rl_point - 1 \in 0..Len(line)
      BY <1>1, <3>1, <3>2
    <3>4. Key(line, rl_point - 1)
      BY <2>2, <3>1, <3>2 DEF rubout
    <3> QED BY <3>3, <3>4
  <2>3. ASSUME unix_line_discard
        PROVE  \E line \in Seq(Letters) : \E point \in 0..Len(line) : Key(line, point)
    <3>1. PICK line \in Seq(Letters) : line = From(rl_line_buffer, rl_point + 1)
      BY <1>1, Discarded
    <3>2. 0 \in 0..Len(line)
      BY LenProperties
    <3>3. Key(line, 0)
      BY <2>3, <3>1 DEF unix_line_discard
    <3> QED BY <3>2, <3>3
  <2>4. ASSUME NEW point \in 0..Len(rl_line_buffer), Key(rl_line_buffer, point)
        PROVE  \E line \in Seq(Letters) : \E p \in 0..Len(line) : Key(line, p)
    BY <1>1, <2>4
  <2>5. CASE backward_char
    <3>1. rl_point - 1 \in 0..Len(rl_line_buffer) /\ Key(rl_line_buffer, rl_point - 1)
      BY <1>1, <2>5 DEF backward_char
    <3> QED BY <2>4, <3>1
  <2>6. CASE forward_char
    <3>1. rl_point + 1 \in 0..Len(rl_line_buffer) /\ Key(rl_line_buffer, rl_point + 1)
      BY <1>1, <2>6 DEF forward_char
    <3> QED BY <2>4, <3>1
  <2>7. CASE beginning_of_line
    <3>1. 0 \in 0..Len(rl_line_buffer) /\ Key(rl_line_buffer, 0)
      BY <1>1, <2>7 DEF beginning_of_line
    <3> QED BY <2>4, <3>1
  <2>8. CASE end_of_line
    <3>1. /\ Len(rl_line_buffer) \in 0..Len(rl_line_buffer)
          /\ Key(rl_line_buffer, Len(rl_line_buffer))
      BY <1>1, <2>8 DEF end_of_line
    <3> QED BY <2>4, <3>1
  <2> QED BY <2>1, <2>2, <2>3, <2>5, <2>6, <2>7, <2>8 DEF EditKey
<1>3. PICK line \in Seq(Letters) : \E point \in 0..Len(line) : Key(line, point)
  BY <1>2
<1>4. PICK point \in 0..Len(line) : Key(line, point)
  BY <1>3
<1> QED BY <1>4, KeyShows

LEMMA RowStarts ==
  Init => RowInv /\ RowShown
<1> SUFFICES ASSUME Init PROVE RowInv /\ RowShown
  OBVIOUS
<1>1. <<>> \in Seq(Letters) /\ Len(<<>>) = 0 /\ <<>> \in Text
  BY EmptySeq, NothingToCopy
<1>2. EmptyRow \in Displays /\ EmptyRow.asserted
  <2>1. PICK none \in Text : none = <<>>
    BY <1>1
  <2>2. PICK zero \in Int : zero = 0
    OBVIOUS
  <2>3. EmptyRow = [line_start |-> 0, line_extends_left |-> 0, line_extends_right |-> 0,
                    previous_line |-> NULL, row |-> none, cursor |-> zero, foreign |-> FALSE,
                    asserted |-> TRUE]
    BY <2>1, <2>2 DEF EmptyRow
  <2> QED BY <2>3 DEF Displays
<1>3. /\ ws_col \in Widths /\ raw_prompt = <<>> /\ cooked_prompt = NULL /\ ~within_line_edit
      /\ rl_line_buffer = <<>> /\ rl_point = 0 /\ hide_passwords = FALSE /\ display = EmptyRow
  BY DEF Init, TextInit
<1>4. rl_point \in 0..Len(rl_line_buffer)
  BY <1>1, <1>3
<1> QED BY <1>1, <1>2, <1>3, <1>4 DEF RowInv, RowShown

(* When the line editor starts or goes on after a new prompt. *)
LEMMA RestoringShows ==
  ASSUME RowInv, NEW d \in Displays, d.asserted, cooked_prompt' \in Text, raw_prompt' \in Text,
         hide_passwords' \in BOOLEAN, ws_col' = ws_col,
         NEW input \in Seq(Letters), NEW point \in 0..Len(input), restore_rl_state(d, input, point)
  PROVE  RowInv' /\ (term_cursor_hpos => RowShown')
<1>1. PICK t \in Text : t = cooked_prompt'
  OBVIOUS
<1>2. PICK prompt \in Text : prompt = Bytes(Cells(mark_invisible(t)))
  BY PromptType
<1>3. PICK hide \in BOOLEAN : hide = hide_passwords'
  OBVIOUS
<1>4. PICK r : r = Restored(d, prompt, input, point, hide)
  OBVIOUS
<1>5. display' = r /\ rl_line_buffer' = input /\ rl_point' = point
  BY <1>1, <1>2, <1>3, <1>4 DEF restore_rl_state
<1>6. prompt_without_ignore_markers' = prompt
  BY <1>1, <1>2, RedisplayAssumption DEF prompt_without_ignore_markers
<1>7. input \in Text /\ Len(input) \in Nat
  BY TypedText
<1>8. ws_col \in Widths /\ ws_col \in Nat /\ ws_col >= 2
  BY Width DEF RowInv
<1>9. /\ r \in Displays
      /\ r.line_start = 0 \/ r.line_start >= Len(prompt)
      /\ d.asserted => r.asserted
      /\ term_cursor_hpos /\ ~r.foreign
           => r.previous_line = r.row /\ Shown(r, prompt, input, point, hide)
  BY <1>4, <1>7, <1>8, RestoredRow, SMTT(30)
<1>10. RowInv'
  BY <1>1, <1>3, <1>5, <1>6, <1>8, <1>9 DEF RowInv
<1>11. term_cursor_hpos => RowShown'
  BY <1>3, <1>5, <1>6, <1>9 DEF RowShown, Shown
<1> QED BY <1>10, <1>11

LEMMA StartingShows ==
  ASSUME RowInv, StartEdit
  PROVE  RowInv' /\ (term_cursor_hpos => RowShown')
<1>1. /\ cooked_prompt' = Cooked(raw_prompt) /\ hide_passwords' \in BOOLEAN
      /\ restore_rl_state(display, <<>>, 0) /\ ws_col' = ws_col /\ raw_prompt' = raw_prompt
  BY DEF StartEdit
<1>2. PICK none \in Seq(Letters) : none = <<>> /\ Len(none) = 0
  BY EmptySeq
<1>3. PICK zero \in 0..Len(none) : zero = 0
  BY <1>2
<1>4. restore_rl_state(display, none, zero)
  BY <1>1, <1>2, <1>3
<1>5. display \in Displays /\ display.asserted /\ raw_prompt' \in Text /\ cooked_prompt' \in Text
  BY <1>1, CookedType DEF RowInv
<1> QED BY <1>1, <1>4, <1>5, RestoringShows

(* The prompt after some output has been read. *)
LEMMA OutputType ==
  ASSUME raw_prompt \in Text, pty \in Text, NEW n \in 1..Len(pty), ReadBlockOf(n)
  PROVE  raw_prompt' \in Text /\ ws_col' = ws_col /\ mode' = mode
<1>1. Len(pty) \in Nat
  BY Characters
<1>2. PICK b \in Int : b = n /\ b <= Len(pty)
  BY <1>1
<1>3. SubSeq(pty, 1, b) \in Text
  BY <1>2, Piece
<1>4. PICK buf \in Text : buf = remove_padding(SubSeq(pty, 1, n))
  BY <1>2, <1>3, PaddingIsText
<1>5. raw_prompt \o buf \in Text
  BY Pieced
<1>6. process_new_output(buf) \in Text
  BY <1>5, LastLineType DEF process_new_output
<1>7. raw_prompt' = raw_prompt \/ raw_prompt' = process_new_output(buf)
  BY <1>4 DEF ReadBlockOf
<1> QED BY <1>6, <1>7 DEF ReadBlockOf

(* After a redisplay with the cursor at the beginning. *)
LEMMA ClearedRow ==
  ASSUME RowInv, within_line_edit, NEW d \in Displays, d.asserted, NEW line \in Seq(Letters)
  PROVE  my_redisplay(d, line, 0) \in Displays /\ my_redisplay(d, line, 0).asserted
<1>1. PICK prompt \in Text : prompt = prompt_without_ignore_markers
  BY PromptType DEF RowInv
<1>2. line \in Text /\ Len(line) \in Nat
  BY TypedText
<1>3. PICK zero \in 0..Len(line) : zero = 0
  BY <1>2
<1>4. ws_col \in Nat /\ ws_col >= 2 /\ hide_passwords \in BOOLEAN
  BY Width DEF RowInv
<1>5. PICK r : r = my_homegrown_redisplay(d, prompt, line, zero, hide_passwords)
  OBVIOUS
<1>6. /\ r \in Displays
      /\ r.line_start = 0 \/ r.line_start >= Len(prompt)
      /\ d.asserted /\ (zero = 0 \/ d.line_start = 0 \/ d.line_start >= Len(prompt)) => r.asserted
      /\ (/\ term_cursor_hpos /\ WideInRow(prompt) /\ Plus(line) = {}
          /\ (~d.foreign => d.previous_line = d.row) /\ ~r.foreign)
           => r.previous_line = r.row /\ Shown(r, prompt, line, zero, hide_passwords)
      /\ term_cursor_hpos /\ line = <<>> /\ Columns(prompt) < ws_col
           => r.previous_line = prompt /\ r.line_start = 0
  BY <1>2, <1>4, <1>5, Redisplayed
<1>7. r = my_redisplay(d, line, 0)
  BY <1>1, <1>3, <1>5 DEF my_redisplay
<1> QED BY <1>3, <1>6, <1>7

LEMMA InterruptionShows ==
  ASSUME RowInv, pty \in Text, NEW n \in 1..Len(pty), ReadWithinEdit(n)
  PROVE  RowInv' /\ (term_cursor_hpos /\ RowShown => RowShown')
<1>1. within_line_edit /\ ReadBlockOf(n)
  BY DEF ReadWithinEdit, Edited
<1>2. raw_prompt' \in Text /\ ws_col' = ws_col
  BY <1>1, OutputType DEF RowInv
<1>3. CASE screen_is_alternate'
  <2>1. UNCHANGED <<cooked_prompt, within_line_edit, rl_line_buffer, rl_point, hide_passwords,
                    display>>
    BY <1>3 DEF ReadWithinEdit, displayVars
  <2>2. prompt_without_ignore_markers' = prompt_without_ignore_markers
    BY <2>1 DEF prompt_without_ignore_markers
  <2> QED BY <1>2, <2>1, <2>2 DEF RowInv, RowShown, Shown
<1>4. CASE ~screen_is_alternate'
  <2>1. /\ cooked_prompt' = Cooked(raw_prompt') /\ hide_passwords' \in BOOLEAN
        /\ restore_rl_state(my_redisplay(display, <<>>, 0), rl_line_buffer, rl_point)
    BY <1>4 DEF ReadWithinEdit
  <2>2. PICK none \in Seq(Letters) : none = <<>>
    BY EmptySeq
  <2>3. display \in Displays /\ display.asserted
    BY DEF RowInv
  <2>4. PICK d \in Displays : d = my_redisplay(display, <<>>, 0) /\ d.asserted
    BY <1>1, <2>2, <2>3, ClearedRow
  <2>5. PICK t \in Text : t = raw_prompt'
    BY <1>2
  <2>6. cooked_prompt' \in Text
    BY <2>1, <2>5, CookedType
  <2>7. rl_line_buffer \in Seq(Letters) /\ rl_point \in 0..Len(rl_line_buffer)
    BY DEF RowInv
  <2> QED BY <1>2, <2>1, <2>4, <2>6, <2>7, RestoringShows
<1> QED BY <1>3, <1>4

LEMMA AcceptingShows ==
  ASSUME RowInv, AcceptLine
  PROVE  RowInv' /\ RowShown'
<1>1. /\ within_line_edit /\ ~within_line_edit'
      /\ display' = my_redisplay(my_redisplay(display, rl_line_buffer, 0), <<>>, 0)
      /\ rl_line_buffer' = <<>> /\ rl_point' = 0 /\ hide_passwords' = FALSE
      /\ raw_prompt' = <<>> /\ cooked_prompt' = NULL /\ ws_col' = ws_col
  BY DEF AcceptLine, Edited
<1>2. display \in Displays /\ display.asserted /\ rl_line_buffer \in Seq(Letters)
  BY DEF RowInv
<1>3. PICK d \in Displays : d = my_redisplay(display, rl_line_buffer, 0) /\ d.asserted
  BY <1>1, <1>2, ClearedRow
<1>4. PICK none \in Seq(Letters) : none = <<>> /\ Len(none) = 0 /\ none \in Text
  BY EmptySeq, NothingToCopy
<1>5. display' \in Displays /\ display'.asserted
  BY <1>1, <1>3, <1>4, ClearedRow
<1>6. rl_point' \in 0..Len(rl_line_buffer')
  BY <1>1, <1>4
<1> QED BY <1>1, <1>4, <1>5, <1>6 DEF RowInv, RowShown

LEMMA ResizingShows ==
  ASSUME RowInv, NEW width \in Widths, Resize(width)
  PROVE  RowInv' /\ RowShown'
<1>1. /\ ws_col' \in Widths /\ display' = [display EXCEPT !.foreign = TRUE]
      /\ UNCHANGED <<raw_prompt, cooked_prompt, within_line_edit, rl_line_buffer, rl_point,
                     hide_passwords>>
  BY DEF Resize
<1>2. prompt_without_ignore_markers' = prompt_without_ignore_markers
  BY <1>1 DEF prompt_without_ignore_markers
<1>3. /\ display' \in Displays /\ display'.foreign /\ display'.line_start = display.line_start
      /\ display'.asserted = display.asserted
  BY <1>1 DEF RowInv, Displays
<1> QED BY <1>1, <1>2, <1>3 DEF RowInv, RowShown

LEMMA OthersKeepRow ==
  ASSUME RowInv,
         UNCHANGED <<ws_col, cooked_prompt, within_line_edit, rl_line_buffer, rl_point,
                     hide_passwords, display>>,
         raw_prompt' \in Text
  PROVE  RowInv' /\ (RowShown => RowShown')
<1>1. prompt_without_ignore_markers' = prompt_without_ignore_markers
  BY DEF prompt_without_ignore_markers
<1> QED BY <1>1 DEF RowInv, RowShown, Shown

LEMMA RowStep ==
  ASSUME RowInv, ScreenInv, [Next]_vars
  PROVE  RowInv' /\ (term_cursor_hpos /\ PromptFits /\ RowShown => RowShown')
<1>0. raw_prompt \in Text /\ pty \in Text
  BY DEF RowInv, ScreenInv
<1>1. ASSUME NEW piece \in Pieces, Writes(piece) /\ UNCHANGED displayVars
      PROVE  RowInv' /\ (RowShown => RowShown')
  BY <1>0, <1>1, OthersKeepRow DEF Writes, displayVars
<1>2. ASSUME NEW n \in 1..Len(pty), ~within_line_edit, ReadBlock(n), UNCHANGED displayVars
      PROVE  RowInv' /\ RowShown'
  <2>1. raw_prompt' \in Text /\ ws_col' = ws_col
    BY <1>0, <1>2, OutputType DEF ReadBlock
  <2>2. cooked_prompt' = cooked_prompt \/ cooked_prompt' = NULL
    BY <1>2 DEF ReadBlock
  <2>3. UNCHANGED <<within_line_edit, rl_line_buffer, rl_point, hide_passwords, display>>
    BY <1>2 DEF displayVars
  <2> QED BY <1>2, <2>1, <2>2, <2>3 DEF RowInv, RowShown
<1>3. ASSUME NEW n \in 1..Len(pty), ReadWithinEdit(n)
      PROVE  RowInv' /\ (term_cursor_hpos /\ RowShown => RowShown')
  BY <1>0, <1>3, InterruptionShows
<1>4. CASE StartEdit
  BY <1>4, StartingShows
<1>5. CASE EditKey
  BY <1>5, EditingShows
<1>6. CASE AcceptLine
  BY <1>6, AcceptingShows
<1>7. ASSUME NEW width \in Widths, Resize(width) PROVE RowInv' /\ RowShown'
  BY <1>7, ResizingShows
<1>8. CASE UNCHANGED vars
  BY <1>0, <1>8, OthersKeepRow DEF vars, textVars, displayVars
<1> QED BY <1>1, <1>2, <1>3, <1>4, <1>5, <1>6, <1>7, <1>8 DEF Next

(* Where the displayed part of the line begins always suits the prompt, so that *)
(* no assertion in my_homegrown_redisplay() fails.                           *)
THEOREM RowInvariant == Spec => []RowInv
<1>1. Init => RowInv
  BY RowStarts
<1>2. RowInv /\ ScreenInv /\ [Next]_vars => RowInv'
  BY RowStep
<1> QED BY <1>1, <1>2, ScreenInvariant, PTL DEF Spec

(* On a terminal that can put the cursor into a given column, for all prompts   *)
(* whose wide characters fit into the row, my_homegrown_redisplay() shows the  *)
(* line as its comment says: whatever the user types, wherever the cursor     *)
(* goes, however the command's output interrupts.                            *)
THEOREM LineIsAlwaysShown ==
  ASSUME term_cursor_hpos
  PROVE  Spec /\ []PromptFits => []LineIsShown
<1>1. Init => RowInv /\ RowShown
  BY RowStarts
<1>2. RowInv /\ ScreenInv /\ PromptFits /\ RowShown /\ [Next]_vars => RowInv' /\ RowShown'
  BY RowStep
<1>3. RowInv /\ RowShown => LineIsShown
  BY DEF RowInv, RowShown, Shown, LineIsShown
<1> QED BY <1>1, <1>2, <1>3, ScreenInvariant, PTL DEF Spec
=============================================================================
