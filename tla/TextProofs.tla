----------------------------- MODULE TextProofs -----------------------------
(***************************************************************************)
(* Proofs about the text of a prompt, of any length (PromptText): what has *)
(* been cooked is still the text of the prompt, and the reckoning with that*)
(* text finds the row in which the prompt begins. The loops that scan a text,*)
(* on rlwrap's side and on the terminal's, are compared step by step.      *)
(***************************************************************************)
EXTENDS PromptProofs

-----------------------------------------------------------------------------
(* Reading a text as colourless_strlen() does *)

(* g[n] is what the loop of Cells() has after n characters. *)
Scans(g, s) ==
  /\ g \in [0..Len(s) -> Visibles]
  /\ g[0] = [visible |-> TRUE, cells |-> <<>>]
  /\ \A n \in 1..Len(s) : g[n] = Seen(g[n - 1], s[n])

(* Where texts agree, so does what has been read. *)
LEMMA ScansAgree ==
  ASSUME NEW s \in Text, NEW t \in Text, NEW g, NEW h, Scans(g, s), Scans(h, t),
         NEW m \in 0..Len(s), m <= Len(t), \A i \in 1..m : s[i] = t[i]
  PROVE  \A n \in 0..m : g[n] = h[n]
<1>1. Len(s) \in Nat /\ Len(t) \in Nat
  BY Characters
<1> DEFINE G == {n \in Nat : n <= m => g[n] = h[n]}
<1>2. 0 \in G
  BY DEF Scans
<1>3. ASSUME NEW n \in 1..m, n - 1 \in G PROVE n \in G
  <2>1. g[n - 1] = h[n - 1]
    BY <1>1, <1>3
  <2>2. g[n] = Seen(g[n - 1], s[n])
    BY <1>1 DEF Scans
  <2>3. h[n] = Seen(h[n - 1], t[n])
    BY <1>1 DEF Scans
  <2> QED BY <2>1, <2>2, <2>3
<1> HIDE DEF G
<1>4. 0..m \subseteq G
  <2>1. m \in Nat
    BY <1>1
  <2> QED BY <1>2, <1>3, <2>1, Steps
<1> QED BY <1>4 DEF G

Scan(s) == CHOOSE g : Scans(g, s)

(* Scan() is what the loop of colourless_strlen() computes.                  *)
LEMMA Scanning ==
  ASSUME NEW s \in Text
  PROVE  /\ Scans(Scan(s), s) /\ Len(s) \in Nat
         /\ Cells(s) = Scan(s)[Len(s)].cells
         /\ \A n \in 0..Len(s) : Scan(s)[n] \in Visibles
<1>1. PICK N \in Nat : N = Len(s)
  BY Characters
<1>2. PICK g \in [0..Len(s) -> Visibles] :
           /\ g[0] = [visible |-> TRUE, cells |-> <<>>]
           /\ \A n \in 1..Len(s) : g[n] = Seen(g[n - 1], s[n])
           /\ Cells(s) = g[Len(s)].cells
  BY CellsLoop
<1>3. Scans(g, s)
  BY <1>2 DEF Scans
<1>4. Scans(Scan(s), s)
  BY <1>3 DEF Scan
<1>5. \A n \in 0..N : g[n] = Scan(s)[n]
  BY <1>1, <1>3, <1>4, ScansAgree
<1>6. Scan(s) \in [0..N -> Visibles]
  BY <1>1, <1>4 DEF Scans
<1> QED BY <1>1, <1>2, <1>4, <1>5, <1>6

(* After s, colourless_strlen() counts what follows. *)
Counts(s) == Scan(s)[Len(s)].visible = TRUE

(* Nothing has no cells, and ends visible.                                   *)
LEMMA NothingCounts ==
  Counts(<<>>) /\ Cells(<<>>) = <<>>
<1>1. PICK s \in Text : s = <<>> /\ Len(s) = 0
  BY NothingToCopy, EmptySeq
<1>2. Scan(s)[0] = [visible |-> TRUE, cells |-> <<>>] /\ Cells(s) = Scan(s)[0].cells
  BY <1>1, Scanning DEF Scans
<1> QED BY <1>1, <1>2 DEF Counts

(* A character that is neither START nor END. *)
LEMMA OneMoreCounts ==
  ASSUME NEW s \in Text, Counts(s), NEW c \in Char, c \notin {"START", "END"}
  PROVE  /\ Append(s, c) \in Text
         /\ Counts(Append(s, c)) /\ Cells(Append(s, c)) = Filled(Cells(s), c)
<1>1. PICK t \in Text : t = Append(s, c)
  BY OneMore
<1>2. PICK N \in Nat : N = Len(s) /\ Len(t) = N + 1 /\ t[N + 1] = c /\ \A i \in 1..N : s[i] = t[i]
  BY <1>1, OneMore
<1>3. Scans(Scan(s), s) /\ Scans(Scan(t), t) /\ Cells(s) = Scan(s)[N].cells
      /\ Cells(t) = Scan(t)[N + 1].cells /\ Scan(s)[N] \in Visibles
  BY <1>2, Scanning
<1>4. Scan(s)[N] = Scan(t)[N]
  BY <1>2, <1>3, ScansAgree
<1>5. Scan(t)[N + 1] = Seen(Scan(t)[N], c)
  <2>1. N + 1 \in 1..Len(t) /\ (N + 1) - 1 = N
    BY <1>2
  <2> QED BY <1>2, <1>3, <2>1 DEF Scans
<1>6. PICK r \in Visibles : r = Scan(s)[N] /\ r.visible = TRUE
  BY <1>2, <1>3 DEF Counts
<1>7. Seen(r, c) = [r EXCEPT !.cells = Filled(r.cells, c)]
  BY <1>6 DEF Seen
<1>8. Seen(r, c).visible = TRUE /\ Seen(r, c).cells = Filled(r.cells, c)
  <2>1. PICK cells : cells = Filled(r.cells, c)
    OBVIOUS
  <2>2. [r EXCEPT !.cells = cells].visible = TRUE /\ [r EXCEPT !.cells = cells].cells = cells
    BY <1>6 DEF Visibles
  <2> QED BY <1>7, <2>1, <2>2
<1> QED BY <1>1, <1>2, <1>3, <1>4, <1>5, <1>6, <1>8 DEF Counts

(* What stands between START and END is not counted. *)
LEMMA BlockUncounted ==
  ASSUME NEW s \in Text, NEW a \in 1..Len(s), NEW b \in 1..Len(s), a < b,
         Scan(s)[a - 1].visible = TRUE,
         s[a] = "START", s[b] = "END", \A k \in a + 1..b - 1 : s[k] \notin {"START", "END"}
  PROVE  /\ \A n \in a..b : Scan(s)[n].cells = Scan(s)[a - 1].cells
         /\ \A n \in a..b - 1 : Scan(s)[n].visible = FALSE
         /\ Scan(s)[b].visible = TRUE
<1>1. PICK N \in Nat : N = Len(s)
  BY Characters
<1>2. PICK g : g = Scan(s) /\ Scans(g, s) /\ \A n \in 0..N : g[n] \in Visibles
  BY <1>1, Scanning
<1>3. PICK cells : cells = g[a - 1].cells
  OBVIOUS
<1>4. \A n \in 1..N : g[n] = Seen(g[n - 1], s[n])
  BY <1>1, <1>2 DEF Scans
<1>5. g[a].visible = FALSE /\ g[a].cells = cells
  <2>1. PICK r \in Visibles : r = g[a - 1]
    BY <1>1, <1>2
  <2>2. g[a] = [r EXCEPT !.visible = ("START" = "END")]
    BY <1>1, <1>4, <2>1 DEF Seen
  <2> QED BY <1>3, <2>1, <2>2 DEF Visibles
<1> DEFINE G == {n \in Nat : n <= b - 1 - a => g[a + n].visible = FALSE /\ g[a + n].cells = cells}
<1>6. 0 \in G
  BY <1>1, <1>5
<1>7. PICK M \in Nat : M = b - 1 - a
  BY <1>1
<1>8. ASSUME NEW n \in 1..M, n - 1 \in G PROVE n \in G
  <2>1. PICK k \in a + 1..b - 1 : k = a + n /\ k - 1 = a + (n - 1) /\ k \in 1..N
    BY <1>1, <1>7
  <2>2. g[k - 1].visible = FALSE /\ g[k - 1].cells = cells
    BY <1>7, <1>8, <2>1
  <2>3. g[k] = g[k - 1]
    BY <1>4, <2>1, <2>2 DEF Seen
  <2> QED BY <1>7, <2>1, <2>2, <2>3
<1> HIDE DEF G
<1>9. 0..M \subseteq G
  BY <1>6, <1>8, Steps
<1>10. ASSUME NEW k \in a..b - 1 PROVE g[k].visible = FALSE /\ g[k].cells = cells
  <2>1. PICK n \in 0..M : n = k - a /\ a + n = k
    BY <1>1, <1>7
  <2>2. n \in G
    BY <1>9
  <2> QED BY <1>7, <2>1, <2>2 DEF G
<1>11. g[b].visible = TRUE /\ g[b].cells = cells
  <2>1. b - 1 \in a..b - 1 /\ b - 1 \in 0..N /\ b \in 1..N
    BY <1>1
  <2>2. PICK r \in Visibles : r = g[b - 1] /\ r.cells = cells
    BY <1>2, <1>10, <2>1
  <2>3. g[b] = [r EXCEPT !.visible = ("END" = "END")]
    BY <1>4, <2>1, <2>2 DEF Seen
  <2> QED BY <2>2, <2>3 DEF Visibles
<1>12. \A n \in a..b : n = b \/ n \in a..b - 1
  BY <1>1
<1> QED BY <1>2, <1>3, <1>10, <1>11, <1>12

(* What SetOff() puts around a code.                                         *)
LEMMA SetOffProperties ==
  ASSUME NEW code \in Text
  PROVE  /\ SetOff(code) \in Text /\ Len(code) \in Nat /\ Len(SetOff(code)) = Len(code) + 2
         /\ SetOff(code)[1] = "START" /\ SetOff(code)[Len(code) + 2] = "END"
         /\ \A i \in 1..Len(code) : SetOff(code)[i + 1] = code[i]
<1>1. "START" \in Char /\ "END" \in Char
  BY CharAssumption DEF Unprintable
<1>2. PICK u \in Text, v \in Text : /\ u = <<"START">> /\ Len(u) = 1 /\ u[1] = "START"
                                  /\ v = <<"END">> /\ Len(v) = 1 /\ v[1] = "END"
  <2>1. PICK c \in Char, d \in Char : c = "START" /\ d = "END"
    BY <1>1
  <2>2. <<c>> \in Text /\ Len(<<c>>) = 1 /\ <<c>>[1] = c
    BY ShortTexts
  <2>3. <<d>> \in Text /\ Len(<<d>>) = 1 /\ <<d>>[1] = d
    BY ShortTexts
  <2> QED BY <2>1, <2>2, <2>3
<1>3. PICK N \in Nat : N = Len(code)
  BY Characters
<1>4. PICK w \in Text : /\ w = u \o code /\ Len(w) = N + 1 /\ w[1] = "START"
                        /\ \A i \in 1..N : w[1 + i] = code[i]
  <2>1. /\ u \o code \in Text /\ Len(u \o code) = Len(u) + Len(code)
        /\ \A i \in 1..Len(u) : (u \o code)[i] = u[i]
        /\ \A i \in 1..Len(code) : (u \o code)[Len(u) + i] = code[i]
    BY Pieced
  <2>2. PICK w \in Text : w = u \o code
    BY <2>1
  <2>3. Len(w) = N + 1 /\ w[1] = u[1]
    BY <1>2, <1>3, <2>1, <2>2
  <2> QED BY <1>2, <1>3, <2>1, <2>2, <2>3
<1>5. PICK x \in Text : /\ x = w \o v /\ Len(x) = N + 2
                        /\ \A i \in 1..N + 1 : x[i] = w[i]
                        /\ x[N + 1 + 1] = "END"
  <2>1. /\ w \o v \in Text /\ Len(w \o v) = Len(w) + Len(v)
        /\ \A i \in 1..Len(w) : (w \o v)[i] = w[i]
        /\ \A i \in 1..Len(v) : (w \o v)[Len(w) + i] = v[i]
    BY Pieced
  <2>2. PICK x \in Text : x = w \o v
    BY <2>1
  <2>3. 1 \in 1..Len(v) /\ Len(w) = N + 1 /\ Len(v) = 1
    BY <1>2, <1>4
  <2>4. Len(x) = N + 2 /\ x[N + 1 + 1] = v[1]
    BY <2>1, <2>2, <2>3
  <2> QED BY <1>2, <1>4, <2>1, <2>2, <2>3, <2>4
<1>6. x = SetOff(code)
  BY <1>2, <1>4, <1>5 DEF SetOff
<1>7. x[1] = "START" /\ x[N + 2] = "END"
  BY <1>4, <1>5
<1>8. \A i \in 1..N : x[i + 1] = code[i]
  <2> SUFFICES ASSUME NEW i \in 1..N PROVE x[i + 1] = code[i]
    OBVIOUS
  <2>1. i + 1 \in 1..N + 1 /\ i + 1 = 1 + i
    OBVIOUS
  <2> QED BY <1>4, <1>5, <2>1
<1> QED BY <1>3, <1>5, <1>6, <1>7, <1>8

(* A code that is set off fills no cells.                                    *)
LEMMA CodeUncounted ==
  ASSUME NEW s \in Text, Counts(s), NEW code \in Text,
         \A k \in 1..Len(code) : code[k] \notin {"START", "END"}
  PROVE  /\ s \o SetOff(code) \in Text
         /\ Counts(s \o SetOff(code)) /\ Cells(s \o SetOff(code)) = Cells(s)
<1>1. PICK N \in Nat, M \in Nat : N = Len(s) /\ M = Len(code)
  BY Characters
<1>2. PICK x \in Text : /\ x = SetOff(code) /\ Len(x) = M + 2
                        /\ x[1] = "START" /\ x[M + 2] = "END"
                        /\ \A i \in 1..M : x[i + 1] = code[i]
  BY <1>1, SetOffProperties
<1>3. PICK t \in Text : /\ t = s \o x /\ Len(t) = N + (M + 2)
                        /\ \A i \in 1..N : t[i] = s[i]
                        /\ \A i \in 1..M + 2 : t[N + i] = x[i]
  <2>1. /\ s \o x \in Text /\ Len(s \o x) = Len(s) + Len(x)
        /\ \A i \in 1..Len(s) : (s \o x)[i] = s[i]
        /\ \A i \in 1..Len(x) : (s \o x)[Len(s) + i] = x[i]
    BY Pieced
  <2>2. PICK t \in Text : t = s \o x
    BY <2>1
  <2> QED BY <1>1, <1>2, <2>1, <2>2
<1>4. /\ Scans(Scan(s), s) /\ Scans(Scan(t), t)
      /\ Cells(s) = Scan(s)[N].cells /\ Cells(t) = Scan(t)[N + (M + 2)].cells
  BY <1>1, <1>3, Scanning
<1>5. Scan(s)[N] = Scan(t)[N]
  <2>1. PICK m \in 0..Len(s) : m = N /\ m <= Len(t) /\ \A i \in 1..m : s[i] = t[i]
    BY <1>1, <1>3
  <2>2. \A n \in 0..m : Scan(s)[n] = Scan(t)[n]
    BY <1>4, <2>1, ScansAgree
  <2> QED BY <2>1, <2>2
<1>6. PICK a \in 1..Len(t), b \in 1..Len(t) : a = N + 1 /\ b = N + (M + 2) /\ a < b /\ a - 1 = N
  BY <1>3
<1>7. t[a] = "START" /\ t[b] = "END"
  <2>1. 1 \in 1..M + 2 /\ M + 2 \in 1..M + 2
    OBVIOUS
  <2> QED BY <1>2, <1>3, <1>6, <2>1
<1>8. ASSUME NEW k \in a + 1..b - 1 PROVE t[k] \notin {"START", "END"}
  <2>1. PICK i \in 1..M : k = N + (i + 1) /\ i + 1 \in 1..M + 2
    <3>1. k - N - 1 \in 1..M /\ k = N + ((k - N - 1) + 1) /\ (k - N - 1) + 1 \in 1..M + 2
      BY <1>6
    <3> QED BY <3>1
  <2>2. t[k] = code[i]
    BY <1>2, <1>3, <2>1
  <2> QED BY <1>1, <2>1, <2>2
<1>9. Scan(t)[a - 1].visible = TRUE
  BY <1>1, <1>5, <1>6 DEF Counts
<1>10. Scan(t)[b].cells = Scan(t)[a - 1].cells /\ Scan(t)[b].visible = TRUE
  <2>1. b \in a..b
    BY <1>6
  <2>2. /\ \A n \in a..b : Scan(t)[n].cells = Scan(t)[a - 1].cells
        /\ \A n \in a..b - 1 : Scan(t)[n].visible = FALSE
        /\ Scan(t)[b].visible = TRUE
    <3>1. a < b /\ \A k \in a + 1..b - 1 : t[k] \notin {"START", "END"}
      BY <1>6, <1>8
    <3> QED BY <1>7, <1>9, <3>1, BlockUncounted
  <2> QED BY <2>1, <2>2
<1> QED BY <1>1, <1>2, <1>3, <1>4, <1>5, <1>6, <1>10 DEF Counts

-----------------------------------------------------------------------------
(* Texts with their colour codes set off *)

Block(s, a, b) ==
  /\ a \in 1..Len(s) /\ b \in 1..Len(s) /\ s[a] = "START" /\ s[b] = "END"
  /\ IsColour(s, a + 1, b - 1)

(* START, END and ESC stand at a colour code that has been set off.          *)
Neat(s) ==
  \A k \in 1..Len(s) :
    /\ s[k] = "START" => \E b \in 1..Len(s) : Block(s, k, b)
    /\ s[k] = "END" => \E a \in 1..Len(s) : Block(s, a, k)
    /\ s[k] = "ESC" => k - 1 \in 1..Len(s) /\ s[k - 1] = "START"

(* After n characters no code is open. *)
Outside(s, n) == \A a, b \in 1..Len(s) : Block(s, a, b) => ~(a <= n /\ n < b)

NoBack(s) == \A k \in 1..Len(s) : s[k] \notin {"BS", "CR"}

(* What a colour code is made of. *)
LEMMA ColourInside ==
  ASSUME NEW s, NEW i \in Int, NEW j \in Int, IsColour(s, i, j)
  PROVE  /\ i + 1 < j /\ s[i] = "ESC"
         /\ \A k \in i + 1..j : s[k] \notin {"ESC", "START", "END", "BS", "CR"}
<1> SUFFICES ASSUME NEW k \in i + 1..j
             PROVE  s[k] \notin {"ESC", "START", "END", "BS", "CR"}
  BY DEF IsColour
<1>1. CASE k = i + 1
  BY <1>1 DEF IsColour
<1>2. CASE k = j
  BY <1>2 DEF IsColour
<1>3. CASE k \in i + 2..j - 1
  BY <1>3 DEF IsColour, Digits
<1> QED BY <1>1, <1>2, <1>3

(* A colour code has one end.                                                *)
LEMMA ColourEnds ==
  ASSUME NEW s, NEW i \in Int, NEW j \in Int, NEW l \in Int, IsColour(s, i, j), IsColour(s, i, l)
  PROVE  j = l
<1>1. /\ \A k \in i + 2..j - 1 : s[k] \in Digits
      /\ \A k \in i + 2..l - 1 : s[k] \in Digits
      /\ s[j] = "m" /\ s[l] = "m" /\ j >= i + 2 /\ l >= i + 2
  BY DEF IsColour
<1>2. "m" \notin Digits
  BY DEF Digits
<1> QED BY <1>1, <1>2

(* What a code that has been set off is made of.                             *)
LEMMA BlockInside ==
  ASSUME NEW s \in Text, NEW a, NEW b, Block(s, a, b)
  PROVE  /\ a \in 1..Len(s) /\ b \in 1..Len(s) /\ Len(s) \in Nat
         /\ a + 3 < b /\ s[a] = "START" /\ s[b] = "END" /\ s[a + 1] = "ESC"
         /\ IsColour(s, a + 1, b - 1)
         /\ \A k \in a + 1..b - 1 : s[k] \notin {"START", "END", "BS", "CR"}
         /\ \A k \in a + 2..b - 1 : s[k] # "ESC"
<1>1. PICK N \in Nat : N = Len(s)
  BY Characters
<1>2. PICK i \in Int, j \in Int : i = a + 1 /\ j = b - 1 /\ i \in 1..N + 1 /\ j \in 0..N
  <2>1. a + 1 \in Int /\ b - 1 \in Int /\ a + 1 \in 1..N + 1 /\ b - 1 \in 0..N
    BY <1>1 DEF Block
  <2> QED BY <2>1
<1>3. IsColour(s, i, j)
  BY <1>2 DEF Block
<1>4. /\ i + 1 < j /\ s[i] = "ESC"
      /\ \A k \in i + 1..j : s[k] \notin {"ESC", "START", "END", "BS", "CR"}
  BY <1>3, ColourInside
<1>5. \A k \in i..j : k = i \/ k \in i + 1..j
  OBVIOUS
<1>6. \A k \in i..j : s[k] \notin {"START", "END", "BS", "CR"}
  BY <1>4, <1>5
<1>7. a \in 1..N /\ b \in 1..N /\ a + 3 < b
  BY <1>1, <1>2, <1>4 DEF Block
<1>8. a + 2 = i + 1
  BY <1>2, <1>7
<1> QED BY <1>1, <1>2, <1>3, <1>4, <1>6, <1>7, <1>8 DEF Block

(* START stands before it, END after it, and neither within it.              *)
LEMMA BlockEnds ==
  ASSUME NEW s \in Text, NEW a, NEW b, Block(s, a, b)
  PROVE  /\ a \in Nat \ {0} /\ b \in Nat /\ a + 3 < b /\ b <= Len(s) /\ Len(s) \in Nat
         /\ s[a] = "START" /\ s[b] = "END"
         /\ \A k \in a + 1..b - 1 : s[k] \notin {"START", "END"}
<1>1. /\ a \in 1..Len(s) /\ b \in 1..Len(s) /\ Len(s) \in Nat
      /\ a + 3 < b /\ s[a] = "START" /\ s[b] = "END" /\ s[a + 1] = "ESC"
      /\ IsColour(s, a + 1, b - 1)
      /\ \A k \in a + 1..b - 1 : s[k] \notin {"START", "END", "BS", "CR"}
      /\ \A k \in a + 2..b - 1 : s[k] # "ESC"
  BY BlockInside
<1>2. a \in Nat \ {0} /\ b \in Nat /\ b <= Len(s)
  BY <1>1
<1> QED BY <1>1, <1>2

(* Codes do not overlap. *)
LEMMA BlocksApart ==
  ASSUME NEW s \in Text, NEW a, NEW b, NEW c, NEW d, Block(s, a, b), Block(s, c, d)
  PROVE  b < c \/ d < a \/ (a = c /\ b = d)
<1> DEFINE Good(x, y) == /\ x \in Nat /\ y \in Nat /\ x < y /\ s[x] = "START" /\ s[y] = "END"
                         /\ \A k \in x + 1..y - 1 : s[k] \notin {"START", "END"}
<1>0. ASSUME NEW x, NEW y, Block(s, x, y) PROVE Good(x, y)
  BY <1>0, BlockEnds
<1>1. Good(a, b)
  BY <1>0
<1>2. Good(c, d)
  BY <1>0
<1>3. CASE a < c
  <2>1. c \notin a + 1..b - 1 /\ c # b
    BY <1>1, <1>2
  <2> QED BY <1>1, <1>2, <1>3, <2>1
<1>4. CASE c < a
  <2>1. a \notin c + 1..d - 1 /\ a # d
    BY <1>1, <1>2
  <2> QED BY <1>1, <1>2, <1>4, <2>1
<1>5. CASE a = c
  <2>1. b \notin c + 1..d - 1 /\ d \notin a + 1..b - 1
    BY <1>1, <1>2
  <2> QED BY <1>1, <1>2, <1>5, <2>1
<1> QED BY <1>1, <1>2, <1>3, <1>4, <1>5

(* Texts that agree have the same blocks. *)
LEMMA SameBlocks ==
  ASSUME NEW s \in Text, NEW t \in Text, NEW m \in Nat, m <= Len(s), m <= Len(t),
         \A i \in 1..m : s[i] = t[i], NEW a, NEW b, b <= m, Block(s, a, b)
  PROVE  Block(t, a, b)
<1>1. PICK N \in Nat, M \in Nat : N = Len(s) /\ M = Len(t)
  BY Characters
<1>2. a \in 1..m /\ b \in 1..m /\ a + 3 < b
  BY <1>1, BlockInside
<1>3. t[a] = "START" /\ t[b] = "END"
  BY <1>2 DEF Block
<1>4. IsColour(t, a + 1, b - 1)
  <2>1. a + 1 \in 1..m /\ b - 1 \in 1..m /\ (a + 1) + 1 \in 1..m
    BY <1>2
  <2>2. \A k \in (a + 1) + 2..(b - 1) - 1 : k \in 1..m
    BY <1>2
  <2>3. IsColour(s, a + 1, b - 1)
    BY DEF Block
  <2> QED BY <2>1, <2>2, <2>3 DEF IsColour
<1> QED BY <1>1, <1>2, <1>3, <1>4 DEF Block

(* After as many characters of a neat text as leave no code open: *)
LEMMA NeatPrefix ==
  ASSUME NEW s \in Text, Neat(s), NEW n \in 0..Len(s), Outside(s, n)
  PROVE  /\ SubSeq(s, 1, n) \in Text /\ Len(SubSeq(s, 1, n)) = n /\ Neat(SubSeq(s, 1, n))
         /\ \A i \in 1..n : SubSeq(s, 1, n)[i] = s[i]
<1>1. PICK N \in Nat : N = Len(s)
  BY Characters
<1>2. PICK t \in Text : t = SubSeq(s, 1, n) /\ Len(t) = n /\ \A i \in 1..n : t[i] = s[i]
  <2>1. PICK one \in Nat \ {0}, b \in Int : one = 1 /\ b = n /\ b <= Len(s)
    BY <1>1
  <2>2. /\ SubSeq(s, one, b) \in Text /\ Len(s) \in Nat
        /\ Len(SubSeq(s, one, b)) = IF one <= b THEN b - one + 1 ELSE 0
        /\ \A i \in 1..b - one + 1 : SubSeq(s, one, b)[i] = s[one + i - 1]
    BY <2>1, Piece
  <2>3. Len(SubSeq(s, 1, n)) = n
    BY <1>1, <2>1, <2>2
  <2>4. \A i \in 1..n : SubSeq(s, 1, n)[i] = s[i]
    BY <1>1, <2>1, <2>2
  <2> QED BY <2>1, <2>2, <2>3, <2>4
<1>3. ASSUME NEW a, NEW b, Block(s, a, b), b <= n PROVE Block(t, a, b)
  <2>1. n \in Nat /\ n <= Len(s) /\ n <= Len(t)
    BY <1>1, <1>2
  <2> QED BY <1>2, <1>3, <2>1, SameBlocks
<1>4. ASSUME NEW k \in 1..n
      PROVE  /\ t[k] = "START" => \E b \in 1..n : Block(t, k, b)
             /\ t[k] = "END" => \E a \in 1..n : Block(t, a, k)
             /\ t[k] = "ESC" => k - 1 \in 1..n /\ t[k - 1] = "START"
  <2>1. k \in 1..Len(s) /\ t[k] = s[k]
    BY <1>1, <1>2
  <2>2. ASSUME t[k] = "START" PROVE \E b \in 1..n : Block(t, k, b)
    <3>1. PICK b \in 1..Len(s) : Block(s, k, b)
      BY <2>1, <2>2 DEF Neat
    <3>2. b <= n
      BY <1>1, <2>1, <3>1 DEF Outside
    <3>3. b \in 1..n
      BY <1>1, <3>2
    <3> QED BY <1>3, <3>1, <3>2, <3>3
  <2>3. ASSUME t[k] = "END" PROVE \E a \in 1..n : Block(t, a, k)
    <3>1. PICK a \in 1..Len(s) : Block(s, a, k)
      BY <2>1, <2>3 DEF Neat
    <3>2. a + 3 < k
      BY <3>1, BlockInside
    <3>3. a \in 1..n /\ k <= n
      BY <1>1, <3>2
    <3> QED BY <1>3, <3>1, <3>3
  <2>4. ASSUME t[k] = "ESC" PROVE k - 1 \in 1..n /\ t[k - 1] = "START"
    <3>1. k - 1 \in 1..Len(s) /\ s[k - 1] = "START"
      BY <2>1, <2>4 DEF Neat
    <3>2. k - 1 \in 1..n
      BY <1>1, <3>1
    <3> QED BY <1>2, <3>1, <3>2
  <2> QED BY <2>2, <2>3, <2>4
<1> QED BY <1>2, <1>4 DEF Neat

(* The loop of Cells() counts just outside the codes. *)
LEMMA NeatScan ==
  ASSUME NEW s \in Text, Neat(s), NEW n \in 0..Len(s)
  PROVE  Scan(s)[n].visible = TRUE <=> Outside(s, n)
<1>1. PICK N \in Nat : N = Len(s)
  BY Characters
<1>2. PICK g : g = Scan(s) /\ Scans(g, s) /\ \A k \in 0..N : g[k] \in Visibles
  BY <1>1, Scanning
<1> DEFINE Right(k) == g[k].visible = TRUE <=> Outside(s, k)
           G == {k \in Nat : k <= N => Right(k)}
<1>3. Right(0)
  <2>1. g[0].visible = TRUE
    BY <1>2 DEF Scans
  <2>2. Outside(s, 0)
    BY <1>1 DEF Outside
  <2> QED BY <2>1, <2>2
<1>4. ASSUME NEW k \in 1..N, Right(k - 1) PROVE Right(k)
  <2>1. PICK r \in Visibles : r = g[k - 1] /\ g[k] = Seen(r, s[k])
    BY <1>1, <1>2 DEF Scans
  <2>2. CASE s[k] = "START"
    <3>1. g[k] = [r EXCEPT !.visible = ("START" = "END")]
      BY <2>1, <2>2 DEF Seen
    <3>2. g[k].visible = FALSE
      BY <3>1 DEF Visibles
    <3>3. PICK b \in 1..Len(s) : Block(s, k, b)
      BY <1>1, <2>2 DEF Neat
    <3>4. k < b
      BY <3>3, BlockInside
    <3> QED BY <1>1, <3>2, <3>3, <3>4 DEF Outside
  <2>3. CASE s[k] = "END"
    <3>1. g[k] = [r EXCEPT !.visible = ("END" = "END")]
      BY <2>1, <2>3 DEF Seen
    <3>2. g[k].visible = TRUE
      BY <3>1 DEF Visibles
    <3>3. ASSUME NEW a \in 1..Len(s), NEW b \in 1..Len(s), Block(s, a, b), a <= k, k < b PROVE FALSE
      <4>1. s[a] = "START" /\ \A i \in a + 1..b - 1 : s[i] \notin {"START", "END"}
        BY <3>3, BlockInside
      <4>2. k = a \/ k \in a + 1..b - 1
        BY <1>1, <3>3
      <4> QED BY <2>3, <4>1, <4>2
    <3> QED BY <3>2, <3>3 DEF Outside
  <2>4. CASE s[k] \notin {"START", "END"}
    <3>1. g[k].visible = TRUE <=> r.visible = TRUE
      <4>1. PICK cells : cells = Filled(r.cells, s[k])
        OBVIOUS
      <4>2. g[k] = r \/ g[k] = [r EXCEPT !.cells = cells]
        BY <2>1, <2>4, <4>1 DEF Seen
      <4> QED BY <4>2 DEF Visibles
    <3>2. ASSUME NEW a \in 1..Len(s), NEW b \in 1..Len(s), Block(s, a, b)
          PROVE  a <= k /\ k < b <=> a <= k - 1 /\ k - 1 < b
      <4>1. a # k /\ b # k
        BY <2>4, <3>2, BlockInside
      <4> QED BY <1>1, <4>1
    <3>3. Outside(s, k) <=> Outside(s, k - 1)
      BY <3>2 DEF Outside
    <3> QED BY <1>4, <2>1, <3>1, <3>3
  <2> QED BY <2>2, <2>3, <2>4
<1> HIDE DEF Right
<1>5. 0 \in G /\ \A k \in 1..N : k - 1 \in G => k \in G
  BY <1>3, <1>4
<1> HIDE DEF G
<1>6. 0..N \subseteq G
  BY <1>5, Steps
<1>7. Right(n)
  BY <1>1, <1>6 DEF G
<1> QED BY <1>2, <1>7 DEF Right

(* At the end of a neat text characters are visible.                         *)
LEMMA NeatCounts ==
  ASSUME NEW s \in Text, Neat(s)
  PROVE  Counts(s)
<1>1. PICK n \in 0..Len(s) : n = Len(s)
  BY Characters
<1>2. Outside(s, n)
  BY <1>1, BlockInside DEF Outside
<1> QED BY <1>1, <1>2, NeatScan DEF Counts

(* A neat text stays so when a character or a code is added.                 *)
LEMMA OneMoreNeat ==
  ASSUME NEW s \in Text, Neat(s), NEW c \in Char, c \notin {"START", "END", "ESC"}
  PROVE  Append(s, c) \in Text /\ Neat(Append(s, c))
<1>1. PICK N \in Nat : N = Len(s)
  BY Characters
<1>2. PICK t \in Text :
        t = Append(s, c) /\ Len(t) = N + 1 /\ t[N + 1] = c /\ \A i \in 1..N : t[i] = s[i]
  BY <1>1, OneMore
<1>3. ASSUME NEW a, NEW b, Block(s, a, b) PROVE Block(t, a, b)
  <2>1. N <= Len(s) /\ N <= Len(t) /\ b <= N
    BY <1>1, <1>2, <1>3, BlockInside
  <2> QED BY <1>1, <1>2, <1>3, <2>1, SameBlocks
<1>4. ASSUME NEW k \in 1..N + 1
      PROVE  /\ t[k] = "START" => \E b \in 1..N + 1 : Block(t, k, b)
             /\ t[k] = "END" => \E a \in 1..N + 1 : Block(t, a, k)
             /\ t[k] = "ESC" => k - 1 \in 1..N + 1 /\ t[k - 1] = "START"
  <2>1. CASE k = N + 1
    BY <1>2, <2>1
  <2>2. CASE k \in 1..N
    <3>1. t[k] = s[k]
      BY <1>2, <2>2
    <3>2. /\ s[k] = "START" => \E b \in 1..N : Block(s, k, b)
          /\ s[k] = "END" => \E a \in 1..N : Block(s, a, k)
          /\ s[k] = "ESC" => k - 1 \in 1..N /\ s[k - 1] = "START"
      BY <1>1, <2>2 DEF Neat
    <3>3. \A i \in 1..N : i \in 1..N + 1
      OBVIOUS
    <3>4. s[k] = "ESC" => t[k - 1] = "START"
      BY <1>2, <3>2
    <3> QED BY <1>3, <3>1, <3>2, <3>3, <3>4
  <2> QED BY <2>1, <2>2
<1> QED BY <1>2, <1>4 DEF Neat

(* A neat text with one more code that is set off.                           *)
LEMMA CodeNeat ==
  ASSUME NEW s \in Text, Neat(s), NEW code \in Text, IsColour(code, 1, Len(code))
  PROVE  s \o SetOff(code) \in Text /\ Neat(s \o SetOff(code))
<1>1. PICK N \in Nat, M \in Nat : N = Len(s) /\ M = Len(code)
  BY Characters
<1>2. PICK x \in Text : /\ x = SetOff(code) /\ Len(x) = M + 2
                        /\ x[1] = "START" /\ x[M + 2] = "END"
                        /\ \A i \in 1..M : x[i + 1] = code[i]
  BY <1>1, SetOffProperties
<1>3. PICK t \in Text : /\ t = s \o x /\ Len(t) = N + (M + 2)
                        /\ \A i \in 1..N : t[i] = s[i]
                        /\ \A i \in 1..M + 2 : t[N + i] = x[i]
  <2>1. /\ s \o x \in Text /\ Len(s \o x) = Len(s) + Len(x)
        /\ \A i \in 1..Len(s) : (s \o x)[i] = s[i]
        /\ \A i \in 1..Len(x) : (s \o x)[Len(s) + i] = x[i]
    BY Pieced
  <2>2. PICK t \in Text : t = s \o x
    BY <2>1
  <2> QED BY <1>1, <1>2, <2>1, <2>2
<1>4. ASSUME NEW a, NEW b, Block(s, a, b) PROVE Block(t, a, b)
  <2>1. N <= Len(s) /\ N <= Len(t) /\ b <= N
    BY <1>1, <1>3, <1>4, BlockInside
  <2> QED BY <1>1, <1>3, <1>4, <2>1, SameBlocks
<1>5. /\ 2 < M /\ code[1] = "ESC" /\ code[2] = "[" /\ code[M] = "m"
      /\ \A k \in 3..M - 1 : code[k] \in Digits
  <2>1. /\ 1 + 1 < M /\ code[1] = "ESC" /\ code[1 + 1] = "[" /\ code[M] = "m"
        /\ \A k \in 1 + 2..M - 1 : code[k] \in Digits
    BY <1>1 DEF IsColour
  <2> QED BY <2>1
<1>6. \A i \in 1..M : t[N + 1 + i] = code[i]
  <2> SUFFICES ASSUME NEW i \in 1..M PROVE t[N + 1 + i] = code[i]
    OBVIOUS
  <2>1. i + 1 \in 1..M + 2 /\ N + 1 + i = N + (i + 1)
    OBVIOUS
  <2> QED BY <1>2, <1>3, <2>1
<1>7. PICK a \in 1..Len(t), b \in 1..Len(t) : a = N + 1 /\ b = N + (M + 2)
  BY <1>3
<1>8. t[a] = "START" /\ t[b] = "END"
  <2>1. 1 \in 1..M + 2 /\ M + 2 \in 1..M + 2
    OBVIOUS
  <2> QED BY <1>2, <1>3, <1>7, <2>1
<1>9. IsColour(t, a + 1, b - 1)
  <2>1. 1 \in 1..M /\ 2 \in 1..M /\ M \in 1..M
    BY <1>5
  <2>2. /\ a + 1 = N + 1 + 1 /\ (a + 1) + 1 = N + 1 + 2 /\ b - 1 = N + 1 + M
        /\ (a + 1) + 1 < b - 1
    BY <1>5, <1>7
  <2>3. t[a + 1] = "ESC" /\ t[(a + 1) + 1] = "[" /\ t[b - 1] = "m"
    BY <1>5, <1>6, <2>1, <2>2
  <2>4. ASSUME NEW k \in (a + 1) + 2..(b - 1) - 1 PROVE t[k] \in Digits
    <3>1. PICK i \in 3..M - 1 : k = N + 1 + i
      <4>1. k - N - 1 \in 3..M - 1 /\ k = N + 1 + (k - N - 1)
        BY <2>2
      <4> QED BY <4>1
    <3>2. i \in 1..M /\ code[i] \in Digits
      BY <1>5
    <3> QED BY <1>6, <3>1, <3>2
  <2> QED BY <2>2, <2>3, <2>4 DEF IsColour
<1>10. Block(t, a, b)
  BY <1>8, <1>9 DEF Block
<1>11. /\ \A k \in a + 1..b - 1 : t[k] \notin {"START", "END"}
       /\ \A k \in a + 2..b - 1 : t[k] # "ESC"
  <2>1. /\ a \in 1..Len(t) /\ b \in 1..Len(t) /\ Len(t) \in Nat
        /\ a + 3 < b /\ t[a] = "START" /\ t[b] = "END" /\ t[a + 1] = "ESC"
        /\ IsColour(t, a + 1, b - 1)
        /\ \A k \in a + 1..b - 1 : t[k] \notin {"START", "END", "BS", "CR"}
        /\ \A k \in a + 2..b - 1 : t[k] # "ESC"
    BY <1>10, BlockInside
  <2> QED BY <2>1
<1>12. ASSUME NEW k \in 1..Len(t)
       PROVE  /\ t[k] = "START" => \E e \in 1..Len(t) : Block(t, k, e)
              /\ t[k] = "END" => \E e \in 1..Len(t) : Block(t, e, k)
              /\ t[k] = "ESC" => k - 1 \in 1..Len(t) /\ t[k - 1] = "START"
  <2>1. CASE k \in 1..N
    <3>1. t[k] = s[k]
      BY <1>3, <2>1
    <3>2. /\ s[k] = "START" => \E e \in 1..N : Block(s, k, e)
          /\ s[k] = "END" => \E e \in 1..N : Block(s, e, k)
          /\ s[k] = "ESC" => k - 1 \in 1..N /\ s[k - 1] = "START"
      BY <1>1, <2>1 DEF Neat
    <3>3. \A i \in 1..N : i \in 1..Len(t)
      BY <1>3
    <3>4. s[k] = "ESC" => t[k - 1] = "START"
      BY <1>3, <3>2
    <3> QED BY <1>4, <3>1, <3>2, <3>3, <3>4
  <2>2. CASE k = a
    BY <1>8, <1>10, <2>2
  <2>3. CASE k = b
    BY <1>8, <1>10, <2>3
  <2>4. CASE k \in a + 1..b - 1
    <3>1. t[k] \notin {"START", "END"}
      BY <1>11, <2>4
    <3>2. t[k] = "ESC" => k - 1 = a
      <4>1. k = a + 1 \/ k \in a + 2..b - 1
        BY <1>7, <2>4
      <4> QED BY <1>7, <1>11, <4>1
    <3> QED BY <1>7, <1>8, <3>1, <3>2
  <2>5. k \in 1..N \/ k = a \/ k = b \/ k \in a + 1..b - 1
    BY <1>3, <1>7
  <2> QED BY <2>1, <2>2, <2>3, <2>4, <2>5
<1> QED BY <1>2, <1>3, <1>12 DEF Neat

-----------------------------------------------------------------------------
(* What unbackspace() does with a neat text *)

(* What is added last goes first.                                            *)
LEMMA WithoutAppended ==
  ASSUME NEW s \in Text, NEW c \in Char
  PROVE  WithoutLast(Append(s, c)) = s
<1>1. PICK N \in Nat : N = Len(s)
  BY Characters
<1>2. s \in Seq(Char) /\ Append(s, c) \in Seq(Char)
  BY OneMore DEF Text
<1>3. Len(Append(s, c)) = N + 1 /\ Append(s, c) # <<>>
  <2>1. Len(Append(s, c)) = N + 1
    BY <1>1, OneMore
  <2> QED BY <2>1, EmptySeq
<1>4. SubSeq(Append(s, c), 1, N) = s
  BY <1>1, <1>2
<1>5. (N + 1) - 1 = N
  OBVIOUS
<1> QED BY <1>3, <1>4, <1>5 DEF WithoutLast, Front

(* Unwritten() takes the last cell, and the codes after it.                  *)
LEMMA UnwrittenNeat ==
  ASSUME NEW s \in Text, Neat(s), NoBack(s)
  PROVE  /\ Unwritten(s) \in Text /\ Neat(Unwritten(s)) /\ NoBack(Unwritten(s))
         /\ Cells(Unwritten(s)) = WithoutLast(Cells(s))
<1>1. CASE s = <<>>
  <2>1. Unwritten(s) = s
    BY <1>1 DEF Unwritten
  <2>2. WithoutLast(Cells(s)) = Cells(s)
    BY <1>1, NothingCounts DEF WithoutLast
  <2> QED BY <2>1, <2>2
<1>2. CASE s # <<>>
  <2>1. PICK N \in Nat \ {0} : N = Len(s)
    BY <1>2, Characters, EmptySeq DEF Text
  <2>2. PICK g \in [0..N - 1 -> Nat] :
           /\ \A p \in 0..N - 1 : g[p] \in 0..p /\ g[p] = Skipped(g, s, p)
           /\ Unwritten(s) = SubSeq(s, 1, g[N - 1])
    BY <1>2, <2>1, UnwrittenSkips
  <2>3. PICK h : h = Scan(s) /\ Scans(h, s) /\ \A k \in 0..N : h[k] \in Visibles
    BY <2>1, Scanning
  <2> DEFINE Left(k) == Outside(s, k) => /\ Outside(s, g[k - 1])
                                         /\ h[g[k - 1]].cells = WithoutLast(h[k].cells)
             G == {n \in Nat : n <= N => \A k \in 1..n : Left(k)}
  <2>4. 0 \in G
    OBVIOUS
  <2>5. ASSUME NEW n \in 1..N, n - 1 \in G PROVE n \in G
    <3>1. \A k \in 1..n - 1 : Left(k)
      BY <2>1, <2>5
    <3>2. ASSUME Outside(s, n)
          PROVE  /\ Outside(s, g[n - 1])
                 /\ h[g[n - 1]].cells = WithoutLast(h[n].cells)
      <4>1. PICK p \in 0..N - 1 : p = n - 1 /\ p + 1 = n
        BY <2>1
      <4>2. g[p] = Skipped(g, s, p)
        BY <2>2, <4>1
      <4>3. s[n] # "START"
        <5> SUFFICES ASSUME s[n] = "START" PROVE FALSE
          OBVIOUS
        <5>1. PICK b \in 1..Len(s) : Block(s, n, b)
          BY <2>1 DEF Neat
        <5>2. n < b
          BY <5>1, BlockInside
        <5> QED BY <2>1, <3>2, <5>1, <5>2 DEF Outside
      <4>4. CASE s[n] = "END"
        <5>1. PICK a \in 1..N : Block(s, a, n)
          BY <2>1, <4>4 DEF Neat
        <5>2. /\ a + 3 < n /\ s[a] = "START"
              /\ \A k \in a + 1..n - 1 : s[k] \notin {"START", "END"}
          BY <5>1, BlockEnds
        <5>3. Outside(s, a - 1)
          <6> SUFFICES ASSUME NEW c \in 1..Len(s), NEW d \in 1..Len(s), Block(s, c, d),
                              c <= a - 1, a - 1 < d
                       PROVE  FALSE
            BY DEF Outside
          <6>1. d < a \/ n < c \/ (c = a /\ d = n)
            BY <5>1, BlocksApart
          <6> QED BY <2>1, <5>2, <6>1
        <5>4. h[a - 1].visible = TRUE
          BY <2>1, <2>3, <5>3, NeatScan
        <5>5. h[n].cells = h[a - 1].cells
          <6>1. n \in a..n /\ a \in 1..Len(s) /\ n \in 1..Len(s) /\ a < n
            BY <2>1, <5>2
          <6>2. /\ \A k \in a..n : Scan(s)[k].cells = Scan(s)[a - 1].cells
                /\ \A k \in a..n - 1 : Scan(s)[k].visible = FALSE
                /\ Scan(s)[n].visible = TRUE
            BY <2>3, <4>4, <5>2, <5>4, <6>1, BlockUncounted
          <6> QED BY <2>3, <6>1, <6>2
        <5>6. CodeStart(s, p) = a - 1
          <6>1. CodeStart(s, p) \in 0..p /\ IsBlockStart(s, p, CodeStart(s, p))
            BY BlocksStart
          <6>2. PICK q \in 0..p : q = CodeStart(s, p)
            BY <6>1
          <6>3. (q = 0 \/ s[q + 1] = "START") /\ \A r \in q + 1..p : s[r + 1] # "START"
            BY <6>1, <6>2 DEF IsBlockStart
          <6>4. ~(q < a - 1)
            <7> SUFFICES ASSUME q < a - 1 PROVE FALSE
              OBVIOUS
            <7>1. a - 1 \in q + 1..p /\ (a - 1) + 1 = a
              BY <2>1, <4>1, <5>2
            <7> QED BY <5>2, <6>3, <7>1
          <6>5. ~(q > a - 1)
            <7> SUFFICES ASSUME q > a - 1 PROVE FALSE
              OBVIOUS
            <7>1. q + 1 \in a + 1..n - 1 \/ q + 1 = n
              BY <2>1, <4>1
            <7> QED BY <4>4, <5>2, <6>3, <7>1
          <6> QED BY <2>1, <6>2, <6>4, <6>5
        <5>7. g[p] = IF a = 1 THEN 0 ELSE g[a - 2]
          <6>1. p # 0 /\ s[p + 1] = "END" /\ (a - 1) - 1 = a - 2
            BY <2>1, <4>1, <4>4, <5>2
          <6>2. g[p] = IF a - 1 = 0 THEN 0 ELSE g[a - 2]
            BY <4>2, <5>6, <6>1 DEF Skipped
          <6> QED BY <2>1, <6>2
        <5>8. CASE a = 1
          <6>1. g[p] = 0 /\ a - 1 = 0
            BY <5>7, <5>8
          <6>2. h[n].cells = <<>> /\ h[0].cells = <<>>
            BY <2>3, <5>5, <6>1 DEF Scans
          <6> QED BY <4>1, <5>3, <6>1, <6>2 DEF WithoutLast
        <5>9. CASE a # 1
          <6>1. a - 1 \in 1..n - 1 /\ (a - 1) - 1 = a - 2
            BY <2>1, <5>2, <5>9
          <6>2. Left(a - 1)
            BY <3>1, <6>1
          <6>3. Outside(s, g[a - 2]) /\ h[g[a - 2]].cells = WithoutLast(h[a - 1].cells)
            BY <5>3, <6>1, <6>2
          <6> QED BY <4>1, <5>5, <5>7, <5>9, <6>3
        <5> QED BY <5>8, <5>9
      <4>5. CASE s[n] # "END"
        <5>1. g[p] = p
          BY <4>1, <4>2, <4>5 DEF Skipped
        <5>2. Outside(s, p)
          <6> SUFFICES ASSUME NEW a \in 1..Len(s), NEW b \in 1..Len(s), Block(s, a, b),
                              a <= p, p < b
                       PROVE  FALSE
            BY DEF Outside
          <6>1. b # n
            BY <4>5, BlockEnds
          <6>2. a <= n /\ n < b
            BY <2>1, <4>1, <6>1
          <6> QED BY <3>2, <6>2 DEF Outside
        <5>3. PICK r \in Visibles : r = h[p] /\ r.visible = TRUE
          <6>1. p \in 0..Len(s) /\ p \in 0..N
            BY <2>1
          <6>2. Scan(s)[p].visible = TRUE
            BY <5>2, <6>1, NeatScan
          <6> QED BY <2>3, <6>1, <6>2
        <5>4. h[n] = Seen(r, s[n])
          BY <2>1, <2>3, <4>1, <5>3 DEF Scans
        <5>5. PICK c \in Char : c = s[n] /\ c \notin {"START", "END", "BS", "CR"}
          BY <2>1, <4>3, <4>5, Characters DEF NoBack
        <5>6. PICK cells \in Text : cells = Append(r.cells, c)
          BY <5>3, OneMore DEF Visibles
        <5>7. Seen(r, c) = [r EXCEPT !.cells = cells]
          <6>1. Filled(r.cells, c) = cells
            BY <5>5, <5>6 DEF Filled
          <6> QED BY <5>3, <5>5, <6>1 DEF Seen
        <5>8. h[n].cells = cells
          BY <5>4, <5>5, <5>7 DEF Visibles
        <5>9. WithoutLast(cells) = r.cells
          <6>1. r.cells \in Text
            BY DEF Visibles
          <6> QED BY <5>6, <6>1, WithoutAppended
        <5> QED BY <4>1, <5>1, <5>2, <5>3, <5>8, <5>9
      <4> QED BY <4>4, <4>5
    <3>3. Left(n)
      BY <3>2
    <3>4. \A k \in 1..n : k = n \/ k \in 1..n - 1
      OBVIOUS
    <3> HIDE DEF Left
    <3> QED BY <2>1, <3>1, <3>3, <3>4
  <2> HIDE DEF G
  <2>6. 0..N \subseteq G
    BY <2>1, <2>4, <2>5, Steps
  <2>7. Left(N)
    <3> HIDE DEF Left
    <3> QED BY <2>1, <2>6 DEF G
  <2>8. Outside(s, N)
    BY <2>1, BlockInside DEF Outside
  <2>9. PICK m \in 0..N - 1 : m = g[N - 1] /\ m \in 0..N
    BY <2>1, <2>2
  <2>10. Outside(s, m) /\ h[m].cells = WithoutLast(h[N].cells)
    BY <2>7, <2>8, <2>9
  <2>11. PICK t : t = Unwritten(s) /\ t = SubSeq(s, 1, m)
    BY <2>2, <2>9
  <2>12. t \in Text /\ Len(t) = m /\ Neat(t) /\ \A i \in 1..m : t[i] = s[i]
    BY <2>1, <2>9, <2>10, <2>11, NeatPrefix
  <2>13. NoBack(t)
    BY <2>1, <2>9, <2>12 DEF NoBack
  <2>14. Cells(t) = h[m].cells /\ Cells(s) = h[N].cells
    <3>1. Scans(Scan(t), t) /\ Cells(t) = Scan(t)[m].cells /\ Cells(s) = Scan(s)[N].cells
      BY <2>1, <2>12, Scanning
    <3>2. PICK k \in 0..Len(t) : k = m /\ k <= Len(s) /\ \A i \in 1..k : t[i] = s[i]
      BY <2>1, <2>9, <2>12
    <3>3. \A i \in 0..k : Scan(t)[i] = h[i]
      BY <2>3, <2>12, <3>1, <3>2, ScansAgree
    <3> QED BY <2>3, <3>1, <3>2, <3>3
  <2> QED BY <2>10, <2>11, <2>12, <2>13, <2>14
<1> QED BY <1>1, <1>2

(* A code that is set off does not begin within another.                     *)
LEMMA BlockOutside ==
  ASSUME NEW s \in Text, NEW a, NEW b, Block(s, a, b)
  PROVE  Outside(s, a - 1)
<1> SUFFICES ASSUME NEW c \in 1..Len(s), NEW d \in 1..Len(s), Block(s, c, d),
                    c <= a - 1, a - 1 < d
             PROVE  FALSE
  BY DEF Outside
<1>1. a \in Nat /\ b \in Nat /\ Len(s) \in Nat /\ a < b
  BY BlockEnds
<1>2. d < a \/ b < c \/ (c = a /\ d = b)
  BY BlocksApart
<1> QED BY <1>1, <1>2

(* The first characters of a text, and one more. *)
LEMMA LongerPrefix ==
  ASSUME NEW s \in Text, NEW m \in 0..Len(s) - 1
  PROVE  /\ Append(SubSeq(s, 1, m), s[m + 1]) = SubSeq(s, 1, m + 1)
         /\ SubSeq(s, 1, m) \in Text /\ SubSeq(s, 1, Len(s)) = s
<1>1. PICK N \in Nat : N = Len(s) /\ \A i \in 1..N : s[i] \in Char
  BY Characters
<1>2. PICK one \in Nat \ {0}, b \in Int, c \in Int :
        one = 1 /\ b = m /\ b <= Len(s) /\ c = m + 1 /\ c <= Len(s)
  <2>1. 1 \in Nat \ {0} /\ m \in Int /\ m <= Len(s) /\ m + 1 \in Int /\ m + 1 <= Len(s)
    BY <1>1
  <2> QED BY <2>1
<1>3. /\ SubSeq(s, one, b) \in Text /\ Len(s) \in Nat
      /\ Len(SubSeq(s, one, b)) = IF one <= b THEN b - one + 1 ELSE 0
      /\ \A i \in 1..b - one + 1 : SubSeq(s, one, b)[i] = s[one + i - 1]
  BY <1>2, Piece
<1>4. /\ SubSeq(s, one, c) \in Text /\ Len(s) \in Nat
      /\ Len(SubSeq(s, one, c)) = IF one <= c THEN c - one + 1 ELSE 0
      /\ \A i \in 1..c - one + 1 : SubSeq(s, one, c)[i] = s[one + i - 1]
  BY <1>2, Piece
<1>5. PICK t \in Text : t = SubSeq(s, 1, m) /\ Len(t) = m /\ \A i \in 1..m : t[i] = s[i]
  <2>1. PICK t \in Text : t = SubSeq(s, 1, m)
    BY <1>2, <1>3
  <2>2. Len(t) = m /\ \A i \in 1..m : t[i] = s[i]
    BY <1>1, <1>2, <1>3, <2>1
  <2> QED BY <2>1, <2>2
<1>6. PICK u \in Text : u = SubSeq(s, 1, m + 1) /\ Len(u) = m + 1 /\ \A i \in 1..m + 1 : u[i] = s[i]
  <2>1. PICK u \in Text : u = SubSeq(s, 1, m + 1)
    BY <1>2, <1>4
  <2>2. Len(u) = m + 1 /\ \A i \in 1..m + 1 : u[i] = s[i]
    BY <1>1, <1>2, <1>4, <2>1
  <2> QED BY <2>1, <2>2
<1>7. PICK v \in Text : /\ v = Append(t, s[m + 1]) /\ Len(v) = m + 1
                        /\ \A i \in 1..m : v[i] = t[i]
                        /\ v[m + 1] = s[m + 1]
  <2>1. PICK e \in Char : e = s[m + 1]
    BY <1>1
  <2>2. /\ Append(t, e) \in Text /\ Len(t) \in Nat /\ Len(Append(t, e)) = Len(t) + 1
        /\ \A i \in 1..Len(t) : Append(t, e)[i] = t[i]
        /\ Append(t, e)[Len(t) + 1] = e
    BY OneMore
  <2> QED BY <1>5, <2>1, <2>2
<1>8. \A i \in 1..m + 1 : v[i] = u[i]
  <2>1. \A i \in 1..m + 1 : i \in 1..m \/ i = m + 1
    BY <1>1
  <2> QED BY <1>1, <1>5, <1>6, <1>7, <2>1
<1>9. u = v
  <2>1. u \in Seq(Char) /\ v \in Seq(Char) /\ Len(u) = Len(v)
    BY <1>6, <1>7 DEF Text
  <2>2. \A i \in 1..Len(u) : u[i] = v[i]
    BY <1>6, <1>8
  <2> QED BY <2>1, <2>2, SeqEqual
<1>10. SubSeq(s, 1, Len(s)) = s
  BY SubSeqFull DEF Text
<1> QED BY <1>5, <1>6, <1>7, <1>9, <1>10

(* The empty text is neat.                                                   *)
LEMMA NothingNeat ==
  <<>> \in Text /\ Neat(<<>>) /\ NoBack(<<>>) /\ Cells(<<>>) = <<>>
<1>1. <<>> \in Text /\ Len(<<>>) = 0
  BY NothingToCopy, EmptySeq
<1> QED BY <1>1, NothingCounts DEF Neat, NoBack

(* A code by itself. *)
LEMMA CodePiece ==
  ASSUME NEW s \in Text, NEW i \in 1..Len(s), NEW j \in 1..Len(s), IsColour(s, i, j)
  PROVE  /\ SubSeq(s, i, j) \in Text /\ Len(SubSeq(s, i, j)) = j - i + 1
         /\ IsColour(SubSeq(s, i, j), 1, Len(SubSeq(s, i, j)))
         /\ \A k \in 1..j - i + 1 : SubSeq(s, i, j)[k] = s[i + k - 1]
<1>1. /\ i + 1 < j /\ s[i] = "ESC" /\ s[i + 1] = "[" /\ s[j] = "m"
      /\ \A k \in i + 2..j - 1 : s[k] \in Digits
  BY DEF IsColour
<1>2. PICK N \in Nat : N = Len(s)
  BY Characters
<1>3. PICK M \in Nat : M = j - i + 1 /\ M > 2
  <2>1. j - i + 1 \in Nat /\ j - i + 1 > 2
    BY <1>1, <1>2
  <2> QED BY <2>1
<1>4. PICK code \in Text :
        code = SubSeq(s, i, j) /\ Len(code) = M /\ \A k \in 1..M : code[k] = s[i + k - 1]
  <2>1. PICK x \in Nat \ {0}, y \in Int : x = i /\ y = j /\ y <= Len(s) /\ x <= y
    BY <1>1, <1>2
  <2>2. /\ SubSeq(s, x, y) \in Text /\ Len(s) \in Nat
        /\ Len(SubSeq(s, x, y)) = IF x <= y THEN y - x + 1 ELSE 0
        /\ \A k \in 1..y - x + 1 : SubSeq(s, x, y)[k] = s[x + k - 1]
    BY <2>1, Piece
  <2> QED BY <1>3, <2>1, <2>2
<1>5. IsColour(code, 1, M)
  <2>1. /\ 1 \in 1..M /\ 1 + 1 \in 1..M /\ M \in 1..M
        /\ i + 1 - 1 = i /\ i + (1 + 1) - 1 = i + 1 /\ i + M - 1 = j
    BY <1>2, <1>3
  <2>2. code[1] = "ESC" /\ code[1 + 1] = "[" /\ code[M] = "m"
    BY <1>1, <1>4, <2>1
  <2>3. ASSUME NEW k \in 1 + 2..M - 1 PROVE code[k] \in Digits
    <3>1. k \in 1..M /\ i + k - 1 \in i + 2..j - 1
      BY <1>2, <1>3
    <3> QED BY <1>1, <1>4, <3>1
  <2>4. 1 + 1 < M
    BY <1>3
  <2> QED BY <2>2, <2>3, <2>4 DEF IsColour
<1> QED BY <1>3, <1>4, <1>5

(* A colour code has nothing in it that is typed over.                       *)
LEMMA CodeInside ==
  ASSUME NEW code \in Text, IsColour(code, 1, Len(code))
  PROVE  \A k \in 1..Len(code) : code[k] \notin {"START", "END", "BS", "CR"}
<1>1. PICK one \in Int, M \in Int : one = 1 /\ M = Len(code) /\ IsColour(code, one, M)
  BY Characters
<1>2. /\ code[one] = "ESC"
      /\ \A k \in one + 1..M : code[k] \notin {"ESC", "START", "END", "BS", "CR"}
  BY <1>1, ColourInside
<1>3. \A k \in 1..M : k = one \/ k \in one + 1..M
  BY <1>1
<1> QED BY <1>1, <1>2, <1>3

(* g[n] is what the loop of unbackspace() has written after n characters.    *)
Unbackspaces(g, t) ==
  g \in [0..Len(t) -> Text] /\ \A n \in 1..Len(t) : g[n] = Backspaced(g[n - 1], t[n])

(* u is s and a code that has been set off.                                 *)
WithCode(u, s) ==
  \E code \in Text : IsColour(code, 1, Len(code)) /\ u = s \o SetOff(code)

(* A code is written after the copy, with its START and END.                 *)
LEMMA CodeCopied ==
  ASSUME NEW t \in Text, NEW g, Unbackspaces(g, t), NEW a, NEW b, Block(t, a, b)
  PROVE  WithCode(g[b], g[a - 1])
<1>1. PICK N \in Nat : N = Len(t)
  BY Characters
<1>2. /\ a \in 1..N /\ b \in 1..N /\ a + 3 < b /\ t[a] = "START" /\ t[b] = "END"
      /\ IsColour(t, a + 1, b - 1)
      /\ \A k \in a + 1..b - 1 : t[k] \notin {"BS", "CR"}
  <2>1. /\ a \in 1..Len(t) /\ b \in 1..Len(t) /\ Len(t) \in Nat
        /\ a + 3 < b /\ t[a] = "START" /\ t[b] = "END" /\ t[a + 1] = "ESC"
        /\ IsColour(t, a + 1, b - 1)
        /\ \A k \in a + 1..b - 1 : t[k] \notin {"START", "END", "BS", "CR"}
        /\ \A k \in a + 2..b - 1 : t[k] # "ESC"
    BY BlockInside
  <2> QED BY <1>1, <2>1
<1>3. PICK M \in Nat : M = b - a - 1 /\ M > 2
  <2>1. b - a - 1 \in Nat /\ b - a - 1 > 2
    BY <1>2
  <2> QED BY <2>1
<1>4. PICK code \in Text : /\ Len(code) = M /\ IsColour(code, 1, Len(code))
                          /\ \A i \in 1..M : code[i] = t[a + i]
  <2>1. PICK x \in 1..Len(t), y \in 1..Len(t) :
          x = a + 1 /\ y = b - 1 /\ x <= y /\ y - x + 1 = M /\ IsColour(t, x, y)
    <3>1. /\ a + 1 \in 1..Len(t) /\ b - 1 \in 1..Len(t) /\ a + 1 <= b - 1
          /\ (b - 1) - (a + 1) + 1 = M
      BY <1>1, <1>2, <1>3
    <3> QED BY <1>2, <3>1
  <2>2. PICK code \in Text : code = SubSeq(t, x, y)
    BY <2>1, CodePiece
  <2>3. /\ Len(code) = M /\ IsColour(code, 1, Len(code))
        /\ \A i \in 1..M : code[i] = t[x + i - 1]
    BY <2>1, <2>2, CodePiece
  <2>4. \A i \in 1..M : x + i - 1 = a + i
    BY <1>2, <2>1
  <2> QED BY <2>3, <2>4
<1>6. PICK s \in Text, L \in Nat : s = g[a - 1] /\ L = Len(s)
  <2>1. a - 1 \in 0..N
    BY <1>2
  <2>2. g[a - 1] \in Text
    BY <1>1, <2>1 DEF Unbackspaces
  <2> QED BY <2>2, Characters
<1>7. PICK x \in Text : /\ x = SetOff(code) /\ Len(x) = M + 2
                        /\ x[1] = "START" /\ x[M + 2] = "END"
                        /\ \A i \in 1..M : x[i + 1] = code[i]
  BY <1>4, SetOffProperties
<1>8. PICK y \in Text : /\ y = s \o x /\ Len(y) = L + (M + 2)
                        /\ \A i \in 1..L : y[i] = s[i]
                        /\ \A i \in 1..M + 2 : y[L + i] = x[i]
  <2>1. /\ s \o x \in Text /\ Len(s \o x) = Len(s) + Len(x)
        /\ \A i \in 1..Len(s) : (s \o x)[i] = s[i]
        /\ \A i \in 1..Len(x) : (s \o x)[Len(s) + i] = x[i]
    BY Pieced
  <2>2. PICK y \in Text : y = s \o x
    BY <2>1
  <2> QED BY <1>6, <1>7, <2>1, <2>2
<1>9. ASSUME NEW i \in 1..M + 2 PROVE x[i] = t[a - 1 + i] /\ t[a - 1 + i] \notin {"BS", "CR"}
  <2>1. CASE i = 1
    <3>1. a - 1 + 1 = a
      BY <1>2
    <3> QED BY <1>2, <1>7, <2>1, <3>1
  <2>2. CASE i = M + 2
    <3>1. a - 1 + (M + 2) = b
      BY <1>2, <1>3
    <3> QED BY <1>2, <1>7, <2>2, <3>1
  <2>3. CASE i # 1 /\ i # M + 2
    <3>1. PICK k \in 1..M : i = k + 1 /\ a - 1 + i = a + k /\ a + k \in a + 1..b - 1
      <4>1. /\ i - 1 \in 1..M /\ i = (i - 1) + 1 /\ a - 1 + i = a + (i - 1)
            /\ a + (i - 1) \in a + 1..b - 1
        BY <1>2, <1>3, <2>3
      <4> QED BY <4>1
    <3> QED BY <1>2, <1>4, <1>7, <3>1
  <2> QED BY <2>1, <2>2, <2>3
<1> DEFINE G == {n \in Nat : n <= M + 2 => g[a - 1 + n] = SubSeq(y, 1, L + n)}
<1>10. 0 \in G
  <2>1. SubSeq(y, 1, L) = s
    <3>1. PICK one \in Nat \ {0}, c \in Int : one = 1 /\ c = L /\ c <= Len(y)
      BY <1>8
    <3>2. /\ SubSeq(y, one, c) \in Text /\ Len(y) \in Nat
          /\ Len(SubSeq(y, one, c)) = IF one <= c THEN c - one + 1 ELSE 0
          /\ \A i \in 1..c - one + 1 : SubSeq(y, one, c)[i] = y[one + i - 1]
      BY <3>1, Piece
    <3>3. PICK z \in Text : z = SubSeq(y, 1, L)
      BY <3>1, <3>2
    <3>4. Len(z) = Len(s) /\ \A i \in 1..Len(z) : z[i] = s[i]
      <4>1. Len(z) = L
        BY <3>1, <3>2, <3>3
      <4>2. \A i \in 1..L : z[i] = y[i]
        BY <3>1, <3>2, <3>3
      <4> QED BY <1>6, <1>8, <4>1, <4>2
    <3>5. z \in Seq(Char) /\ s \in Seq(Char)
      BY DEF Text
    <3>6. z = s
      BY <3>4, <3>5, SeqEqual
    <3> QED BY <3>3, <3>6
  <2>2. a - 1 + 0 = a - 1 /\ L + 0 = L
    BY <1>2
  <2> QED BY <1>6, <2>1, <2>2
<1>11. ASSUME NEW n \in 1..M + 2, n - 1 \in G PROVE n \in G
  <2>1. PICK k \in 1..N : k = a - 1 + n /\ k - 1 = a - 1 + (n - 1)
    <3>1. a - 1 + n \in 1..N /\ (a - 1 + n) - 1 = a - 1 + (n - 1)
      BY <1>2, <1>3
    <3> QED BY <3>1
  <2>2. PICK m \in 0..Len(y) - 1 : m = L + (n - 1) /\ m + 1 = L + n
    <3>1. L + (n - 1) \in 0..Len(y) - 1 /\ (L + (n - 1)) + 1 = L + n
      BY <1>8
    <3> QED BY <3>1
  <2>3. g[k - 1] = SubSeq(y, 1, m)
    BY <1>11, <2>1, <2>2
  <2>4. t[k] = y[m + 1] /\ t[k] \notin {"BS", "CR"}
    BY <1>8, <1>9, <2>1, <2>2
  <2>5. g[k] = Append(SubSeq(y, 1, m), y[m + 1])
    <3>1. g[k] = Backspaced(g[k - 1], t[k])
      BY <1>1 DEF Unbackspaces
    <3> QED BY <2>3, <2>4, <3>1 DEF Backspaced
  <2>6. g[k] = SubSeq(y, 1, m + 1)
    BY <2>5, LongerPrefix
  <2> QED BY <2>1, <2>2, <2>6
<1> HIDE DEF G
<1>12. 0..M + 2 \subseteq G
  <2>1. M + 2 \in Nat
    OBVIOUS
  <2> QED BY <1>10, <1>11, <2>1, Steps
<1>13. g[a - 1 + (M + 2)] = SubSeq(y, 1, L + (M + 2))
  <2>1. M + 2 \in 0..M + 2 /\ M + 2 \in Nat
    OBVIOUS
  <2>2. M + 2 \in G
    BY <1>12, <2>1
  <2> QED BY <2>1, <2>2 DEF G
<1>14. g[b] = y
  <2>1. a - 1 + (M + 2) = b
    BY <1>2, <1>3
  <2>2. SubSeq(y, 1, Len(y)) = y
    BY SubSeqFull DEF Text
  <2> QED BY <1>8, <1>13, <2>1, <2>2
<1> QED BY <1>4, <1>6, <1>7, <1>8, <1>14 DEF WithCode

(* unbackspace() writes the cells that colourless_strlen() counts, and the    *)
(* codes whole.                                                              *)
LEMMA UnbackspaceNeat ==
  ASSUME NEW t \in Text, Neat(t)
  PROVE  /\ unbackspace(t) \in Text /\ Neat(unbackspace(t)) /\ NoBack(unbackspace(t))
         /\ Cells(unbackspace(t)) = Cells(t)
<1>1. PICK N \in Nat : N = Len(t) /\ \A n \in 1..N : t[n] \in Char
  BY Characters
<1>2. PICK g \in [0..N -> Text] : /\ g[0] = <<>>
                                  /\ \A n \in 1..N : g[n] = Backspaced(g[n - 1], t[n])
                                  /\ unbackspace(t) = g[N]
  BY <1>1, UnbackspaceLoop
<1>3. PICK h : /\ h = Scan(t) /\ Scans(h, t) /\ Cells(t) = h[N].cells
               /\ \A k \in 0..N : h[k] \in Visibles
  BY <1>1, Scanning
<1> DEFINE Right(n) == Outside(t, n) =>
                         Neat(g[n]) /\ NoBack(g[n]) /\ Cells(g[n]) = h[n].cells
           G == {n \in Nat : n <= N => \A k \in 0..n : Right(k)}
<1>4. 0 \in G
  <2>1. Neat(g[0]) /\ NoBack(g[0]) /\ Cells(g[0]) = h[0].cells
    BY <1>2, <1>3, NothingNeat DEF Scans
  <2>2. \A k \in 0..0 : k = 0
    OBVIOUS
  <2> QED BY <2>1, <2>2
<1>5. ASSUME NEW n \in 1..N, n - 1 \in G PROVE n \in G
  <2>1. \A k \in 0..n - 1 : Right(k)
    BY <1>1, <1>5
  <2>2. ASSUME Outside(t, n) PROVE Neat(g[n]) /\ NoBack(g[n]) /\ Cells(g[n]) = h[n].cells
    <3>1. t[n] # "START"
      <4> SUFFICES ASSUME t[n] = "START" PROVE FALSE
        OBVIOUS
      <4>1. PICK b \in 1..Len(t) : Block(t, n, b)
        BY <1>1 DEF Neat
      <4>2. n < b
        BY <4>1, BlockEnds
      <4> QED BY <1>1, <2>2, <4>1, <4>2 DEF Outside
    <3>2. CASE t[n] = "END"
      <4>1. PICK a \in 1..N : Block(t, a, n)
        BY <1>1, <3>2 DEF Neat
      <4>2. a \in Nat \ {0} /\ a + 3 < n
        BY <4>1, BlockEnds
      <4>3. a - 1 \in 0..n - 1 /\ a - 1 \in 0..N
        BY <4>2
      <4>4. PICK s \in Text : s = g[a - 1] /\ Neat(s) /\ NoBack(s) /\ Cells(s) = h[a - 1].cells
        <5>1. Right(a - 1)
          <6> HIDE DEF Right
          <6> QED BY <2>1, <4>3
        <5>2. Outside(t, a - 1)
          BY <4>1, BlockOutside
        <5> QED BY <4>3, <5>1, <5>2
      <4>5. PICK code \in Text : IsColour(code, 1, Len(code)) /\ g[n] = s \o SetOff(code)
        <5>1. Unbackspaces(g, t)
          BY <1>1, <1>2 DEF Unbackspaces
        <5>2. WithCode(g[n], g[a - 1])
          BY <4>1, <5>1, CodeCopied
        <5> QED BY <4>4, <5>2 DEF WithCode
      <4>6. \A k \in 1..Len(code) : code[k] \notin {"START", "END", "BS", "CR"}
        BY <4>5, CodeInside
      <4>7. Neat(g[n])
        BY <4>4, <4>5, CodeNeat
      <4>8. Cells(g[n]) = Cells(s)
        <5>1. Counts(s) /\ \A k \in 1..Len(code) : code[k] \notin {"START", "END"}
          BY <4>4, <4>6, NeatCounts
        <5> QED BY <4>5, <5>1, CodeUncounted
      <4>9. NoBack(g[n])
        <5>1. PICK L \in Nat, M \in Nat : L = Len(s) /\ M = Len(code)
          BY Characters
        <5>2. PICK x \in Text : /\ x = SetOff(code) /\ Len(x) = M + 2
                                /\ x[1] = "START" /\ x[M + 2] = "END"
                                /\ \A i \in 1..M : x[i + 1] = code[i]
          BY <5>1, SetOffProperties
        <5>3. \A i \in 1..M + 2 : x[i] \notin {"BS", "CR"}
          <6>1. \A i \in 1..M + 2 : i = 1 \/ i = M + 2 \/ (i - 1 \in 1..M /\ i = (i - 1) + 1)
            OBVIOUS
          <6>2. \A i \in 1..M : x[i + 1] \notin {"BS", "CR"}
            BY <4>6, <5>1, <5>2
          <6> QED BY <5>2, <6>1, <6>2
        <5>4. /\ s \o x \in Text /\ Len(s \o x) = Len(s) + Len(x)
              /\ \A i \in 1..Len(s) : (s \o x)[i] = s[i]
              /\ \A i \in 1..Len(x) : (s \o x)[Len(s) + i] = x[i]
          BY Pieced
        <5>5. PICK y \in Text : y = s \o x
          BY <5>4
        <5>6. ASSUME NEW k \in 1..Len(y) PROVE y[k] \notin {"BS", "CR"}
          <6>1. Len(y) = L + (M + 2)
            BY <5>1, <5>2, <5>4, <5>5
          <6>2. CASE k \in 1..L
            BY <4>4, <5>1, <5>4, <5>5, <6>2 DEF NoBack
          <6>3. CASE k \notin 1..L
            <7>1. PICK i \in 1..M + 2 : k = L + i
              <8>1. k - L \in 1..M + 2 /\ k = L + (k - L)
                BY <6>1, <6>3
              <8> QED BY <8>1
            <7>2. y[k] = x[i]
              BY <5>1, <5>2, <5>4, <5>5, <7>1
            <7> QED BY <5>3, <7>2
          <6> QED BY <6>2, <6>3
        <5> QED BY <4>5, <5>2, <5>5, <5>6 DEF NoBack
      <4>10. h[n].cells = h[a - 1].cells
        <5>1. n \in a..n /\ a \in 1..Len(t) /\ n \in 1..Len(t) /\ a < n
          BY <1>1, <4>2
        <5>2. t[a] = "START" /\ \A k \in a + 1..n - 1 : t[k] \notin {"START", "END"}
          BY <4>1, BlockEnds
        <5>3. Scan(t)[a - 1].visible = TRUE
          <6>1. Outside(t, a - 1)
            BY <4>1, BlockOutside
          <6> QED BY <1>1, <4>3, <6>1, NeatScan
        <5>4. /\ \A k \in a..n : Scan(t)[k].cells = Scan(t)[a - 1].cells
              /\ \A k \in a..n - 1 : Scan(t)[k].visible = FALSE
              /\ Scan(t)[n].visible = TRUE
          BY <3>2, <5>1, <5>2, <5>3, BlockUncounted
        <5> QED BY <1>3, <5>1, <5>4
      <4> QED BY <4>4, <4>7, <4>8, <4>9, <4>10
    <3>3. CASE t[n] # "END"
      <4>1. PICK p \in 0..N : p = n - 1 /\ p \in 0..n - 1
        OBVIOUS
      <4>2. Outside(t, p)
        <5> SUFFICES ASSUME NEW a \in 1..Len(t), NEW b \in 1..Len(t), Block(t, a, b),
                            a <= p, p < b
                     PROVE  FALSE
          BY DEF Outside
        <5>1. b # n
          BY <3>3, BlockEnds
        <5>2. a <= n /\ n < b
          BY <1>1, <4>1, <5>1
        <5> QED BY <2>2, <5>2 DEF Outside
      <4>3. t[n] # "ESC"
        <5> SUFFICES ASSUME t[n] = "ESC" PROVE FALSE
          OBVIOUS
        <5>1. n - 1 \in 1..Len(t) /\ t[n - 1] = "START"
          BY <1>1 DEF Neat
        <5>2. PICK b \in 1..Len(t) : Block(t, n - 1, b)
          BY <5>1 DEF Neat
        <5>3. (n - 1) + 3 < b
          BY <5>2, BlockEnds
        <5>4. n - 1 <= p /\ p < b
          BY <1>1, <4>1, <5>3
        <5> QED BY <4>2, <5>1, <5>2, <5>4 DEF Outside
      <4>4. PICK s \in Text : s = g[p] /\ Neat(s) /\ NoBack(s) /\ Cells(s) = h[p].cells
        <5>1. Right(p)
          <6> HIDE DEF Right
          <6> QED BY <2>1, <4>1
        <5> QED BY <4>2, <5>1
      <4>5. PICK c \in Char : c = t[n] /\ c \notin {"START", "END", "ESC"}
        BY <1>1, <3>1, <3>3, <4>3
      <4>6. h[n].cells = Filled(Cells(s), c)
        <5>1. PICK r \in Visibles : r = h[p] /\ r.visible = TRUE
          <6>1. Scan(t)[p].visible = TRUE
            BY <1>1, <4>2, NeatScan
          <6> QED BY <1>3, <6>1
        <5>2. h[n] = Seen(r, c)
          BY <1>1, <1>3, <4>1, <4>5, <5>1 DEF Scans
        <5>3. PICK cells : cells = Filled(r.cells, c)
          OBVIOUS
        <5>4. Seen(r, c) = [r EXCEPT !.cells = cells]
          BY <4>5, <5>1, <5>3 DEF Seen
        <5>5. h[n].cells = cells
          BY <5>2, <5>4 DEF Visibles
        <5> QED BY <4>4, <5>1, <5>3, <5>5
      <4>7. g[n] = Backspaced(s, c)
        BY <1>2, <4>1, <4>4, <4>5
      <4>8. CASE c = "CR"
        BY <4>6, <4>7, <4>8, NothingNeat DEF Backspaced, Filled
      <4>9. CASE c = "BS"
        <5>1. g[n] = Unwritten(s) /\ h[n].cells = WithoutLast(Cells(s))
          BY <4>6, <4>7, <4>9 DEF Backspaced, Filled
        <5> QED BY <4>4, <5>1, UnwrittenNeat
      <4>10. CASE c \notin {"CR", "BS"}
        <5>1. PICK u \in Text : u = Append(s, c) /\ u = g[n]
          <6>1. Append(s, c) \in Text
            BY OneMore
          <6> QED BY <4>7, <4>10, <6>1 DEF Backspaced
        <5>2. Neat(u)
          BY <4>4, <4>5, <5>1, OneMoreNeat
        <5>3. Cells(u) = Filled(Cells(s), c)
          BY <4>4, <4>5, <5>1, NeatCounts, OneMoreCounts
        <5>4. NoBack(u)
          <6>1. PICK L \in Nat : L = Len(s) /\ Len(u) = L + 1 /\ u[L + 1] = c
                                 /\ \A i \in 1..L : u[i] = s[i]
            <7>1. /\ Append(s, c) \in Text /\ Len(s) \in Nat /\ Len(Append(s, c)) = Len(s) + 1
                  /\ \A i \in 1..Len(s) : Append(s, c)[i] = s[i]
                  /\ Append(s, c)[Len(s) + 1] = c
              BY OneMore
            <7> QED BY <5>1, <7>1
          <6>2. \A k \in 1..Len(u) : k \in 1..L \/ k = L + 1
            BY <6>1
          <6> QED BY <4>4, <4>10, <6>1, <6>2 DEF NoBack
        <5> QED BY <4>6, <5>1, <5>2, <5>3, <5>4
      <4> QED BY <4>8, <4>9, <4>10
    <3> QED BY <3>2, <3>3
  <2>3. Right(n)
    BY <2>2
  <2>4. \A k \in 0..n : k = n \/ k \in 0..n - 1
    OBVIOUS
  <2> HIDE DEF Right
  <2> QED BY <1>1, <2>1, <2>3, <2>4
<1> HIDE DEF G
<1>6. 0..N \subseteq G
  BY <1>1, <1>4, <1>5, Steps
<1>7. Right(N)
  <2> HIDE DEF Right
  <2> QED BY <1>1, <1>6 DEF G
<1>8. Outside(t, N)
  BY <1>1, BlockEnds DEF Outside
<1> QED BY <1>2, <1>3, <1>7, <1>8

-----------------------------------------------------------------------------
(* Colour codes that are replaced *)

Unmarked(s) == \A k \in 1..Len(s) : s[k] \notin {"START", "END"}

(* The cells that are filled by the characters outside unseen. *)
Fills(g, s, unseen) ==
  /\ g \in [0..Len(s) -> Text] /\ g[0] = <<>>
  /\ \A n \in 1..Len(s) : g[n] = IF n \in unseen THEN g[n - 1] ELSE Filled(g[n - 1], s[n])

(* There are cells for every text.                                           *)
LEMMA FillingEnds ==
  ASSUME NEW s \in Text, NEW unseen
  PROVE  \E g : Fills(g, s, unseen)
<1>1. PICK N \in Nat : N = Len(s) /\ \A n \in 1..N : s[n] \in Char
  BY Characters
<1>2. PICK base \in Text : base = <<>>
  BY NothingToCopy
<1> DEFINE F(n, t) == IF n \in unseen THEN t ELSE Filled(t, s[n])
<1>3. PICK step \in [1..N -> [Text -> Text]] : \A n \in 1..N, t \in Text : step[n][t] = F(n, t)
  <2>1. ASSUME NEW n \in 1..N, NEW t \in Text PROVE F(n, t) \in Text
    BY <1>1, FilledType
  <2> HIDE DEF F
  <2>2. [n \in 1..N |-> [t \in Text |-> F(n, t)]] \in [1..N -> [Text -> Text]]
    BY <2>1
  <2> QED BY <2>2
<1>4. PICK g \in [0..N -> Text] : Loop(g, base, step, N)
  BY LoopsEnd
<1>5. \A n \in 1..N : g[n] = F(n, g[n - 1])
  <2>1. \A n \in 1..N : n - 1 \in 0..N
    OBVIOUS
  <2> HIDE DEF F
  <2> QED BY <1>3, <1>4, <2>1 DEF Loop
<1> QED BY <1>1, <1>2, <1>4, <1>5 DEF Fills, Loop

(* length gives where the colour codes are, and how long. *)
Codings(s, length) ==
  \A i \in 1..Len(s) :
    \/ s[i] # "ESC" /\ length[i] = 0
    \/ \E j \in i..Len(s) : IsColour(s, i, j) /\ length[i] = j - i + 1

(* A code is set off, or left out. *)
Hidden(s, length, by) ==
  \/ \A i \in 1..Len(s) : length[i] # 0 => by[i] = SetOff(SubSeq(s, i, i + length[i] - 1))
  \/ \A i \in 1..Len(s) : by[i] = <<>>

(* The codes before n have been passed over, and no other characters.         *)
Passed(s, n, upto) ==
  /\ n <= upto
  /\ \A i \in 1..n : \A j \in i..Len(s) : IsColour(s, i, j) => j <= upto
  /\ upto = n \/ \E i \in 1..n : upto \in i..Len(s) /\ IsColour(s, i, upto)

(* When codes are set off, or left out, the cells stay as they are.          *)
LEMMA CodesReplaced ==
  ASSUME NEW s \in Text, Unmarked(s), NEW length, Matches(s, length), Codings(s, length),
         NEW by \in [1..Len(s) -> Text], Hidden(s, length, by),
         NEW g, Fills(g, s, InColour(s))
  PROVE  /\ Replaced(s, length, by) \in Text /\ Neat(Replaced(s, length, by))
         /\ Cells(Replaced(s, length, by)) = g[Len(s)]
<1>1. PICK N \in Nat : N = Len(s) /\ \A n \in 1..N : s[n] \in Char
  BY Characters
<1>2. PICK r \in [0..N -> Copying] :
           /\ r[0] = [text |-> <<>>, upto |-> 0]
           /\ \A n \in 1..N : r[n] = Copied(r[n - 1], n, s, length, by)
           /\ Replaced(s, length, by) = r[N].text
  BY <1>1, ReplacedLoop
<1>3. /\ g \in [0..N -> Text] /\ g[0] = <<>>
      /\ \A n \in 1..N : g[n] = IF n \in InColour(s) THEN g[n - 1] ELSE Filled(g[n - 1], s[n])
  BY <1>1 DEF Fills
<1> DEFINE Right(n) == /\ Passed(s, n, r[n].upto)
                       /\ Neat(r[n].text) /\ Cells(r[n].text) = g[n]
           G == {n \in Nat : n <= N => Right(n)}
<1>4. Right(0)
  <2>1. Passed(s, 0, 0)
    BY DEF Passed
  <2> QED BY <1>2, <1>3, <2>1, NothingNeat
<1>5. ASSUME NEW n \in 1..N, Right(n - 1) PROVE Right(n)
  <2>1. PICK text \in Text, upto \in Nat :
          /\ text = r[n - 1].text /\ upto = r[n - 1].upto
          /\ Passed(s, n - 1, upto) /\ Neat(text) /\ Cells(text) = g[n - 1]
    BY <1>2, <1>5 DEF Copying
  <2>2. r[n] = IF n <= upto THEN r[n - 1]
               ELSE IF length[n] = 0 THEN [text |-> Append(text, s[n]), upto |-> n]
               ELSE [text |-> text \o by[n], upto |-> n + length[n] - 1]
    BY <1>2, <2>1 DEF Copied
  <2>3. n \in 1..Len(s) /\ n - 1 \in 0..N /\ length[n] \in Nat
    BY <1>1 DEF Matches
  <2>4. CASE n <= upto
    <3>1. PICK i \in 1..n - 1 : upto \in i..Len(s) /\ IsColour(s, i, upto)
      BY <2>1, <2>4 DEF Passed
    <3>2. /\ s[i] = "ESC"
          /\ \A k \in i + 1..upto : s[k] \notin {"ESC", "START", "END", "BS", "CR"}
      BY <3>1, ColourInside
    <3>3. n \in i + 1..upto /\ i \in 1..n /\ upto \in n..Len(s)
      BY <2>4, <3>1
    <3>4. n \in InColour(s) /\ s[n] # "ESC"
      BY <2>3, <3>1, <3>2, <3>3 DEF InColour
    <3>5. Passed(s, n, upto)
      <4>1. ASSUME NEW k \in 1..n, NEW j \in k..Len(s), IsColour(s, k, j) PROVE j <= upto
        <5>1. s[k] = "ESC"
          BY <4>1 DEF IsColour
        <5>2. k \in 1..n - 1
          BY <3>4, <5>1
        <5> QED BY <2>1, <4>1, <5>2 DEF Passed
      <4> QED BY <2>4, <3>1, <3>3, <4>1 DEF Passed
    <3>6. r[n] = r[n - 1] /\ g[n] = g[n - 1]
      BY <1>3, <2>2, <2>4, <3>4
    <3> QED BY <2>1, <3>5, <3>6
  <2>5. CASE ~(n <= upto)
    <3>1. upto = n - 1
      BY <2>1, <2>5 DEF Passed
    <3>2. \A i \in 1..n - 1 : \A j \in i..Len(s) : IsColour(s, i, j) => j <= n - 1
      BY <2>1, <3>1 DEF Passed
    <3>3. CASE s[n] # "ESC"
      <4>1. length[n] = 0
        <5>1. \A j \in n..Len(s) : ~IsColour(s, n, j)
          BY <3>3 DEF IsColour
        <5> QED BY <2>3, <3>3, <5>1 DEF Codings
      <4>2. n \notin InColour(s)
        <5> SUFFICES ASSUME NEW i \in 1..n, s[i] = "ESC", NEW j \in n..Len(s), IsColour(s, i, j)
                     PROVE  FALSE
          BY DEF InColour
        <5>1. i \in 1..n - 1 /\ j \in i..Len(s)
          BY <2>3, <3>3
        <5> QED BY <3>2, <5>1
      <4>3. PICK c \in Char : c = s[n] /\ c \notin {"START", "END", "ESC"}
        BY <1>1, <2>3, <3>3 DEF Unmarked
      <4>4. PICK u \in Text : u = Append(text, c) /\ Neat(u)
        BY <2>1, <4>3, OneMoreNeat
      <4>5. Cells(u) = g[n]
        <5>1. Cells(u) = Filled(Cells(text), c)
          BY <2>1, <4>3, <4>4, NeatCounts, OneMoreCounts
        <5> QED BY <1>3, <2>1, <4>2, <4>3, <5>1
      <4>6. r[n].text = u /\ r[n].upto = n
        BY <2>2, <2>5, <4>1, <4>3, <4>4
      <4>7. Passed(s, n, n)
        <5>1. ASSUME NEW k \in 1..n, NEW j \in k..Len(s), IsColour(s, k, j) PROVE j <= n
          <6>1. s[k] = "ESC"
            BY <5>1 DEF IsColour
          <6>2. k \in 1..n - 1
            BY <3>3, <6>1
          <6>3. j <= n - 1
            BY <3>2, <5>1, <6>2
          <6>4. n \in Nat /\ j \in Int
            BY <5>1
          <6> QED BY <6>3, <6>4
        <5> QED BY <5>1 DEF Passed
      <4> QED BY <4>4, <4>5, <4>6, <4>7
    <3>4. CASE s[n] = "ESC"
      <4>1. PICK j \in n..Len(s) : IsColour(s, n, j) /\ length[n] = j - n + 1
        BY <2>3, <3>4 DEF Codings
      <4>2. n \in InColour(s)
        BY <2>3, <3>4, <4>1 DEF InColour
      <4>3. j \in 1..Len(s) /\ length[n] # 0 /\ n + length[n] - 1 = j
        BY <1>1, <4>1
      <4>4. PICK code \in Text : /\ code = SubSeq(s, n, j) /\ IsColour(code, 1, Len(code))
                                 /\ by[n] = SetOff(code) \/ by[n] = <<>>
        <5>1. /\ SubSeq(s, n, j) \in Text
              /\ IsColour(SubSeq(s, n, j), 1, Len(SubSeq(s, n, j)))
          BY <2>3, <4>1, <4>3, CodePiece
        <5>2. by[n] = SetOff(SubSeq(s, n, j)) \/ by[n] = <<>>
          BY <2>3, <4>3 DEF Hidden
        <5> QED BY <5>1, <5>2
      <4>5. PICK u : u = text \o by[n]
        OBVIOUS
      <4>6. Neat(u) /\ Cells(u) = Cells(text)
        <5>1. CASE by[n] = SetOff(code)
          <6>1. Neat(u)
            BY <2>1, <4>4, <4>5, <5>1, CodeNeat
          <6>2. \A k \in 1..Len(code) : code[k] \notin {"START", "END"}
            BY <4>4, CodeInside
          <6>3. Counts(text)
            BY <2>1, NeatCounts
          <6> QED BY <4>5, <5>1, <6>1, <6>2, <6>3, CodeUncounted
        <5>2. CASE by[n] = <<>>
          <6>1. u = text
            <7>1. text \in Seq(Char)
              BY DEF Text
            <7> QED BY <4>5, <5>2, <7>1, ConcatEmptySeq
          <6> QED BY <2>1, <6>1
        <5> QED BY <4>4, <5>1, <5>2
      <4>7. r[n].text = u /\ r[n].upto = j
        BY <2>2, <2>5, <4>3, <4>5
      <4>8. Passed(s, n, j)
        <5>1. ASSUME NEW k \in 1..n, NEW l \in k..Len(s), IsColour(s, k, l) PROVE l <= j
          <6>1. CASE k = n
            <7>1. l = j
              BY <4>1, <5>1, <6>1, ColourEnds
            <7> QED BY <1>1, <7>1
          <6>2. CASE k # n
            <7>1. k \in 1..n - 1
              BY <6>2
            <7>2. l <= n - 1
              BY <3>2, <5>1, <7>1
            <7> QED BY <1>1, <7>2
          <6> QED BY <6>1, <6>2
        <5>2. n <= j /\ n \in 1..n
          BY <1>1
        <5> QED BY <4>1, <5>1, <5>2 DEF Passed
      <4>9. g[n] = g[n - 1]
        BY <1>3, <4>2
      <4> QED BY <2>1, <4>6, <4>7, <4>8, <4>9
    <3> QED BY <3>3, <3>4
  <2> QED BY <2>4, <2>5
<1> HIDE DEF Right
<1>6. 0 \in G /\ \A n \in 1..N : n - 1 \in G => n \in G
  BY <1>4, <1>5
<1> HIDE DEF G
<1>7. 0..N \subseteq G
  BY <1>6, Steps
<1>8. Right(N)
  BY <1>7 DEF G
<1>9. r[N].text \in Text
  BY <1>2 DEF Copying
<1> QED BY <1>1, <1>2, <1>8, <1>9 DEF Right

(* Matches replaced by themselves: they begin at starts, and do not overlap;   *)
(* others begin within them.                                                 *)
Unchanging(s, length, by, starts) ==
  /\ \A n \in starts : /\ length[n] # 0 /\ by[n] = SubSeq(s, n, n + length[n] - 1)
                       /\ \A m \in starts : m < n => m + length[m] - 1 < n
  /\ \A n \in 1..Len(s) : \/ n \in starts \/ length[n] = 0
                          \/ \E m \in starts : m < n /\ n <= m + length[m] - 1

(* Nothing is replaced where each match is put back.                         *)
LEMMA NothingReplaced ==
  ASSUME NEW s \in Text, NEW length, Matches(s, length), NEW by \in [1..Len(s) -> Text],
         NEW starts \in SUBSET (1..Len(s)), Unchanging(s, length, by, starts)
  PROVE  Replaced(s, length, by) = s
<1>1. PICK N \in Nat : N = Len(s) /\ \A n \in 1..N : s[n] \in Char
  BY Characters
<1>2. PICK r \in [0..N -> Copying] :
           /\ r[0] = [text |-> <<>>, upto |-> 0]
           /\ \A n \in 1..N : r[n] = Copied(r[n - 1], n, s, length, by)
           /\ Replaced(s, length, by) = r[N].text
  BY <1>1, ReplacedLoop
<1> DEFINE End(m) == m + length[m] - 1
           Passing(n, upto) == /\ n <= upto /\ upto <= N
                               /\ \A m \in starts : m <= n => End(m) <= upto
                               /\ upto = n \/ \E m \in starts : m <= n /\ upto = End(m)
           Right(n) == r[n].text = SubSeq(s, 1, r[n].upto) /\ Passing(n, r[n].upto)
           G == {n \in Nat : n <= N => Right(n)}
<1>3. \A m \in starts : m \in 1..N /\ End(m) \in m..N
  <2> SUFFICES ASSUME NEW m \in starts PROVE m \in 1..N /\ m + length[m] - 1 \in m..N
    OBVIOUS
  <2>1. m \in 1..N /\ length[m] \in Nat /\ m + length[m] - 1 <= N
    BY <1>1 DEF Matches
  <2>2. length[m] # 0
    BY DEF Unchanging
  <2> QED BY <2>1, <2>2
<1>4. Right(0)
  <2>1. SubSeq(s, 1, 0) = <<>>
    OBVIOUS
  <2>2. Passing(0, 0)
    BY <1>3
  <2> HIDE DEF Passing
  <2> QED BY <1>2, <2>1, <2>2
<1>5. ASSUME NEW n \in 1..N, Right(n - 1) PROVE Right(n)
  <2>1. PICK text \in Text, upto \in Nat :
          /\ text = r[n - 1].text /\ upto = r[n - 1].upto
          /\ text = SubSeq(s, 1, upto) /\ Passing(n - 1, upto)
    <3> HIDE DEF Passing
    <3>1. r[n - 1] \in Copying
      BY <1>2
    <3>2. r[n - 1].text \in Text /\ r[n - 1].upto \in Nat
      BY <3>1 DEF Copying
    <3> QED BY <1>5, <3>2
  <2>2. r[n] = IF n <= upto THEN r[n - 1]
               ELSE IF length[n] = 0 THEN [text |-> Append(text, s[n]), upto |-> n]
               ELSE [text |-> text \o by[n], upto |-> n + length[n] - 1]
    BY <1>2, <2>1 DEF Copied
  <2>3. n \in 1..Len(s) /\ length[n] \in Nat
    BY <1>1 DEF Matches
  <2>4. CASE n <= upto
    <3>1. PICK m \in starts : m <= n - 1 /\ upto = End(m)
      BY <2>1, <2>4
    <3>2. n \notin starts
      BY <1>3, <2>4, <3>1 DEF Unchanging
    <3>3. Passing(n, upto)
      <4>1. ASSUME NEW k \in starts, k <= n PROVE End(k) <= upto
        <5>1. k <= n - 1
          BY <1>3, <3>2, <4>1
        <5> QED BY <2>1, <5>1
      <4>2. m <= n
        BY <1>3, <3>1
      <4> HIDE DEF End
      <4> QED BY <2>1, <2>4, <3>1, <4>1, <4>2
    <3> HIDE DEF Passing
    <3> QED BY <2>1, <2>2, <2>4, <3>3
  <2>5. CASE ~(n <= upto)
    <3>1. upto = n - 1
      <4> HIDE DEF End
      <4>1. n - 1 <= upto
        BY <2>1
      <4> QED BY <2>5, <4>1
    <3>2. CASE n \in starts
      <4>1. PICK e \in n..N : e = End(n)
        BY <1>3, <3>2
      <4>2. length[n] # 0 /\ by[n] = SubSeq(s, n, e)
        BY <3>2, <4>1 DEF Unchanging
      <4>3. text \o by[n] = SubSeq(s, 1, e)
        <5>1. s \in Seq(Char)
          BY DEF Text
        <5>2. PICK one \in 1..Len(s) + 1 : one = 1
          BY <1>1
        <5>5. PICK k \in one - 1..Len(s) : k = n - 1
          BY <1>1, <5>2
        <5>6. PICK l \in k..Len(s) : l = e
          BY <1>1, <5>5
        <5>3. SubSeq(s, one, k) \o SubSeq(s, k + 1, l) = SubSeq(s, one, l)
          BY <5>1, ConcatAdjacentSubSeq
        <5>4. k + 1 = n
          BY <1>1, <5>5
        <5> QED BY <2>1, <3>1, <4>2, <5>2, <5>3, <5>4, <5>5, <5>6
      <4>4. r[n].text = SubSeq(s, 1, e) /\ r[n].upto = e
        <5>1. r[n] = [text |-> text \o by[n], upto |-> n + length[n] - 1]
          BY <2>2, <2>5, <4>2
        <5> QED BY <4>1, <4>3, <5>1
      <4>5. Passing(n, e)
        <5>1. ASSUME NEW k \in starts, k <= n PROVE End(k) <= e
          <6>1. CASE k = n
            BY <1>1, <4>1, <6>1
          <6>2. CASE k # n
            <7>1. k <= n - 1
              BY <1>3, <5>1, <6>2
            <7>2. End(k) <= n - 1
              BY <2>1, <3>1, <7>1
            <7> QED BY <1>1, <1>3, <7>2
          <6> QED BY <6>1, <6>2
        <5>2. n <= e /\ e <= N
          BY <1>1
        <5> HIDE DEF End
        <5> QED BY <3>2, <4>1, <5>1, <5>2
      <4> HIDE DEF Passing
      <4> QED BY <4>4, <4>5
    <3>3. CASE n \notin starts
      <4>1. length[n] = 0
        <5> SUFFICES ASSUME NEW m \in starts, m < n, n <= m + length[m] - 1 PROVE FALSE
          BY <2>3, <3>3 DEF Unchanging
        <5>1. m <= n - 1 /\ m + length[m] - 1 <= n - 1
          BY <1>3, <2>1, <3>1
        <5>2. m + length[m] - 1 \in Nat
          BY <1>3
        <5> QED BY <5>1, <5>2
      <4>2. PICK k \in 0..Len(s) - 1 : k = n - 1 /\ k + 1 = n
        <5>1. n - 1 \in 0..Len(s) - 1 /\ (n - 1) + 1 = n
          BY <1>1
        <5> QED BY <5>1
      <4>3. Append(text, s[n]) = SubSeq(s, 1, n)
        <5>1. Append(SubSeq(s, 1, k), s[k + 1]) = SubSeq(s, 1, k + 1)
          BY LongerPrefix
        <5> QED BY <2>1, <3>1, <4>2, <5>1
      <4>4. r[n].text = SubSeq(s, 1, n) /\ r[n].upto = n
        BY <2>2, <2>5, <4>1, <4>3
      <4>5. Passing(n, n)
        <5>1. ASSUME NEW m \in starts, m <= n PROVE End(m) <= n
          <6>1. m <= n - 1
            BY <1>3, <3>3, <5>1
          <6>2. End(m) <= n - 1
            BY <2>1, <3>1, <6>1
          <6> QED BY <1>3, <6>2
        <5> HIDE DEF End
        <5> QED BY <1>1, <5>1
      <4> HIDE DEF Passing
      <4> QED BY <4>4, <4>5
    <3> QED BY <3>2, <3>3
  <2> QED BY <2>4, <2>5
<1> HIDE DEF Right
<1>6. 0 \in G /\ \A n \in 1..N : n - 1 \in G => n \in G
  BY <1>4, <1>5
<1> HIDE DEF G
<1>7. 0..N \subseteq G
  BY <1>6, Steps
<1>8. Right(N)
  BY <1>7 DEF G
<1>9. r[N].text = SubSeq(s, 1, r[N].upto) /\ r[N].upto = N
  <2>1. r[N].upto \in Nat
    BY <1>2 DEF Copying
  <2> HIDE DEF End
  <2> QED BY <1>8, <2>1 DEF Right
<1>10. SubSeq(s, 1, Len(s)) = s
  BY SubSeqFull DEF Text
<1> QED BY <1>1, <1>2, <1>9, <1>10

(* The places of START, END and ESC, when there are no codes.                *)
LEMMA NoCodes ==
  ASSUME NEW s \in Text, Neat(s), ~Contains(s, "START")
  PROVE  \A k \in 1..Len(s) : s[k] \notin {"START", "END", "ESC"}
<1>1. \A k \in 1..Len(s) : s[k] # "START"
  BY DEF Contains
<1> SUFFICES ASSUME NEW k \in 1..Len(s) PROVE s[k] # "END" /\ s[k] # "ESC"
  BY <1>1
<1>2. s[k] # "END"
  <2> SUFFICES ASSUME s[k] = "END" PROVE FALSE
    OBVIOUS
  <2>1. PICK a \in 1..Len(s) : Block(s, a, k)
    BY DEF Neat
  <2> QED BY <1>1, <2>1 DEF Block
<1> QED BY <1>1, <1>2 DEF Neat

(* mark_invisible() leaves a neat text alone. *)
LEMMA NeatMarked ==
  ASSUME NEW s \in Text, Neat(s)
  PROVE  mark_invisible(s) = s
<1>1. CASE Contains(s, "START")
  BY <1>1 DEF mark_invisible
<1>2. CASE ~Contains(s, "START")
  <2>1. PICK length \in [1..Len(s) -> Nat] :
          length = [i \in 1..Len(s) |-> InvisibleAt(s, i)] /\ Matches(s, length)
    <3> DEFINE f == [i \in 1..Len(s) |-> InvisibleAt(s, i)]
    <3>1. f \in [1..Len(s) -> Nat] /\ \A i \in 1..Len(s) : i + f[i] - 1 <= Len(s)
      BY InvisibleWithin
    <3>2. Matches(s, f)
      BY <3>1 DEF Matches
    <3> QED BY <3>1, <3>2
  <2>2. PICK by \in [1..Len(s) -> Text] :
          by = [i \in 1..Len(s) |-> SetOff(SubSeq(s, i, i + length[i] - 1))]
    BY <2>1, SettingOff
  <2>3. mark_invisible(s) = Replaced(s, length, by)
    BY <1>2, <2>1, <2>2 DEF mark_invisible
  <2>4. PICK none \in SUBSET (1..Len(s)) : none = {}
    OBVIOUS
  <2>5. \A i \in 1..Len(s) : length[i] = 0
    BY <1>2, <2>1, NoCodes DEF InvisibleAt, IsSequenceAt
  <2>6. Unchanging(s, length, by, none)
    BY <2>4, <2>5 DEF Unchanging
  <2> QED BY <2>1, <2>3, <2>6, NothingReplaced
<1> QED BY <1>1, <1>2

(* No m comes right after a colour code: mark_invisible() takes it for a part *)
(* of the code.                                                              *)
CodesEnd(s) == \A i, j \in 1..Len(s) : IsColour(s, i, j) => j = Len(s) \/ s[j + 1] # "m"

(* The digits of a colour code end at its m.                                 *)
LEMMA PastDigits ==
  ASSUME NEW s \in Text, NEW i \in 1..Len(s), NEW j \in 1..Len(s), IsColour(s, i, j)
  PROVE  /\ i + 2 \in 1..Len(s) + 1 /\ PastAll(s, i + 2, Digits) = j
         /\ IsSequenceAt(s, i, {"["}) /\ i + 1 < j /\ s[j] = "m"
<1>1. PICK N \in Nat : N = Len(s)
  BY Characters
<1>2. /\ i + 1 < j /\ s[i] = "ESC" /\ s[i + 1] = "[" /\ s[j] = "m"
      /\ \A k \in i + 2..j - 1 : s[k] \in Digits
  BY DEF IsColour
<1>3. PICK b \in 1..Len(s) + 1 : b = i + 2
  BY <1>1, <1>2
<1>4. /\ PastAll(s, b, Digits) \in b..Len(s) + 1
      /\ \A k \in b..PastAll(s, b, Digits) - 1 : s[k] \in Digits
      /\ PastAll(s, b, Digits) > Len(s) \/ s[PastAll(s, b, Digits)] \notin Digits
  BY Past
<1>5. PICK p \in b..N + 1 : p = PastAll(s, b, Digits)
  BY <1>1, <1>4
<1>6. ~(p < j)
  <2> SUFFICES ASSUME p < j PROVE FALSE
    OBVIOUS
  <2>1. p \in i + 2..j - 1 /\ ~(p > N)
    BY <1>1, <1>3
  <2> QED BY <1>1, <1>2, <1>4, <1>5, <2>1
<1>7. ~(p > j)
  <2> SUFFICES ASSUME p > j PROVE FALSE
    OBVIOUS
  <2>1. j \in b..p - 1
    BY <1>1, <1>2, <1>3
  <2>2. "m" \notin Digits
    BY DEF Digits
  <2> QED BY <1>2, <1>4, <1>5, <2>1, <2>2
<1>8. p = j
  BY <1>1, <1>6, <1>7
<1>9. i < Len(s)
  BY <1>1, <1>2
<1> QED BY <1>2, <1>3, <1>5, <1>8, <1>9 DEF IsSequenceAt

(* mark_invisible() sets off just the colour codes. *)
LEMMA CodesMarked ==
  ASSUME NEW s \in Text, Unmarked(s), OnlyColours(s), CodesEnd(s), NEW g, Fills(g, s, InColour(s))
  PROVE  /\ mark_invisible(s) \in Text /\ Neat(mark_invisible(s))
         /\ Cells(mark_invisible(s)) = g[Len(s)]
<1>1. PICK length \in [1..Len(s) -> Nat] :
        length = [i \in 1..Len(s) |-> InvisibleAt(s, i)] /\ Matches(s, length)
  <2> DEFINE f == [i \in 1..Len(s) |-> InvisibleAt(s, i)]
  <2>1. f \in [1..Len(s) -> Nat] /\ \A i \in 1..Len(s) : i + f[i] - 1 <= Len(s)
    BY InvisibleWithin
  <2>2. Matches(s, f)
    BY <2>1 DEF Matches
  <2> QED BY <2>1, <2>2
<1>2. PICK by \in [1..Len(s) -> Text] :
        by = [i \in 1..Len(s) |-> SetOff(SubSeq(s, i, i + length[i] - 1))]
  BY <1>1, SettingOff
<1>3. mark_invisible(s) = Replaced(s, length, by)
  <2>1. ~Contains(s, "START")
    BY DEF Contains, Unmarked
  <2> QED BY <1>1, <1>2, <2>1 DEF mark_invisible
<1>4. ASSUME NEW i \in 1..Len(s), s[i] = "ESC"
      PROVE  \E j \in i..Len(s) : IsColour(s, i, j) /\ length[i] = j - i + 1
  <2>1. PICK N \in Nat : N = Len(s)
    BY Characters
  <2>2. PICK j \in i..Len(s) : IsColour(s, i, j)
    BY <1>4 DEF OnlyColours
  <2>3. PICK k \in 1..Len(s) : k = j
    BY <2>1
  <2>4. /\ PastAll(s, i + 2, Digits) = k /\ IsSequenceAt(s, i, {"["})
        /\ i + 1 < k /\ s[k] = "m"
    BY <2>2, <2>3, PastDigits
  <2>5. IsSequenceAt(s, i, {"[", "]"})
    BY <2>4 DEF IsSequenceAt
  <2>6. PastAll(s, k, {"m"}) = k + 1
    <3>1. PICK c \in 1..Len(s) + 1 : c = k
      BY <2>1
    <3>2. /\ PastAll(s, c, {"m"}) \in c..Len(s) + 1
          /\ \A x \in c..PastAll(s, c, {"m"}) - 1 : s[x] \in {"m"}
          /\ PastAll(s, c, {"m"}) > Len(s) \/ s[PastAll(s, c, {"m"})] \notin {"m"}
      BY Past
    <3>3. PICK p \in c..N + 1 : p = PastAll(s, c, {"m"})
      BY <2>1, <3>2
    <3>4. p # k
      BY <2>1, <2>4, <3>1, <3>2, <3>3
    <3>5. ~(p > k + 1)
      <4> SUFFICES ASSUME p > k + 1 PROVE FALSE
        OBVIOUS
      <4>1. k + 1 \in c..p - 1 /\ k # Len(s)
        BY <2>1, <3>1, <3>3
      <4>2. s[k + 1] = "m"
        BY <3>2, <3>3, <4>1
      <4> QED BY <2>2, <2>3, <4>1, <4>2 DEF CodesEnd
    <3>6. p = k + 1
      BY <2>1, <3>1, <3>4, <3>5
    <3> QED BY <3>1, <3>3, <3>6
  <2>7. InvisibleAt(s, i) = (k + 1) - i
    BY <2>4, <2>5, <2>6 DEF InvisibleAt
  <2>8. (k + 1) - i = j - i + 1
    BY <2>1, <2>3
  <2> QED BY <1>1, <2>2, <2>7, <2>8
<1>5. ASSUME NEW i \in 1..Len(s), s[i] # "ESC" PROVE length[i] = 0
  BY <1>1, <1>5 DEF InvisibleAt, IsSequenceAt
<1>6. Codings(s, length)
  BY <1>4, <1>5 DEF Codings
<1>7. Hidden(s, length, by)
  BY <1>2 DEF Hidden
<1> QED BY <1>1, <1>3, <1>6, <1>7, CodesReplaced

-----------------------------------------------------------------------------
(* What protect_or_cleanup() does *)

(* replace_special() is a replacement, of the matches and of what is to be     *)
(* ignored.                                                                  *)
Respecting(s, length, by, l, b) ==
  \A i \in 1..Len(s) :
    IF IgnoredAt(s, i) > 0
      THEN l[i] = IgnoredAt(s, i) /\ b[i] = SubSeq(s, i, i + l[i] - 1)
      ELSE l[i] = length[i] /\ b[i] = by[i]

(* replace_special() puts back what stands between START and END.            *)
LEMMA SpecialReplaces ==
  ASSUME NEW s \in Text, NEW length, Matches(s, length), NEW by \in [1..Len(s) -> Text]
  PROVE  \E l \in [1..Len(s) -> Nat], b \in [1..Len(s) -> Text] :
           /\ Matches(s, l) /\ Respecting(s, length, by, l, b)
           /\ replace_special(s, length, by) = Replaced(s, l, b)
<1> DEFINE ignored == [i \in 1..Len(s) |-> IgnoredAt(s, i)]
           l == [i \in 1..Len(s) |-> IF ignored[i] > 0 THEN ignored[i] ELSE length[i]]
           b == [i \in 1..Len(s) |-> IF ignored[i] > 0 THEN SubSeq(s, i, i + ignored[i] - 1)
                                     ELSE by[i]]
<1>1. PICK N \in Nat : N = Len(s)
  BY Characters
<1>2. \A i \in 1..Len(s) : ignored[i] \in Nat /\ i + ignored[i] - 1 <= Len(s)
  BY IgnoredWithin
<1>3. replace_special(s, length, by) = Replaced(s, l, b)
  BY DEF replace_special
<1>4. Respecting(s, length, by, l, b)
  BY DEF Respecting
<1> HIDE DEF ignored
<1>5. Matches(s, l) /\ l \in [1..Len(s) -> Nat]
  BY <1>2 DEF Matches
<1>6. b \in [1..Len(s) -> Text]
  <2> SUFFICES ASSUME NEW i \in 1..Len(s), ignored[i] > 0
               PROVE  SubSeq(s, i, i + ignored[i] - 1) \in Text
    OBVIOUS
  <2>1. PICK a \in Nat \ {0}, c \in Int : a = i /\ c = i + ignored[i] - 1 /\ c <= Len(s)
    <3>1. ignored[i] \in Nat /\ i + ignored[i] - 1 <= Len(s) /\ i \in Nat \ {0}
      BY <1>1, <1>2
    <3>2. i + ignored[i] - 1 \in Int
      BY <3>1
    <3> QED BY <3>1, <3>2
  <2>2. SubSeq(s, a, c) \in Text
    BY <2>1, Piece
  <2> QED BY <2>1, <2>2
<1> HIDE DEF l, b
<1> QED BY <1>3, <1>4, <1>5, <1>6

(* What is ignored is a code that has been set off. *)
LEMMA BlockIgnored ==
  ASSUME NEW s \in Text, NEW i \in 1..Len(s)
  PROVE  /\ s[i] # "START" => IgnoredAt(s, i) = 0
         /\ \A b \in 1..Len(s) : Block(s, i, b) => IgnoredAt(s, i) = b - i + 1
<1> DEFINE ends == {j \in i + 1..Len(s) : s[j] = "END" /\ \A k \in i + 1..j - 1 : s[k] # "END"}
           e == CHOOSE j \in ends : TRUE
<1>1. IgnoredAt(s, i) = IF s[i] = "START" /\ ends # {} THEN e - i + 1 ELSE 0
  BY DEF IgnoredAt
<1>2. ASSUME NEW b \in 1..Len(s), Block(s, i, b) PROVE IgnoredAt(s, i) = b - i + 1
  <2>1. /\ Len(s) \in Nat /\ i + 3 < b /\ s[i] = "START" /\ s[b] = "END"
        /\ \A k \in i + 1..b - 1 : s[k] \notin {"START", "END"}
    BY <1>2, BlockEnds
  <2>2. b \in ends
    BY <2>1
  <2>3. e \in ends
    BY <2>2
  <2>4. e = b
    <3>1. PICK j \in i + 1..Len(s) : j = e /\ s[j] = "END" /\ \A k \in i + 1..j - 1 : s[k] # "END"
      BY <2>3
    <3>2. ~(j < b)
      <4> SUFFICES ASSUME j < b PROVE FALSE
        OBVIOUS
      <4>1. j \in i + 1..b - 1
        BY <2>1
      <4> QED BY <2>1, <3>1, <4>1
    <3>3. ~(b < j)
      <4> SUFFICES ASSUME b < j PROVE FALSE
        OBVIOUS
      <4>1. b \in i + 1..j - 1
        BY <2>1
      <4> QED BY <2>1, <3>1, <4>1
    <3> HIDE DEF e
    <3> QED BY <2>1, <3>1, <3>2, <3>3
  <2> HIDE DEF e, ends
  <2> QED BY <1>1, <2>1, <2>2, <2>4
<1> HIDE DEF e, ends
<1> QED BY <1>1, <1>2

(* What protect_or_cleanup() does to a colour code. *)
LEMMA ColourMatched ==
  ASSUME NEW s \in Text, NEW i \in 1..Len(s), NEW j \in 1..Len(s), IsColour(s, i, j)
  PROVE  /\ UnwantedAt(s, i) = j - i + 1
         /\ ProtectedAt(s, i, TRUE) = j - i + 1 /\ ProtectedAt(s, i, FALSE) = 0
<1>1. PICK N \in Nat : N = Len(s)
  BY Characters
<1>2. /\ PastAll(s, i + 2, Digits) = j /\ IsSequenceAt(s, i, {"["})
      /\ i + 1 < j /\ s[j] = "m"
  BY PastDigits
<1>3. s[i] = "ESC" /\ s[i + 1] = "["
  BY <1>2 DEF IsSequenceAt
<1>4. "m" \notin Unprintable
  BY DEF Unprintable
<1>5. ~(j > Len(s)) /\ j <= Len(s)
  BY <1>1
<1>6. UnwantedAt(s, i) = j - i + 1
  BY <1>2, <1>3, <1>4, <1>5 DEF UnwantedAt
<1>7. ColourCodeAt(s, i) = j - i + 1
  BY <1>2, <1>5 DEF ColourCodeAt
<1> QED BY <1>3, <1>6, <1>7 DEF ProtectedAt

(* Without START there is nothing to ignore. *)
LEMMA UnmarkedReplaced ==
  ASSUME NEW s \in Text, Unmarked(s), NEW length, Matches(s, length),
         NEW by \in [1..Len(s) -> Text]
  PROVE  replace_special(s, length, by) = Replaced(s, length, by)
<1>1. PICK l \in [1..Len(s) -> Nat], b \in [1..Len(s) -> Text] :
        /\ Matches(s, l) /\ Respecting(s, length, by, l, b)
        /\ replace_special(s, length, by) = Replaced(s, l, b)
  BY SpecialReplaces
<1>2. \A i \in 1..Len(s) : IgnoredAt(s, i) = 0
  <2>1. \A i \in 1..Len(s) : s[i] # "START"
    BY DEF Unmarked
  <2> QED BY <2>1, BlockIgnored
<1>3. \A i \in 1..Len(s) : ~(IgnoredAt(s, i) > 0)
  BY <1>2
<1>4. \A i \in 1..Len(s) : l[i] = length[i] /\ b[i] = by[i]
  BY <1>1, <1>3 DEF Respecting
<1>5. length \in [1..Len(s) -> Nat]
  BY DEF Matches
<1>6. l = length /\ b = by
  BY <1>1, <1>4, <1>5
<1> QED BY <1>1, <1>6

(* The matches of protect_or_cleanup(). *)
LEMMA ProtectedMatches ==
  ASSUME NEW s \in Text, NEW keep \in BOOLEAN
  PROVE  \E length \in [1..Len(s) -> Nat] :
           length = [i \in 1..Len(s) |-> ProtectedAt(s, i, keep)] /\ Matches(s, length)
<1> DEFINE f == [i \in 1..Len(s) |-> ProtectedAt(s, i, keep)]
<1>1. f \in [1..Len(s) -> Nat] /\ \A i \in 1..Len(s) : i + f[i] - 1 <= Len(s)
  BY ProtectedWithin
<1>2. Matches(s, f)
  BY <1>1 DEF Matches
<1> QED BY <1>1, <1>2

(* No match of the second expression goes past the end.                      *)
LEMMA UnwantedMatches ==
  ASSUME NEW s \in Text
  PROVE  \E length \in [1..Len(s) -> Nat] :
           length = [i \in 1..Len(s) |-> UnwantedAt(s, i)] /\ Matches(s, length)
<1> DEFINE f == [i \in 1..Len(s) |-> UnwantedAt(s, i)]
<1>1. f \in [1..Len(s) -> Nat] /\ \A i \in 1..Len(s) : i + f[i] - 1 <= Len(s)
  BY UnwantedWithin
<1>2. Matches(s, f)
  BY <1>1 DEF Matches
<1> QED BY <1>1, <1>2

(* The two passes of protect_or_cleanup(). *)
Protecting(s, keep) ==
  replace_special(s, [i \in 1..Len(s) |-> ProtectedAt(s, i, keep)],
    [i \in 1..Len(s) |-> SetOff(SubSeq(s, i, i + ProtectedAt(s, i, keep) - 1))])

Cleaning(s) ==
  replace_special(s, [i \in 1..Len(s) |-> UnwantedAt(s, i)], [i \in 1..Len(s) |-> <<>>])

(* protect_or_cleanup() protects, then cleans up.                            *)
LEMMA TwoPasses ==
  ASSUME NEW s \in Text
  PROVE  /\ \E keep \in BOOLEAN : /\ keep <=> mode # "bleach"
                                  /\ protect_or_cleanup(s) = Cleaning(Protecting(s, keep))
         /\ \A keep \in BOOLEAN : Protecting(s, keep) \in Text
<1>1. PICK keep \in BOOLEAN : keep <=> mode # "bleach"
  OBVIOUS
<1>2. protect_or_cleanup(s) = Cleaning(Protecting(s, keep))
  <2> DEFINE protected == [i \in 1..Len(s) |-> ProtectedAt(s, i, mode # "bleach")]
  <2>1. protected = [i \in 1..Len(s) |-> ProtectedAt(s, i, keep)]
    BY <1>1
  <2>2. [i \in 1..Len(s) |-> SetOff(SubSeq(s, i, i + protected[i] - 1))]
          = [i \in 1..Len(s) |-> SetOff(SubSeq(s, i, i + ProtectedAt(s, i, keep) - 1))]
    BY <2>1
  <2> QED BY <2>1, <2>2 DEF protect_or_cleanup, Protecting, Cleaning
<1>3. ASSUME NEW k \in BOOLEAN PROVE Protecting(s, k) \in Text
  <2>1. PICK length \in [1..Len(s) -> Nat] :
          length = [i \in 1..Len(s) |-> ProtectedAt(s, i, k)] /\ Matches(s, length)
    BY ProtectedMatches
  <2>2. PICK by \in [1..Len(s) -> Text] :
          by = [i \in 1..Len(s) |-> SetOff(SubSeq(s, i, i + length[i] - 1))]
    BY <2>1, SettingOff
  <2>3. by = [i \in 1..Len(s) |-> SetOff(SubSeq(s, i, i + ProtectedAt(s, i, k) - 1))]
    BY <2>1, <2>2
  <2> QED BY <2>1, <2>3, SpecialType DEF Protecting
<1> QED BY <1>1, <1>2, <1>3

(* Cleaning leaves codes alone that have been set off. *)
LEMMA NeatCleaned ==
  ASSUME NEW s \in Text, Neat(s)
  PROVE  Cleaning(s) = s
<1>1. PICK N \in Nat : N = Len(s)
  BY Characters
<1>2. PICK length \in [1..Len(s) -> Nat] :
        length = [i \in 1..Len(s) |-> UnwantedAt(s, i)] /\ Matches(s, length)
  BY UnwantedMatches
<1>3. PICK by \in [1..Len(s) -> Text] : by = [i \in 1..Len(s) |-> <<>>]
  BY NothingToCopy
<1>4. PICK l \in [1..Len(s) -> Nat], b \in [1..Len(s) -> Text] :
        /\ Matches(s, l) /\ Respecting(s, length, by, l, b)
        /\ replace_special(s, length, by) = Replaced(s, l, b)
  BY <1>2, SpecialReplaces
<1>5. PICK starts \in SUBSET (1..Len(s)) : starts = {n \in 1..Len(s) : s[n] = "START"}
  OBVIOUS
<1>6. ASSUME NEW n \in starts, NEW e \in 1..Len(s), Block(s, n, e)
      PROVE  /\ n \in 1..Len(s) /\ n + 3 < e
             /\ l[n] = e - n + 1 /\ b[n] = SubSeq(s, n, n + l[n] - 1)
  <2>1. n \in 1..Len(s) /\ n + 3 < e
    BY <1>6, BlockEnds
  <2>2. IgnoredAt(s, n) = e - n + 1 /\ IgnoredAt(s, n) > 0
    BY <1>1, <1>6, <2>1, BlockIgnored
  <2> QED BY <1>4, <2>1, <2>2 DEF Respecting
<1>7. ASSUME NEW n \in starts PROVE \E e \in 1..Len(s) : Block(s, n, e)
  BY <1>5 DEF Neat
<1>8. ASSUME NEW n \in starts
      PROVE  /\ l[n] # 0 /\ b[n] = SubSeq(s, n, n + l[n] - 1)
             /\ \A m \in starts : m < n => m + l[m] - 1 < n
  <2>1. PICK e \in 1..Len(s) : Block(s, n, e)
    BY <1>7
  <2>2. n \in 1..Len(s) /\ n + 3 < e /\ l[n] = e - n + 1 /\ b[n] = SubSeq(s, n, n + l[n] - 1)
    BY <1>6, <2>1
  <2>3. ASSUME NEW m \in starts, m < n PROVE m + l[m] - 1 < n
    <3>1. PICK d \in 1..Len(s) : Block(s, m, d)
      BY <1>7
    <3>2. m \in 1..Len(s) /\ m + 3 < d /\ l[m] = d - m + 1
      BY <1>6, <3>1
    <3>3. d < n \/ e < m \/ (m = n /\ d = e)
      BY <2>1, <3>1, BlocksApart
    <3> QED BY <1>1, <2>2, <2>3, <3>2, <3>3
  <2>4. l[n] # 0
    BY <1>1, <2>2
  <2> QED BY <2>2, <2>3, <2>4
<1>9. ASSUME NEW n \in 1..Len(s), n \notin starts, l[n] # 0
      PROVE  \E m \in starts : m < n /\ n <= m + l[m] - 1
  <2>1. s[n] # "START"
    BY <1>5, <1>9
  <2>2. IgnoredAt(s, n) = 0
    BY <2>1, BlockIgnored
  <2>3. l[n] = length[n]
    BY <1>4, <2>2 DEF Respecting
  <2>4. s[n] = "ESC"
    BY <1>2, <1>9, <2>3 DEF UnwantedAt
  <2>5. PICK m \in 1..Len(s) : m = n - 1 /\ s[m] = "START"
    BY <2>4 DEF Neat
  <2>6. m \in starts
    BY <1>5, <2>5
  <2>7. PICK e \in 1..Len(s) : Block(s, m, e)
    BY <1>7, <2>6
  <2>8. m + 3 < e /\ l[m] = e - m + 1
    BY <1>6, <2>6, <2>7
  <2>9. m < n /\ n <= m + l[m] - 1
    BY <1>1, <2>5, <2>8
  <2> QED BY <2>6, <2>9
<1>10. Unchanging(s, l, b, starts)
  BY <1>8, <1>9 DEF Unchanging
<1>11. Replaced(s, l, b) = s
  BY <1>4, <1>10, NothingReplaced
<1> QED BY <1>2, <1>3, <1>4, <1>11 DEF Cleaning

(* Nothing is protected from bleaching but two ESC in a row. *)
LEMMA NothingProtected ==
  ASSUME NEW s \in Text, Unmarked(s), \A i \in 1..Len(s) : ProtectedAt(s, i, FALSE) = 0
  PROVE  Protecting(s, FALSE) = s
<1>1. PICK length \in [1..Len(s) -> Nat] :
        length = [i \in 1..Len(s) |-> ProtectedAt(s, i, FALSE)] /\ Matches(s, length)
  BY ProtectedMatches
<1>2. PICK by \in [1..Len(s) -> Text] :
        by = [i \in 1..Len(s) |-> SetOff(SubSeq(s, i, i + length[i] - 1))]
  BY <1>1, SettingOff
<1>3. by = [i \in 1..Len(s) |-> SetOff(SubSeq(s, i, i + ProtectedAt(s, i, FALSE) - 1))]
  BY <1>1, <1>2
<1>4. Protecting(s, FALSE) = Replaced(s, length, by)
  BY <1>1, <1>3, UnmarkedReplaced DEF Protecting
<1>5. PICK none \in SUBSET (1..Len(s)) : none = {}
  OBVIOUS
<1>6. Unchanging(s, length, by, none)
  BY <1>1, <1>5 DEF Unchanging
<1> QED BY <1>1, <1>4, <1>6, NothingReplaced

(* protect_or_cleanup() sets off the colour codes of a text that has no others, *)
(* or leaves them out.                                                       *)
LEMMA ColoursProtected ==
  ASSUME NEW s \in Text, Unmarked(s), OnlyColours(s), NEW g, Fills(g, s, InColour(s))
  PROVE  /\ protect_or_cleanup(s) \in Text /\ Neat(protect_or_cleanup(s))
         /\ Cells(protect_or_cleanup(s)) = g[Len(s)]
<1>1. PICK N \in Nat : N = Len(s)
  BY Characters
<1>2. PICK keep \in BOOLEAN : protect_or_cleanup(s) = Cleaning(Protecting(s, keep))
  BY TwoPasses
<1>3. ASSUME NEW i \in 1..Len(s), s[i] # "ESC"
      PROVE  \A k \in BOOLEAN : ProtectedAt(s, i, k) = 0 /\ UnwantedAt(s, i) = 0
  BY <1>3 DEF ProtectedAt, ColourCodeAt, UnwantedAt, IsSequenceAt
<1>4. ASSUME NEW i \in 1..Len(s), s[i] = "ESC"
      PROVE  \E j \in i..Len(s) :
               /\ IsColour(s, i, j) /\ UnwantedAt(s, i) = j - i + 1
               /\ ProtectedAt(s, i, TRUE) = j - i + 1 /\ ProtectedAt(s, i, FALSE) = 0
  <2>1. PICK j \in i..Len(s) : IsColour(s, i, j)
    BY <1>4 DEF OnlyColours
  <2>2. j \in 1..Len(s)
    BY <1>1
  <2> QED BY <2>1, <2>2, ColourMatched
<1>5. CASE keep = TRUE
  <2>1. PICK length \in [1..Len(s) -> Nat] :
          length = [i \in 1..Len(s) |-> ProtectedAt(s, i, TRUE)] /\ Matches(s, length)
    BY ProtectedMatches
  <2>2. PICK by \in [1..Len(s) -> Text] :
          by = [i \in 1..Len(s) |-> SetOff(SubSeq(s, i, i + length[i] - 1))]
    BY <2>1, SettingOff
  <2>3. by = [i \in 1..Len(s) |-> SetOff(SubSeq(s, i, i + ProtectedAt(s, i, TRUE) - 1))]
    BY <2>1, <2>2
  <2>4. PICK t : t = Replaced(s, length, by)
    OBVIOUS
  <2>5. Protecting(s, TRUE) = t
    BY <2>1, <2>3, <2>4, UnmarkedReplaced DEF Protecting
  <2>6. Codings(s, length)
    BY <1>3, <1>4, <2>1 DEF Codings
  <2>7. Hidden(s, length, by)
    BY <2>2 DEF Hidden
  <2>8. t \in Text /\ Neat(t) /\ Cells(t) = g[Len(s)]
    BY <2>1, <2>4, <2>6, <2>7, CodesReplaced
  <2>9. Cleaning(t) = t
    BY <2>8, NeatCleaned
  <2> QED BY <1>2, <1>5, <2>5, <2>8, <2>9
<1>6. CASE keep = FALSE
  <2>1. Protecting(s, FALSE) = s
    BY <1>3, <1>4, NothingProtected
  <2>2. PICK length \in [1..Len(s) -> Nat] :
          length = [i \in 1..Len(s) |-> UnwantedAt(s, i)] /\ Matches(s, length)
    BY UnwantedMatches
  <2>3. PICK by \in [1..Len(s) -> Text] : by = [i \in 1..Len(s) |-> <<>>]
    BY NothingToCopy
  <2>4. Cleaning(s) = Replaced(s, length, by)
    BY <2>2, <2>3, UnmarkedReplaced DEF Cleaning
  <2>5. Codings(s, length)
    BY <1>3, <1>4, <2>2 DEF Codings
  <2>6. Hidden(s, length, by)
    BY <2>3 DEF Hidden
  <2>7. PICK t : t = Replaced(s, length, by)
    OBVIOUS
  <2>8. t \in Text /\ Neat(t) /\ Cells(t) = g[Len(s)]
    BY <2>2, <2>5, <2>6, <2>7, CodesReplaced
  <2> QED BY <1>2, <1>6, <2>1, <2>4, <2>7, <2>8
<1> QED BY <1>5, <1>6

-----------------------------------------------------------------------------
(* Other codes *)

(* What protect_or_cleanup() takes for a code: ESC, [, digits and a character *)
(* that is to be seen; or ESC and such a character.                          *)
Sequence(s, i, j) ==
  /\ s[i] = "ESC" /\ s[j] \notin Unprintable
  /\ \/ j = i + 1 /\ s[j] # "["
     \/ /\ i + 1 < j /\ s[i + 1] = "[" /\ s[j] \notin Digits
        /\ \A k \in i + 2..j - 1 : s[k] \in Digits

(* A sequence has no other begin in it.                                      *)
LEMMA SequenceInside ==
  ASSUME NEW s, NEW i \in Int, NEW j \in Int, Sequence(s, i, j)
  PROVE  /\ i < j /\ s[i] = "ESC"
         /\ \A k \in i + 1..j : s[k] \notin {"ESC", "START", "END"}
<1> SUFFICES ASSUME NEW k \in i + 1..j PROVE s[k] \notin {"ESC", "START", "END"}
  BY DEF Sequence
<1>1. s[j] \notin {"ESC", "START", "END"}
  BY DEF Sequence, Unprintable
<1>2. CASE k = j
  BY <1>1, <1>2
<1>3. CASE k # j
  <2>1. s[i + 1] = "[" /\ \A x \in i + 2..j - 1 : s[x] \in Digits
    BY <1>3 DEF Sequence
  <2>2. k = i + 1 \/ k \in i + 2..j - 1
    BY <1>3
  <2>3. s[k] = "[" \/ s[k] \in Digits
    BY <2>1, <2>2
  <2> QED BY <2>3 DEF Digits
<1> QED BY <1>2, <1>3

(* A colour code is one of them. *)
LEMMA ColourSequence ==
  ASSUME NEW s, NEW i \in Int, NEW j \in Int, IsColour(s, i, j)
  PROVE  Sequence(s, i, j)
<1>1. "m" \notin Unprintable /\ "m" \notin Digits
  BY DEF Unprintable, Digits
<1> QED BY <1>1 DEF IsColour, Sequence

(* What the second expression matches is a sequence.                         *)
LEMMA SequenceMatched ==
  ASSUME NEW s \in Text, NEW i \in 1..Len(s), UnwantedAt(s, i) # 0
  PROVE  \E j \in 1..Len(s) : Sequence(s, i, j) /\ UnwantedAt(s, i) = j - i + 1
<1>1. PICK N \in Nat : N = Len(s)
  BY Characters
<1> DEFINE past == IF IsSequenceAt(s, i, {"["}) THEN PastAll(s, i + 2, Digits) ELSE i + 1
<1>2. UnwantedAt(s, i) =
        IF s[i] # "ESC" \/ past > Len(s) \/ s[past] \in Unprintable THEN 0 ELSE past - i + 1
  BY DEF UnwantedAt
<1>3. s[i] = "ESC" /\ ~(past > Len(s)) /\ s[past] \notin Unprintable
      /\ UnwantedAt(s, i) = past - i + 1
  <2> HIDE DEF past
  <2> QED BY <1>2
<1>4. CASE IsSequenceAt(s, i, {"["})
  <2>1. PICK b \in 1..Len(s) + 1 : b = i + 2
    BY <1>1, <1>4 DEF IsSequenceAt
  <2>2. /\ PastAll(s, b, Digits) \in b..Len(s) + 1
        /\ \A k \in b..PastAll(s, b, Digits) - 1 : s[k] \in Digits
        /\ PastAll(s, b, Digits) > Len(s) \/ s[PastAll(s, b, Digits)] \notin Digits
    BY Past
  <2>3. PICK p \in b..N + 1 : p = past /\ p = PastAll(s, b, Digits)
    BY <1>1, <1>4, <2>1, <2>2
  <2>4. p \in 1..Len(s) /\ i + 1 < p
    BY <1>1, <1>3, <2>1, <2>3
  <2>5. s[i + 1] = "["
    BY <1>4 DEF IsSequenceAt
  <2>6. s[p] \notin Digits /\ \A k \in i + 2..p - 1 : s[k] \in Digits
    BY <1>3, <2>1, <2>2, <2>3
  <2>7. Sequence(s, i, p)
    BY <1>3, <2>3, <2>4, <2>5, <2>6 DEF Sequence
  <2> QED BY <1>3, <2>3, <2>4, <2>7
<1>5. CASE ~IsSequenceAt(s, i, {"["})
  <2>1. PICK p \in 1..Len(s) : p = i + 1 /\ p = past
    <3>1. past = i + 1
      BY <1>5
    <3>2. i + 1 \in 1..Len(s)
      BY <1>1, <1>3, <3>1
    <3> QED BY <3>1, <3>2
  <2>2. s[p] # "["
    BY <1>1, <1>3, <1>5, <2>1 DEF IsSequenceAt
  <2>3. Sequence(s, i, p)
    BY <1>3, <2>1, <2>2 DEF Sequence
  <2> QED BY <1>3, <2>1, <2>3
<1> QED BY <1>4, <1>5

(* It matches every sequence.                                                *)
LEMMA SequenceUnwanted ==
  ASSUME NEW s \in Text, NEW i \in 1..Len(s), NEW j \in 1..Len(s), Sequence(s, i, j)
  PROVE  UnwantedAt(s, i) = j - i + 1
<1>1. PICK N \in Nat : N = Len(s)
  BY Characters
<1>2. s[i] = "ESC" /\ s[j] \notin Unprintable /\ ~(j > Len(s)) /\ i < j /\ i < Len(s)
  <2>1. i < j
    BY SequenceInside
  <2> QED BY <1>1, <2>1 DEF Sequence
<1>3. CASE j = i + 1 /\ s[j] # "["
  <2>1. ~IsSequenceAt(s, i, {"["})
    BY <1>3 DEF IsSequenceAt
  <2> QED BY <1>2, <1>3, <2>1 DEF UnwantedAt
<1>4. CASE /\ i + 1 < j /\ s[i + 1] = "[" /\ s[j] \notin Digits
           /\ \A k \in i + 2..j - 1 : s[k] \in Digits
  <2>1. IsSequenceAt(s, i, {"["})
    BY <1>2, <1>4 DEF IsSequenceAt
  <2>2. PICK b \in 1..Len(s) + 1 : b = i + 2
    BY <1>1, <1>4
  <2>3. /\ PastAll(s, b, Digits) \in b..Len(s) + 1
        /\ \A k \in b..PastAll(s, b, Digits) - 1 : s[k] \in Digits
        /\ PastAll(s, b, Digits) > Len(s) \/ s[PastAll(s, b, Digits)] \notin Digits
    BY Past
  <2>4. PICK p \in b..N + 1 : p = PastAll(s, b, Digits)
    BY <1>1, <2>3
  <2>5. ~(p < j)
    <3> SUFFICES ASSUME p < j PROVE FALSE
      OBVIOUS
    <3>1. p \in i + 2..j - 1 /\ ~(p > N)
      BY <1>1, <2>2
    <3> QED BY <1>1, <1>4, <2>3, <2>4, <3>1
  <2>6. ~(p > j)
    <3> SUFFICES ASSUME p > j PROVE FALSE
      OBVIOUS
    <3>1. j \in b..p - 1
      BY <1>1, <1>4, <2>2
    <3> QED BY <1>4, <2>3, <2>4, <3>1
  <2>7. PastAll(s, i + 2, Digits) = j
    BY <1>1, <2>2, <2>4, <2>5, <2>6
  <2> QED BY <1>2, <2>1, <2>7 DEF UnwantedAt
<1> QED BY <1>3, <1>4 DEF Sequence

(* A text with its colours set off, and other codes that are complete.       *)
SemiNeat(s) ==
  \A k \in 1..Len(s) :
    /\ s[k] = "START" => \E b \in 1..Len(s) : Block(s, k, b)
    /\ s[k] = "END" => \E a \in 1..Len(s) : Block(s, a, k)
    /\ s[k] = "ESC" => \/ k - 1 \in 1..Len(s) /\ s[k - 1] = "START"
                       \/ \E j \in 1..Len(s) : Sequence(s, k, j)

(* What Cleaning() replaces: nothing; a code, by itself; or another sequence.  *)
Cleans(s, l, b) ==
  \A n \in 1..Len(s) :
    /\ s[n] \notin {"START", "ESC"} => l[n] = 0
    /\ \A e \in 1..Len(s) : Block(s, n, e) => l[n] = e - n + 1 /\ b[n] = SubSeq(s, n, e)
    /\ \A j \in 1..Len(s) : Sequence(s, n, j) => l[n] = j - n + 1 /\ b[n] = <<>>

(* Cleaning puts codes back that are set off, and removes all other sequences. *)
LEMMA CleaningReplaces ==
  ASSUME NEW s \in Text
  PROVE  \E l \in [1..Len(s) -> Nat], b \in [1..Len(s) -> Text] :
           Matches(s, l) /\ Cleans(s, l, b) /\ Cleaning(s) = Replaced(s, l, b)
<1>1. PICK N \in Nat : N = Len(s)
  BY Characters
<1>2. PICK length \in [1..Len(s) -> Nat] :
        length = [i \in 1..Len(s) |-> UnwantedAt(s, i)] /\ Matches(s, length)
  BY UnwantedMatches
<1>3. PICK by \in [1..Len(s) -> Text] : by = [i \in 1..Len(s) |-> <<>>]
  BY NothingToCopy
<1>4. PICK l \in [1..Len(s) -> Nat], b \in [1..Len(s) -> Text] :
        /\ Matches(s, l) /\ Respecting(s, length, by, l, b)
        /\ replace_special(s, length, by) = Replaced(s, l, b)
  BY <1>2, SpecialReplaces
<1>5. ASSUME NEW n \in 1..Len(s), s[n] # "START" PROVE l[n] = UnwantedAt(s, n) /\ b[n] = <<>>
  <2>1. ~(IgnoredAt(s, n) > 0)
    BY <1>5, BlockIgnored
  <2> QED BY <1>2, <1>3, <1>4, <2>1 DEF Respecting
<1>6. ASSUME NEW n \in 1..Len(s), s[n] \notin {"START", "ESC"} PROVE l[n] = 0
  BY <1>5, <1>6 DEF UnwantedAt
<1>7. ASSUME NEW n \in 1..Len(s), NEW e \in 1..Len(s), Block(s, n, e)
      PROVE  l[n] = e - n + 1 /\ b[n] = SubSeq(s, n, e)
  <2>1. n + 3 < e
    BY <1>7, BlockEnds
  <2>2. IgnoredAt(s, n) = e - n + 1 /\ IgnoredAt(s, n) > 0
    BY <1>1, <1>7, <2>1, BlockIgnored
  <2>3. l[n] = e - n + 1 /\ b[n] = SubSeq(s, n, n + l[n] - 1)
    BY <1>4, <2>2 DEF Respecting
  <2>4. n + l[n] - 1 = e
    BY <1>1, <2>3
  <2> QED BY <2>3, <2>4
<1>8. ASSUME NEW n \in 1..Len(s), NEW j \in 1..Len(s), Sequence(s, n, j)
      PROVE  l[n] = j - n + 1 /\ b[n] = <<>>
  <2>1. s[n] # "START"
    BY <1>8 DEF Sequence
  <2> QED BY <1>5, <1>8, <2>1, SequenceUnwanted
<1>9. Cleans(s, l, b)
  BY <1>6, <1>7, <1>8 DEF Cleans
<1>10. Cleaning(s) = Replaced(s, l, b)
  BY <1>2, <1>3, <1>4 DEF Cleaning
<1> QED BY <1>4, <1>9, <1>10

(* A code that has been set off, by itself. *)
LEMMA BlockPiece ==
  ASSUME NEW s \in Text, NEW a \in 1..Len(s), NEW b \in 1..Len(s), Block(s, a, b)
  PROVE  \E code \in Text : IsColour(code, 1, Len(code)) /\ SubSeq(s, a, b) = SetOff(code)
<1>1. PICK N \in Nat : N = Len(s)
  BY Characters
<1>2. /\ a + 3 < b /\ s[a] = "START" /\ s[b] = "END" /\ IsColour(s, a + 1, b - 1)
  <2>1. /\ a \in 1..Len(s) /\ b \in 1..Len(s) /\ Len(s) \in Nat
        /\ a + 3 < b /\ s[a] = "START" /\ s[b] = "END" /\ s[a + 1] = "ESC"
        /\ IsColour(s, a + 1, b - 1)
        /\ \A k \in a + 1..b - 1 : s[k] \notin {"START", "END", "BS", "CR"}
        /\ \A k \in a + 2..b - 1 : s[k] # "ESC"
    BY BlockInside
  <2> QED BY <2>1
<1>3. PICK M \in Nat : M = b - a - 1 /\ M > 2
  <2>1. b - a - 1 \in Nat /\ b - a - 1 > 2
    BY <1>1, <1>2
  <2> QED BY <2>1
<1>4. PICK code \in Text : /\ Len(code) = M /\ IsColour(code, 1, Len(code))
                          /\ \A i \in 1..M : code[i] = s[a + i]
  <2>1. PICK x \in 1..Len(s), y \in 1..Len(s) :
          x = a + 1 /\ y = b - 1 /\ x <= y /\ y - x + 1 = M /\ IsColour(s, x, y)
    <3>1. /\ a + 1 \in 1..Len(s) /\ b - 1 \in 1..Len(s) /\ a + 1 <= b - 1
          /\ (b - 1) - (a + 1) + 1 = M
      BY <1>1, <1>2, <1>3
    <3> QED BY <1>2, <3>1
  <2>2. PICK code \in Text : code = SubSeq(s, x, y)
    BY <2>1, CodePiece
  <2>3. /\ Len(code) = M /\ IsColour(code, 1, Len(code))
        /\ \A i \in 1..M : code[i] = s[x + i - 1]
    BY <2>1, <2>2, CodePiece
  <2>4. \A i \in 1..M : x + i - 1 = a + i
    BY <1>2, <2>1
  <2> QED BY <2>3, <2>4
<1>5. PICK x \in Text : /\ x = SetOff(code) /\ Len(x) = M + 2
                        /\ x[1] = "START" /\ x[M + 2] = "END"
                        /\ \A i \in 1..M : x[i + 1] = code[i]
  BY <1>4, SetOffProperties
<1>6. PICK t \in Text : /\ t = SubSeq(s, a, b) /\ Len(t) = M + 2
                        /\ \A i \in 1..M + 2 : t[i] = s[a + i - 1]
  <2>1. PICK c \in Nat \ {0}, d \in Int : c = a /\ d = b /\ d <= Len(s) /\ d - c + 1 = M + 2
    <3>1. a \in Nat \ {0} /\ b \in Int /\ b <= Len(s) /\ b - a + 1 = M + 2
      BY <1>1, <1>3
    <3> QED BY <3>1
  <2>2. /\ SubSeq(s, c, d) \in Text /\ Len(s) \in Nat
        /\ Len(SubSeq(s, c, d)) = IF c <= d THEN d - c + 1 ELSE 0
        /\ \A i \in 1..d - c + 1 : SubSeq(s, c, d)[i] = s[c + i - 1]
    BY <2>1, Piece
  <2>3. c <= d
    BY <1>2, <2>1
  <2> QED BY <2>1, <2>2, <2>3
<1>7. ASSUME NEW i \in 1..M + 2 PROVE x[i] = t[i]
  <2>1. CASE i = 1
    <3>1. a + 1 - 1 = a
      BY <1>1
    <3> QED BY <1>2, <1>5, <1>6, <2>1, <3>1
  <2>2. CASE i = M + 2
    <3>1. a + (M + 2) - 1 = b
      BY <1>1, <1>3
    <3> QED BY <1>2, <1>5, <1>6, <2>2, <3>1
  <2>3. CASE i # 1 /\ i # M + 2
    <3>1. PICK k \in 1..M : i = k + 1
      <4>1. i - 1 \in 1..M /\ i = (i - 1) + 1
        BY <1>3, <2>3
      <4> QED BY <4>1
    <3>2. a + i - 1 = a + k
      BY <1>1, <3>1
    <3>3. x[i] = code[k]
      BY <1>5, <3>1
    <3>4. t[i] = s[a + k]
      BY <1>6, <3>2
    <3> QED BY <1>4, <3>3, <3>4
  <2> QED BY <2>1, <2>2, <2>3
<1>8. x = t
  <2>1. x \in Seq(Char) /\ t \in Seq(Char) /\ Len(x) = Len(t)
    BY <1>5, <1>6 DEF Text
  <2>2. \A i \in 1..Len(x) : x[i] = t[i]
    BY <1>5, <1>7
  <2> QED BY <2>1, <2>2, SeqEqual
<1> QED BY <1>4, <1>5, <1>6, <1>8

(* A code, or a sequence. *)
CodeFrom(s, m, e) == Block(s, m, e) \/ Sequence(s, m, e)

(* No code that is set off begins within another, or within a sequence.      *)
LEMMA CodeFromInside ==
  ASSUME NEW s \in Text, NEW m \in 1..Len(s), NEW e \in 1..Len(s), CodeFrom(s, m, e)
  PROVE  m < e /\ \A k \in m + 1..e : s[k] # "START"
<1>1. PICK N \in Nat : N = Len(s)
  BY Characters
<1>2. CASE Sequence(s, m, e)
  BY <1>2, SequenceInside
<1>3. CASE Block(s, m, e)
  <2>1. m + 3 < e /\ s[e] = "END" /\ \A k \in m + 1..e - 1 : s[k] \notin {"START", "END"}
    BY <1>3, BlockEnds
  <2>2. \A k \in m + 1..e : k = e \/ k \in m + 1..e - 1
    BY <1>1
  <2>3. m < e
    BY <1>1, <2>1
  <2> QED BY <2>1, <2>2, <2>3
<1> QED BY <1>2, <1>3 DEF CodeFrom

(* The codes that begin before n have been passed over. *)
PassedCodes(s, n, upto) ==
  /\ n <= upto
  /\ \A i \in 1..n : \A j \in 1..Len(s) : Block(s, i, j) => j <= upto
  /\ upto = n \/ \E i \in 1..n : upto \in 1..Len(s) /\ CodeFrom(s, i, upto)

(* Cleaning leaves just the colours that have been set off. *)
LEMMA SemiCleaned ==
  ASSUME NEW s \in Text, SemiNeat(s)
  PROVE  Cleaning(s) \in Text /\ Neat(Cleaning(s))
<1>1. PICK N \in Nat : N = Len(s) /\ \A n \in 1..N : s[n] \in Char
  BY Characters
<1>2. PICK l \in [1..Len(s) -> Nat], b \in [1..Len(s) -> Text] :
        Matches(s, l) /\ Cleans(s, l, b) /\ Cleaning(s) = Replaced(s, l, b)
  BY CleaningReplaces
<1>3. PICK r \in [0..N -> Copying] :
           /\ r[0] = [text |-> <<>>, upto |-> 0]
           /\ \A n \in 1..N : r[n] = Copied(r[n - 1], n, s, l, b)
           /\ Replaced(s, l, b) = r[N].text
  BY <1>1, <1>2, ReplacedLoop
<1> DEFINE Right(n) == PassedCodes(s, n, r[n].upto) /\ Neat(r[n].text)
           G == {n \in Nat : n <= N => Right(n)}
<1>4. Right(0)
  <2>1. PassedCodes(s, 0, 0)
    BY DEF PassedCodes
  <2> QED BY <1>3, <2>1, NothingNeat
<1>5. ASSUME NEW n \in 1..N, Right(n - 1) PROVE Right(n)
  <2>1. PICK text \in Text, upto \in Nat :
          /\ text = r[n - 1].text /\ upto = r[n - 1].upto
          /\ PassedCodes(s, n - 1, upto) /\ Neat(text)
    <3>1. n - 1 \in 0..N
      OBVIOUS
    <3>2. r[n - 1].text \in Text /\ r[n - 1].upto \in Nat
      BY <1>3, <3>1 DEF Copying
    <3> QED BY <1>5, <3>2
  <2>2. r[n] = IF n <= upto THEN r[n - 1]
               ELSE IF l[n] = 0 THEN [text |-> Append(text, s[n]), upto |-> n]
               ELSE [text |-> text \o b[n], upto |-> n + l[n] - 1]
    BY <1>3, <2>1 DEF Copied
  <2>3. n \in 1..Len(s) /\ l[n] \in Nat
    BY <1>1, <1>2 DEF Matches
  <2>4. CASE n <= upto
    <3>1. PICK i \in 1..n - 1 : upto \in 1..Len(s) /\ CodeFrom(s, i, upto)
      BY <2>1, <2>4 DEF PassedCodes
    <3>2. i \in 1..Len(s) /\ n \in i + 1..upto /\ i \in 1..n
      BY <1>1, <2>4, <3>1
    <3>3. s[n] # "START"
      BY <3>1, <3>2, CodeFromInside
    <3>4. ASSUME NEW k \in 1..n, NEW j \in 1..Len(s), Block(s, k, j) PROVE j <= upto
      <4>1. s[k] = "START"
        BY <3>4 DEF Block
      <4>2. k \in 1..n - 1
        BY <3>3, <4>1
      <4> QED BY <2>1, <3>4, <4>2 DEF PassedCodes
    <3>5. PassedCodes(s, n, upto)
      BY <2>4, <3>1, <3>2, <3>4 DEF PassedCodes
    <3>6. r[n] = r[n - 1]
      BY <2>2, <2>4
    <3> QED BY <2>1, <3>5, <3>6
  <2>5. CASE ~(n <= upto)
    <3>1. upto = n - 1
      <4>1. n - 1 <= upto
        BY <2>1 DEF PassedCodes
      <4> QED BY <2>5, <4>1
    <3>2. \A i \in 1..n - 1 : \A j \in 1..Len(s) : Block(s, i, j) => j <= n - 1
      BY <2>1, <3>1 DEF PassedCodes
    <3>3. s[n] # "END"
      <4> SUFFICES ASSUME s[n] = "END" PROVE FALSE
        OBVIOUS
      <4>1. PICK a \in 1..Len(s) : Block(s, a, n)
        BY <2>3 DEF SemiNeat
      <4>2. a \in Nat \ {0} /\ a + 3 < n
        BY <4>1, BlockEnds
      <4>3. a \in 1..n - 1
        BY <4>2
      <4>4. n <= n - 1
        BY <2>3, <3>2, <4>1, <4>3
      <4> QED BY <4>4
    <3>4. CASE s[n] \notin {"START", "ESC"}
      <4>1. l[n] = 0
        BY <1>2, <2>3, <3>4 DEF Cleans
      <4>2. PICK c \in Char : c = s[n] /\ c \notin {"START", "END", "ESC"}
        BY <1>1, <3>3, <3>4
      <4>3. PICK u \in Text : u = Append(text, c) /\ Neat(u)
        BY <2>1, <4>2, OneMoreNeat
      <4>4. r[n].text = u /\ r[n].upto = n
        BY <2>2, <2>5, <4>1, <4>2, <4>3
      <4>5. ASSUME NEW k \in 1..n, NEW j \in 1..Len(s), Block(s, k, j) PROVE j <= n
        <5>1. s[k] = "START"
          BY <4>5 DEF Block
        <5>2. k \in 1..n - 1
          BY <3>4, <5>1
        <5>3. j <= n - 1 /\ j \in Int
          BY <3>2, <4>5, <5>2
        <5> QED BY <5>3
      <4>6. PassedCodes(s, n, n)
        BY <4>5 DEF PassedCodes
      <4> QED BY <4>3, <4>4, <4>6
    <3>5. CASE s[n] = "START"
      <4>1. PICK e \in 1..Len(s) : Block(s, n, e)
        BY <2>3, <3>5 DEF SemiNeat
      <4>2. n + 3 < e
        BY <4>1, BlockEnds
      <4>3. l[n] = e - n + 1 /\ b[n] = SubSeq(s, n, e)
        BY <1>2, <2>3, <4>1 DEF Cleans
      <4>4. l[n] # 0 /\ n + l[n] - 1 = e /\ n <= e /\ n \in 1..n
        BY <1>1, <4>2, <4>3
      <4>5. PICK code \in Text : IsColour(code, 1, Len(code)) /\ b[n] = SetOff(code)
        BY <2>3, <4>1, <4>3, BlockPiece
      <4>6. r[n].text = text \o SetOff(code) /\ r[n].upto = e
        BY <2>2, <2>5, <4>4, <4>5
      <4>7. Neat(text \o SetOff(code))
        BY <2>1, <4>5, CodeNeat
      <4>8. ASSUME NEW k \in 1..n, NEW j \in 1..Len(s), Block(s, k, j) PROVE j <= e
        <5>1. CASE k = n
          <6>1. e < k \/ j < n \/ (k = n /\ j = e)
            BY <4>1, <4>8, BlocksApart
          <6>2. k + 3 < j
            BY <4>8, BlockEnds
          <6> QED BY <1>1, <4>2, <5>1, <6>1, <6>2
        <5>2. CASE k # n
          <6>1. k \in 1..n - 1
            BY <5>2
          <6>2. j <= n - 1
            BY <3>2, <4>8, <6>1
          <6> QED BY <1>1, <4>4, <6>2
        <5> QED BY <5>1, <5>2
      <4>9. PassedCodes(s, n, e)
        BY <4>1, <4>4, <4>8 DEF PassedCodes, CodeFrom
      <4> QED BY <4>6, <4>7, <4>9
    <3>6. CASE s[n] = "ESC"
      <4>1. PICK j \in 1..Len(s) : Sequence(s, n, j)
        <5>1. ~(n - 1 \in 1..Len(s) /\ s[n - 1] = "START")
          <6> SUFFICES ASSUME n - 1 \in 1..Len(s), s[n - 1] = "START" PROVE FALSE
            OBVIOUS
          <6>1. PICK e \in 1..Len(s) : Block(s, n - 1, e)
            BY DEF SemiNeat
          <6>2. (n - 1) + 3 < e
            BY <6>1, BlockEnds
          <6>3. e <= n - 1
            BY <3>2, <6>1
          <6> QED BY <1>1, <6>2, <6>3
        <5> QED BY <2>3, <3>6, <5>1 DEF SemiNeat
      <4>2. n < j
        BY <1>1, <4>1, SequenceInside
      <4>3. l[n] = j - n + 1 /\ b[n] = <<>>
        BY <1>2, <2>3, <4>1 DEF Cleans
      <4>4. l[n] # 0 /\ n + l[n] - 1 = j /\ n <= j /\ n \in 1..n
        BY <1>1, <4>2, <4>3
      <4>5. text \o <<>> = text
        <5>1. text \in Seq(Char)
          BY DEF Text
        <5> QED BY <5>1, ConcatEmptySeq
      <4>6. r[n].text = text /\ r[n].upto = j
        BY <2>2, <2>5, <4>3, <4>4, <4>5
      <4>7. ASSUME NEW k \in 1..n, NEW e \in 1..Len(s), Block(s, k, e) PROVE e <= j
        <5>1. s[k] = "START"
          BY <4>7 DEF Block
        <5>2. k \in 1..n - 1
          BY <3>6, <5>1
        <5>3. e <= n - 1
          BY <3>2, <4>7, <5>2
        <5> QED BY <1>1, <4>4, <5>3
      <4>8. PassedCodes(s, n, j)
        BY <4>1, <4>4, <4>7 DEF PassedCodes, CodeFrom
      <4> QED BY <2>1, <4>6, <4>8
    <3> QED BY <3>4, <3>5, <3>6
  <2> QED BY <2>4, <2>5
<1> HIDE DEF Right
<1>6. 0 \in G /\ \A n \in 1..N : n - 1 \in G => n \in G
  BY <1>4, <1>5
<1> HIDE DEF G
<1>7. 0..N \subseteq G
  BY <1>6, Steps
<1>8. Right(N)
  BY <1>7 DEF G
<1>9. r[N].text \in Text
  BY <1>3 DEF Copying
<1> QED BY <1>2, <1>3, <1>8, <1>9 DEF Right

(* Codes in a part of another text. *)
LEMMA ColourShifted ==
  ASSUME NEW s, NEW t, NEW i \in Int, NEW j \in Int, NEW d \in Int,
         \A k \in i..j : t[k + d] = s[k], IsColour(s, i, j)
  PROVE  IsColour(t, i + d, j + d)
<1>1. /\ i + 1 < j /\ s[i] = "ESC" /\ s[i + 1] = "[" /\ s[j] = "m"
      /\ \A k \in i + 2..j - 1 : s[k] \in Digits
  BY DEF IsColour
<1>2. i \in i..j /\ i + 1 \in i..j /\ j \in i..j /\ (i + 1) + d = (i + d) + 1
  BY <1>1
<1>3. t[i + d] = "ESC" /\ t[(i + d) + 1] = "[" /\ t[j + d] = "m" /\ (i + d) + 1 < j + d
  BY <1>1, <1>2
<1>4. ASSUME NEW k \in (i + d) + 2..(j + d) - 1 PROVE t[k] \in Digits
  <2>1. k - d \in i + 2..j - 1 /\ k - d \in i..j /\ (k - d) + d = k
    OBVIOUS
  <2> QED BY <1>1, <2>1
<1> QED BY <1>3, <1>4 DEF IsColour

(* A sequence elsewhere in another text.                                     *)
LEMMA SequenceShifted ==
  ASSUME NEW s, NEW t, NEW i \in Int, NEW j \in Int, NEW d \in Int,
         \A k \in i..j : t[k + d] = s[k], Sequence(s, i, j)
  PROVE  Sequence(t, i + d, j + d)
<1>1. i < j /\ s[i] = "ESC" /\ s[j] \notin Unprintable
  BY SequenceInside DEF Sequence
<1>2. i \in i..j /\ i + 1 \in i..j /\ j \in i..j /\ (i + 1) + d = (i + d) + 1
  BY <1>1
<1>3. t[i + d] = "ESC" /\ t[(i + d) + 1] = s[i + 1] /\ t[j + d] = s[j]
  BY <1>1, <1>2
<1>4. CASE j = i + 1 /\ s[j] # "["
  <2>1. j + d = (i + d) + 1
    BY <1>4
  <2> QED BY <1>1, <1>3, <1>4, <2>1 DEF Sequence
<1>5. CASE /\ i + 1 < j /\ s[i + 1] = "[" /\ s[j] \notin Digits
           /\ \A k \in i + 2..j - 1 : s[k] \in Digits
  <2>1. (i + d) + 1 < j + d
    BY <1>5
  <2>2. ASSUME NEW k \in (i + d) + 2..(j + d) - 1 PROVE t[k] \in Digits
    <3>1. k - d \in i + 2..j - 1 /\ k - d \in i..j /\ (k - d) + d = k
      OBVIOUS
    <3> QED BY <1>5, <3>1
  <2> QED BY <1>1, <1>3, <1>5, <2>1, <2>2 DEF Sequence
<1> QED BY <1>4, <1>5 DEF Sequence

(* y is x with START and END around what stands after the first A characters, *)
(* M in number.                                                              *)
MarkedAt(x, y, A, M) ==
  /\ Len(y) = Len(x) + 2 /\ A + M <= Len(x)
  /\ \A k \in 1..A : y[k] = x[k]
  /\ y[A + 1] = "START" /\ y[A + M + 2] = "END"
  /\ \A k \in A + 1..A + M : y[k + 1] = x[k]
  /\ \A k \in A + M + 1..Len(x) : y[k + 2] = x[k]

(* Setting a colour off leaves the other sequences as they are.              *)
LEMMA MarkingKeeps ==
  ASSUME NEW x \in Text, NEW y \in Text, NEW A \in Nat, NEW M \in Nat, MarkedAt(x, y, A, M),
         SemiNeat(x), IsColour(x, A + 1, A + M),
         \A k \in A + 1..Len(x) : x[k] \notin {"START", "END"}
  PROVE  SemiNeat(y)
<1>1. PICK N \in Nat : N = Len(x) /\ Len(y) = N + 2 /\ A + M <= N /\ M > 2
  <2>1. PICK i \in Int, j \in Int : i = A + 1 /\ j = A + M
    OBVIOUS
  <2>2. i + 1 < j
    BY <2>1 DEF IsColour
  <2> QED BY <2>1, <2>2, Characters DEF MarkedAt
<1>2. /\ \A k \in 1..A : y[k] = x[k]
      /\ y[A + 1] = "START" /\ y[A + M + 2] = "END"
      /\ \A k \in A + 1..A + M : y[k + 1] = x[k]
      /\ \A k \in A + M + 1..N : y[k + 2] = x[k]
  BY <1>1 DEF MarkedAt
<1>3. PICK i \in Int, j \in Int :
        /\ i = A + 1 /\ j = A + M /\ IsColour(x, i, j) /\ x[i] = "ESC"
        /\ \A k \in i + 1..j : x[k] \notin {"ESC", "START", "END", "BS", "CR"}
  <2>1. PICK i \in Int, j \in Int : i = A + 1 /\ j = A + M
    OBVIOUS
  <2>2. IsColour(x, i, j)
    BY <2>1
  <2>3. /\ i + 1 < j /\ x[i] = "ESC"
        /\ \A k \in i + 1..j : x[k] \notin {"ESC", "START", "END", "BS", "CR"}
    BY <2>2, ColourInside
  <2> QED BY <2>1, <2>2, <2>3
<1>4. Block(y, A + 1, A + M + 2)
  <2>1. \A k \in i..j : y[k + 1] = x[k]
    BY <1>2, <1>3
  <2>2. IsColour(y, i + 1, j + 1)
    <3>1. PICK d \in Int : d = 1
      OBVIOUS
    <3>2. \A k \in i..j : y[k + d] = x[k]
      BY <2>1, <3>1
    <3>3. IsColour(y, i + d, j + d)
      BY <1>3, <3>2, ColourShifted
    <3> QED BY <3>1, <3>3
  <2>3. i + 1 = (A + 1) + 1 /\ j + 1 = (A + M + 2) - 1
    BY <1>3
  <2>4. IsColour(y, (A + 1) + 1, (A + M + 2) - 1)
    BY <2>2, <2>3
  <2>5. A + 1 \in 1..Len(y) /\ A + M + 2 \in 1..Len(y)
    BY <1>1
  <2> QED BY <1>2, <2>4, <2>5 DEF Block
<1>5. ASSUME NEW a, NEW b, Block(x, a, b) PROVE Block(y, a, b) /\ a \in 1..A /\ b \in 1..A
  <2>1. a \in Nat \ {0} /\ b \in Nat /\ a + 3 < b /\ b <= Len(x) /\ x[b] = "END"
    BY <1>5, BlockEnds
  <2>2. b \notin A + 1..Len(x)
    BY <2>1
  <2>3. a \in 1..A /\ b \in 1..A
    BY <1>1, <2>1, <2>2
  <2>4. A <= Len(x) /\ A <= Len(y) /\ b <= A
    BY <1>1, <2>3
  <2>5. \A k \in 1..A : x[k] = y[k]
    BY <1>2
  <2> QED BY <1>5, <2>3, <2>4, <2>5, SameBlocks
<1>6. ASSUME NEW k \in 1..Len(y)
      PROVE  /\ y[k] = "START" => \E b \in 1..Len(y) : Block(y, k, b)
             /\ y[k] = "END" => \E a \in 1..Len(y) : Block(y, a, k)
             /\ y[k] = "ESC" => \/ k - 1 \in 1..Len(y) /\ y[k - 1] = "START"
                                \/ \E e \in 1..Len(y) : Sequence(y, k, e)
  <2>1. CASE k \in 1..A
    <3>1. y[k] = x[k] /\ k \in 1..Len(x)
      BY <1>1, <1>2, <2>1
    <3>2. \A n \in 1..A : n \in 1..Len(y)
      BY <1>1
    <3>3. y[k] = "START" => \E b \in 1..Len(y) : Block(y, k, b)
      BY <1>5, <3>1, <3>2 DEF SemiNeat
    <3>4. y[k] = "END" => \E a \in 1..Len(y) : Block(y, a, k)
      BY <1>5, <3>1, <3>2 DEF SemiNeat
    <3>5. ASSUME y[k] = "ESC", k - 1 \in 1..Len(x), x[k - 1] = "START"
          PROVE  k - 1 \in 1..Len(y) /\ y[k - 1] = "START"
      <4>1. k - 1 \in 1..A
        BY <2>1, <3>5
      <4> QED BY <1>2, <3>2, <3>5, <4>1
    <3>6. ASSUME NEW e \in 1..Len(x), Sequence(x, k, e)
          PROVE  e \in 1..Len(y) /\ Sequence(y, k, e)
      <4>1. \A n \in k + 1..e : x[n] \notin {"ESC", "START", "END"}
        BY <1>1, <3>6, SequenceInside
      <4>2. A + 1 \notin k + 1..e
        BY <1>3, <4>1
      <4>3. e \in 1..A
        BY <1>1, <2>1, <4>2
      <4>4. \A n \in k..e : y[n + 0] = x[n]
        BY <1>2, <2>1, <4>3
      <4>5. k \in Int /\ e \in Int /\ 0 \in Int /\ k + 0 = k /\ e + 0 = e
        BY <2>1, <4>3
      <4>6. Sequence(y, k + 0, e + 0)
        BY <3>6, <4>4, <4>5, SequenceShifted
      <4> QED BY <3>2, <4>3, <4>5, <4>6
    <3>7. y[k] = "ESC" => \/ k - 1 \in 1..Len(y) /\ y[k - 1] = "START"
                         \/ \E e \in 1..Len(y) : Sequence(y, k, e)
      <4> SUFFICES ASSUME y[k] = "ESC"
                   PROVE  \/ k - 1 \in 1..Len(y) /\ y[k - 1] = "START"
                          \/ \E e \in 1..Len(y) : Sequence(y, k, e)
        OBVIOUS
      <4>1. \/ k - 1 \in 1..Len(x) /\ x[k - 1] = "START"
            \/ \E e \in 1..Len(x) : Sequence(x, k, e)
        BY <3>1 DEF SemiNeat
      <4> QED BY <3>5, <3>6, <4>1
    <3> QED BY <3>3, <3>4, <3>7
  <2>2. CASE k = A + 1
    <3>1. A + M + 2 \in 1..Len(y)
      BY <1>1
    <3> QED BY <1>2, <1>4, <2>2, <3>1
  <2>3. CASE k = A + M + 2
    <3>1. A + 1 \in 1..Len(y)
      BY <1>1
    <3> QED BY <1>2, <1>4, <2>3, <3>1
  <2>4. CASE k \in A + 2..A + M + 1
    <3>1. PICK n \in A + 1..A + M : k = n + 1 /\ n \in 1..Len(y)
      <4>1. k - 1 \in A + 1..A + M /\ k = (k - 1) + 1 /\ k - 1 \in 1..Len(y)
        BY <1>1, <2>4
      <4> QED BY <4>1
    <3>2. y[k] = x[n]
      BY <1>2, <3>1
    <3>3. n = i \/ n \in i + 1..j
      BY <1>3, <3>1
    <3>4. x[n] \notin {"START", "END"} /\ (x[n] = "ESC" => n = A + 1)
      BY <1>3, <3>3
    <3>5. k - 1 = n
      BY <3>1
    <3> QED BY <1>2, <3>1, <3>2, <3>4, <3>5
  <2>5. CASE k \in A + M + 3..N + 2
    <3>1. PICK n \in A + M + 1..N : k = n + 2 /\ n \in 1..Len(x)
      <4>1. k - 2 \in A + M + 1..N /\ k = (k - 2) + 2 /\ k - 2 \in 1..Len(x)
        BY <1>1, <2>5
      <4> QED BY <4>1
    <3>2. y[k] = x[n] /\ x[n] \notin {"START", "END"}
      BY <1>1, <1>2, <3>1
    <3>3. ASSUME x[n] = "ESC" PROVE \E e \in 1..Len(y) : Sequence(y, k, e)
      <4>1. n - 1 \in A + 1..Len(x)
        BY <1>1, <3>1
      <4>2. x[n - 1] # "START"
        BY <4>1
      <4>3. PICK e \in 1..Len(x) : Sequence(x, n, e)
        BY <3>1, <3>3, <4>2 DEF SemiNeat
      <4>4. n < e
        BY <1>1, <4>3, SequenceInside
      <4>5. \A q \in n..e : y[q + 2] = x[q]
        BY <1>1, <1>2, <3>1
      <4>6. Sequence(y, n + 2, e + 2)
        <5>1. PICK a \in Int, b \in Int, d \in Int : a = n /\ b = e /\ d = 2
          BY <1>1
        <5>2. Sequence(x, a, b) /\ \A q \in a..b : y[q + d] = x[q]
          BY <4>3, <4>5, <5>1
        <5>3. Sequence(y, a + d, b + d)
          BY <5>2, SequenceShifted
        <5> QED BY <5>1, <5>3
      <4>7. e + 2 \in 1..Len(y)
        BY <1>1
      <4> QED BY <3>1, <4>6, <4>7
    <3> QED BY <3>2, <3>3
  <2> QED BY <1>1, <2>1, <2>2, <2>3, <2>4, <2>5
<1> QED BY <1>6 DEF SemiNeat

(* What has been written, and what is still to be read. *)
WithRest(text, s, n) == text \o From(s, n)

(* A text made of what has been written, and of what is still to be read.    *)
LEMMA Rest ==
  ASSUME NEW text \in Text, NEW s \in Text, NEW n \in 1..Len(s) + 1
  PROVE  /\ WithRest(text, s, n) \in Text /\ Len(text) \in Nat /\ Len(s) \in Nat
         /\ Len(WithRest(text, s, n)) = Len(text) + (Len(s) - n + 1)
         /\ \A i \in 1..Len(text) : WithRest(text, s, n)[i] = text[i]
         /\ \A i \in 1..Len(s) - n + 1 : WithRest(text, s, n)[Len(text) + i] = s[n + i - 1]
<1>1. PICK L \in Nat, N \in Nat : L = Len(text) /\ N = Len(s)
  BY Characters
<1>2. PICK t \in Text : /\ t = From(s, n) /\ Len(t) = N - n + 1
                        /\ \A i \in 1..N - n + 1 : t[i] = s[n + i - 1]
  BY <1>1, FromProperties
<1>3. /\ text \o t \in Text /\ Len(text \o t) = Len(text) + Len(t)
      /\ Len(text) \in Nat /\ Len(t) \in Nat
      /\ \A i \in 1..Len(text) : (text \o t)[i] = text[i]
      /\ \A i \in 1..Len(t) : (text \o t)[Len(text) + i] = t[i]
  BY Pieced
<1> QED BY <1>1, <1>2, <1>3 DEF WithRest

(* It is the same text after a character has been copied.                    *)
LEMMA RestCopied ==
  ASSUME NEW text \in Text, NEW s \in Text, NEW n \in 1..Len(s)
  PROVE  WithRest(Append(text, s[n]), s, n + 1) = WithRest(text, s, n)
<1>1. PICK L \in Nat, N \in Nat : L = Len(text) /\ N = Len(s)
  BY Characters
<1>2. PICK c \in Char : c = s[n]
  BY Characters
<1>3. PICK u \in Text :
        u = Append(text, c) /\ Len(u) = L + 1 /\ u[L + 1] = c /\ \A i \in 1..L : u[i] = text[i]
  <2>1. /\ Append(text, c) \in Text /\ Len(text) \in Nat /\ Len(Append(text, c)) = Len(text) + 1
        /\ \A i \in 1..Len(text) : Append(text, c)[i] = text[i]
        /\ Append(text, c)[Len(text) + 1] = c
    BY OneMore
  <2> QED BY <1>1, <2>1
<1>4. PICK m \in 1..Len(s) + 1 : m = n + 1
  BY <1>1
<1>5. PICK x \in Text : /\ x = WithRest(u, s, m) /\ Len(x) = (L + 1) + (N - n)
                        /\ \A i \in 1..L + 1 : x[i] = u[i]
                        /\ \A i \in 1..N - n : x[(L + 1) + i] = s[n + i]
  <2>1. /\ WithRest(u, s, m) \in Text /\ Len(u) \in Nat /\ Len(s) \in Nat
        /\ Len(WithRest(u, s, m)) = Len(u) + (Len(s) - m + 1)
        /\ \A i \in 1..Len(u) : WithRest(u, s, m)[i] = u[i]
        /\ \A i \in 1..Len(s) - m + 1 : WithRest(u, s, m)[Len(u) + i] = s[m + i - 1]
    BY Rest
  <2>2. Len(s) - m + 1 = N - n /\ \A i \in 1..N - n : m + i - 1 = n + i
    BY <1>1, <1>4
  <2>3. PICK x \in Text : x = WithRest(u, s, m)
    BY <2>1
  <2>4. Len(x) = (L + 1) + (N - n)
    BY <1>3, <2>1, <2>2, <2>3
  <2>5. \A i \in 1..L + 1 : x[i] = u[i]
    BY <1>3, <2>1, <2>3
  <2>6. \A i \in 1..N - n : x[(L + 1) + i] = s[n + i]
    BY <1>3, <2>1, <2>2, <2>3
  <2> QED BY <2>3, <2>4, <2>5, <2>6
<1>6. PICK y \in Text : /\ y = WithRest(text, s, n) /\ Len(y) = L + (N - n + 1)
                        /\ \A i \in 1..L : y[i] = text[i]
                        /\ \A i \in 1..N - n + 1 : y[L + i] = s[n + i - 1]
  <2>1. PICK e \in 1..Len(s) + 1 : e = n
    BY <1>1
  <2>2. /\ WithRest(text, s, e) \in Text /\ Len(text) \in Nat /\ Len(s) \in Nat
        /\ Len(WithRest(text, s, e)) = Len(text) + (Len(s) - e + 1)
        /\ \A i \in 1..Len(text) : WithRest(text, s, e)[i] = text[i]
        /\ \A i \in 1..Len(s) - e + 1 : WithRest(text, s, e)[Len(text) + i] = s[e + i - 1]
    BY Rest
  <2>3. PICK y \in Text : y = WithRest(text, s, e)
    BY <2>2
  <2> QED BY <1>1, <2>1, <2>2, <2>3
<1>7. Len(x) = Len(y)
  BY <1>1, <1>5, <1>6
<1>8. ASSUME NEW k \in 1..Len(x) PROVE x[k] = y[k]
  <2>0. Len(x) = L + (N - n + 1)
    BY <1>1, <1>5
  <2>1. CASE k \in 1..L
    <3>1. k \in 1..L + 1
      BY <2>1
    <3> QED BY <1>3, <1>5, <1>6, <2>1, <3>1
  <2>2. CASE k = L + 1
    <3>1. 1 \in 1..N - n + 1 /\ n + 1 - 1 = n /\ L + 1 \in 1..L + 1
      BY <1>1
    <3>2. y[L + 1] = s[n + 1 - 1]
      BY <1>6, <3>1
    <3> QED BY <1>2, <1>3, <1>5, <2>2, <3>1, <3>2
  <2>3. CASE k \notin 1..L /\ k # L + 1
    <3>1. PICK i \in 1..N - n : k = (L + 1) + i
      <4>1. k - L - 1 \in 1..N - n /\ k = (L + 1) + (k - L - 1)
        BY <1>1, <2>0, <2>3
      <4> QED BY <4>1
    <3>2. i + 1 \in 1..N - n + 1 /\ k = L + (i + 1) /\ n + (i + 1) - 1 = n + i
      BY <1>1, <3>1
    <3>3. x[k] = s[n + i]
      BY <1>5, <3>1
    <3>4. y[k] = s[n + (i + 1) - 1]
      BY <1>6, <3>2
    <3> QED BY <3>2, <3>3, <3>4
  <2> QED BY <2>1, <2>2, <2>3
<1>9. x = y
  <2>1. x \in Seq(Char) /\ y \in Seq(Char)
    BY DEF Text
  <2> QED BY <1>7, <1>8, <2>1, SeqEqual
<1> QED BY <1>2, <1>3, <1>4, <1>5, <1>6, <1>9

(* A colour is set off in it when that is written in place of the match.     *)
LEMMA RestMarked ==
  ASSUME NEW text \in Text, NEW s \in Text, NEW n \in 1..Len(s), NEW p \in n..Len(s)
  PROVE  /\ MarkedAt(WithRest(text, s, n), WithRest(text \o SetOff(SubSeq(s, n, p)), s, p + 1),
                     Len(text), p - n + 1)
         /\ WithRest(text, s, n) \in Text
         /\ WithRest(text \o SetOff(SubSeq(s, n, p)), s, p + 1) \in Text
<1>1. PICK L \in Nat, N \in Nat : L = Len(text) /\ N = Len(s)
  BY Characters
<1>2. PICK M \in Nat : M = p - n + 1
  BY <1>1
<1>3. PICK code \in Text : /\ code = SubSeq(s, n, p) /\ Len(code) = M
                           /\ \A i \in 1..M : code[i] = s[n + i - 1]
  <2>1. PICK a \in Nat \ {0}, b \in Int : a = n /\ b = p /\ b <= Len(s) /\ a <= b
    BY <1>1
  <2>2. /\ SubSeq(s, a, b) \in Text /\ Len(s) \in Nat
        /\ Len(SubSeq(s, a, b)) = IF a <= b THEN b - a + 1 ELSE 0
        /\ \A i \in 1..b - a + 1 : SubSeq(s, a, b)[i] = s[a + i - 1]
    BY <2>1, Piece
  <2> QED BY <1>2, <2>1, <2>2
<1>4. PICK x \in Text : /\ x = SetOff(code) /\ Len(x) = M + 2
                        /\ x[1] = "START" /\ x[M + 2] = "END"
                        /\ \A i \in 1..M : x[i + 1] = code[i]
  BY <1>3, SetOffProperties
<1>5. PICK u \in Text : /\ u = text \o x /\ Len(u) = L + (M + 2)
                        /\ \A i \in 1..L : u[i] = text[i]
                        /\ \A i \in 1..M + 2 : u[L + i] = x[i]
  <2>1. /\ text \o x \in Text /\ Len(text \o x) = Len(text) + Len(x)
        /\ \A i \in 1..Len(text) : (text \o x)[i] = text[i]
        /\ \A i \in 1..Len(x) : (text \o x)[Len(text) + i] = x[i]
    BY Pieced
  <2>2. PICK u \in Text : u = text \o x
    BY <2>1
  <2> QED BY <1>1, <1>4, <2>1, <2>2
<1>6. PICK q \in 1..Len(s) + 1 : q = p + 1
  BY <1>1
<1>7. PICK z \in Text : /\ z = WithRest(u, s, q) /\ Len(z) = (L + (M + 2)) + (N - p)
                        /\ \A i \in 1..L + (M + 2) : z[i] = u[i]
                        /\ \A i \in 1..N - p : z[(L + (M + 2)) + i] = s[p + i]
  <2>1. /\ WithRest(u, s, q) \in Text /\ Len(u) \in Nat /\ Len(s) \in Nat
        /\ Len(WithRest(u, s, q)) = Len(u) + (Len(s) - q + 1)
        /\ \A i \in 1..Len(u) : WithRest(u, s, q)[i] = u[i]
        /\ \A i \in 1..Len(s) - q + 1 : WithRest(u, s, q)[Len(u) + i] = s[q + i - 1]
    BY Rest
  <2>2. Len(s) - q + 1 = N - p /\ \A i \in 1..N - p : q + i - 1 = p + i
    BY <1>1, <1>6
  <2>3. PICK z \in Text : z = WithRest(u, s, q)
    BY <2>1
  <2>4. Len(z) = (L + (M + 2)) + (N - p)
    BY <1>5, <2>1, <2>2, <2>3
  <2>5. \A i \in 1..L + (M + 2) : z[i] = u[i]
    BY <1>5, <2>1, <2>3
  <2>6. \A i \in 1..N - p : z[(L + (M + 2)) + i] = s[p + i]
    BY <1>5, <2>1, <2>2, <2>3
  <2> QED BY <2>3, <2>4, <2>5, <2>6
<1>8. PICK y \in Text : /\ y = WithRest(text, s, n) /\ Len(y) = L + (N - n + 1)
                        /\ \A i \in 1..L : y[i] = text[i]
                        /\ \A i \in 1..N - n + 1 : y[L + i] = s[n + i - 1]
  <2>1. PICK m \in 1..Len(s) + 1 : m = n
    BY <1>1
  <2>2. /\ WithRest(text, s, m) \in Text /\ Len(text) \in Nat /\ Len(s) \in Nat
        /\ Len(WithRest(text, s, m)) = Len(text) + (Len(s) - m + 1)
        /\ \A i \in 1..Len(text) : WithRest(text, s, m)[i] = text[i]
        /\ \A i \in 1..Len(s) - m + 1 : WithRest(text, s, m)[Len(text) + i] = s[m + i - 1]
    BY Rest
  <2>3. PICK y \in Text : y = WithRest(text, s, m)
    BY <2>2
  <2> QED BY <1>1, <2>1, <2>2, <2>3
<1>9. Len(z) = Len(y) + 2 /\ L + M <= Len(y)
  BY <1>1, <1>2, <1>7, <1>8
<1>10. \A k \in 1..L : z[k] = y[k]
  <2>1. \A k \in 1..L : k \in 1..L + (M + 2)
    OBVIOUS
  <2> QED BY <1>5, <1>7, <1>8, <2>1
<1>11. z[L + 1] = "START" /\ z[L + M + 2] = "END"
  <2>1. /\ 1 \in 1..M + 2 /\ M + 2 \in 1..M + 2 /\ L + 1 \in 1..L + (M + 2)
        /\ L + (M + 2) \in 1..L + (M + 2) /\ L + (M + 2) = L + M + 2
    OBVIOUS
  <2> QED BY <1>4, <1>5, <1>7, <2>1
<1>12. ASSUME NEW k \in L + 1..L + M PROVE z[k + 1] = y[k]
  <2>1. PICK i \in 1..M : k = L + i
    <3>1. k - L \in 1..M /\ k = L + (k - L)
      OBVIOUS
    <3> QED BY <3>1
  <2>2. /\ k + 1 = L + (i + 1) /\ i + 1 \in 1..M + 2 /\ k + 1 \in 1..L + (M + 2)
        /\ i \in 1..N - n + 1
    BY <1>1, <1>2, <2>1
  <2>3. z[k + 1] = x[i + 1]
    <3>1. z[k + 1] = u[k + 1]
      BY <1>7, <2>2
    <3>2. u[L + (i + 1)] = x[i + 1]
      BY <1>5, <2>2
    <3> QED BY <2>2, <3>1, <3>2
  <2>4. y[k] = s[n + i - 1]
    BY <1>8, <2>1, <2>2
  <2> QED BY <1>3, <1>4, <2>3, <2>4
<1>13. ASSUME NEW k \in L + M + 1..Len(y) PROVE z[k + 2] = y[k]
  <2>1. PICK i \in 1..N - p : k = L + M + i
    <3>1. k - L - M \in 1..N - p /\ k = L + M + (k - L - M)
      BY <1>1, <1>2, <1>8
    <3> QED BY <3>1
  <2>2. k + 2 = (L + (M + 2)) + i /\ k = L + (M + i) /\ M + i \in 1..N - n + 1
        /\ n + (M + i) - 1 = p + i
    BY <1>1, <1>2, <2>1
  <2>3. z[k + 2] = s[p + i]
    BY <1>7, <2>2
  <2>4. y[k] = s[n + (M + i) - 1]
    BY <1>8, <2>2
  <2> QED BY <2>2, <2>3, <2>4
<1>14. MarkedAt(y, z, L, M)
  BY <1>9, <1>10, <1>11, <1>12, <1>13 DEF MarkedAt
<1> QED BY <1>1, <1>2, <1>3, <1>4, <1>5, <1>6, <1>7, <1>8, <1>14

(* Every ESC begins a code that is complete, or at least one that             *)
(* protect_or_cleanup() removes.                                            *)
Complete(s) == \A i \in 1..Len(s) : s[i] = "ESC" => UnwantedAt(s, i) # 0

(* The first expression matches colour codes, if all codes are complete.     *)
LEMMA ColourProtected ==
  ASSUME NEW s \in Text, NEW i \in 1..Len(s), UnwantedAt(s, i) # 0, ProtectedAt(s, i, TRUE) # 0
  PROVE  /\ s[i] = "ESC"
         /\ \E j \in i..Len(s) : IsColour(s, i, j) /\ ProtectedAt(s, i, TRUE) = j - i + 1
<1>1. PICK N \in Nat : N = Len(s)
  BY Characters
<1>2. PICK e \in 1..Len(s) : Sequence(s, i, e)
  BY SequenceMatched
<1>3. s[i] = "ESC"
  BY <1>2 DEF Sequence
<1>4. s[i + 1] # "ESC"
  <2>1. i < e /\ \A k \in i + 1..e : s[k] \notin {"ESC", "START", "END"}
    BY <1>1, <1>2, SequenceInside
  <2>2. i + 1 \in i + 1..e
    BY <1>1, <2>1
  <2> QED BY <2>1, <2>2
<1>5. ProtectedAt(s, i, TRUE) = ColourCodeAt(s, i)
  BY <1>4 DEF ProtectedAt
<1>6. IsSequenceAt(s, i, {"["})
  BY <1>5 DEF ColourCodeAt
<1>7. i < Len(s) /\ s[i + 1] = "["
  BY <1>6 DEF IsSequenceAt
<1>8. PICK b \in 1..Len(s) + 1 : b = i + 2
  BY <1>1, <1>7
<1>9. /\ PastAll(s, b, Digits) \in b..Len(s) + 1
      /\ \A k \in b..PastAll(s, b, Digits) - 1 : s[k] \in Digits
      /\ PastAll(s, b, Digits) > Len(s) \/ s[PastAll(s, b, Digits)] \notin Digits
  BY Past
<1>10. PICK p \in b..N + 1 : p = PastAll(s, i + 2, Digits)
  BY <1>1, <1>8, <1>9
<1>11. ColourCodeAt(s, i) = IF p <= Len(s) /\ s[p] = "m" THEN p - i + 1 ELSE 0
  BY <1>6, <1>10 DEF ColourCodeAt
<1>12. p <= Len(s) /\ s[p] = "m" /\ ColourCodeAt(s, i) = p - i + 1
  BY <1>5, <1>11
<1>13. i + 1 < p /\ p \in i..Len(s)
  BY <1>1, <1>8, <1>12
<1>14. \A k \in i + 2..p - 1 : s[k] \in Digits
  BY <1>8, <1>9, <1>10
<1>15. IsColour(s, i, p)
  BY <1>3, <1>7, <1>12, <1>13, <1>14 DEF IsColour
<1> QED BY <1>3, <1>5, <1>12, <1>13, <1>15

(* The first pass sets off colours, and keeps other codes complete.           *)
LEMMA ProtectedSemi ==
  ASSUME NEW s \in Text, Unmarked(s), Complete(s)
  PROVE  SemiNeat(s) /\ Protecting(s, TRUE) \in Text /\ SemiNeat(Protecting(s, TRUE))
<1>1. PICK N \in Nat : N = Len(s) /\ \A n \in 1..N : s[n] \in Char
  BY Characters
<1>2. PICK length \in [1..Len(s) -> Nat] :
        length = [i \in 1..Len(s) |-> ProtectedAt(s, i, TRUE)] /\ Matches(s, length)
  BY ProtectedMatches
<1>3. PICK by \in [1..Len(s) -> Text] :
        by = [i \in 1..Len(s) |-> SetOff(SubSeq(s, i, i + length[i] - 1))]
  BY <1>2, SettingOff
<1>4. Protecting(s, TRUE) = Replaced(s, length, by)
  <2>1. by = [i \in 1..Len(s) |-> SetOff(SubSeq(s, i, i + ProtectedAt(s, i, TRUE) - 1))]
    BY <1>2, <1>3
  <2> QED BY <1>2, <2>1, UnmarkedReplaced DEF Protecting
<1>5. PICK r \in [0..N -> Copying] :
           /\ r[0] = [text |-> <<>>, upto |-> 0]
           /\ \A n \in 1..N : r[n] = Copied(r[n - 1], n, s, length, by)
           /\ Replaced(s, length, by) = r[N].text
  BY <1>1, <1>2, ReplacedLoop
<1>6. SemiNeat(s)
  <2> SUFFICES ASSUME NEW k \in 1..Len(s)
               PROVE  /\ s[k] \notin {"START", "END"}
                      /\ s[k] = "ESC" => \E j \in 1..Len(s) : Sequence(s, k, j)
    BY DEF SemiNeat
  <2>1. s[k] = "ESC" => UnwantedAt(s, k) # 0
    BY DEF Complete
  <2>2. s[k] = "ESC" => \E j \in 1..Len(s) : Sequence(s, k, j)
    BY <2>1, SequenceMatched
  <2> QED BY <2>2 DEF Unmarked
<1> DEFINE Right(n) == /\ n <= r[n].upto /\ r[n].upto <= N
                       /\ SemiNeat(WithRest(r[n].text, s, r[n].upto + 1))
           G == {n \in Nat : n <= N => Right(n)}
<1>7. Right(0)
  <2>1. WithRest(<<>>, s, 0 + 1) = s
    <3>1. From(s, 0 + 1) = s
      BY SubSeqFull DEF From, Text
    <3>2. <<>> \o s = s
      <4>1. s \in Seq(Char)
        BY DEF Text
      <4> QED BY <4>1, ConcatEmptySeq
    <3> QED BY <3>1, <3>2 DEF WithRest
  <2> QED BY <1>5, <1>6, <2>1
<1>8. ASSUME NEW n \in 1..N, Right(n - 1) PROVE Right(n)
  <2>1. PICK text \in Text, upto \in Nat :
          /\ text = r[n - 1].text /\ upto = r[n - 1].upto
          /\ n - 1 <= upto /\ upto <= N /\ SemiNeat(WithRest(text, s, upto + 1))
    <3>1. n - 1 \in 0..N
      OBVIOUS
    <3>2. r[n - 1].text \in Text /\ r[n - 1].upto \in Nat
      BY <1>5, <3>1 DEF Copying
    <3> QED BY <1>8, <3>2
  <2>2. r[n] = IF n <= upto THEN r[n - 1]
               ELSE IF length[n] = 0 THEN [text |-> Append(text, s[n]), upto |-> n]
               ELSE [text |-> text \o by[n], upto |-> n + length[n] - 1]
    BY <1>5, <2>1 DEF Copied
  <2>3. n \in 1..Len(s) /\ length[n] \in Nat
    BY <1>1, <1>2 DEF Matches
  <2>4. CASE n <= upto
    <3>1. r[n] = r[n - 1]
      BY <2>2, <2>4
    <3> QED BY <2>1, <2>4, <3>1
  <2>5. CASE ~(n <= upto)
    <3>1. upto + 1 = n
      BY <2>1, <2>5
    <3>2. SemiNeat(WithRest(text, s, n))
      BY <2>1, <3>1
    <3>3. CASE length[n] = 0
      <4>1. r[n].text = Append(text, s[n]) /\ r[n].upto = n
        BY <2>2, <2>5, <3>3
      <4>2. WithRest(Append(text, s[n]), s, n + 1) = WithRest(text, s, n)
        BY <2>3, RestCopied
      <4> QED BY <3>2, <4>1, <4>2
    <3>4. CASE length[n] # 0
      <4>1. ProtectedAt(s, n, TRUE) # 0 /\ length[n] = ProtectedAt(s, n, TRUE)
        BY <1>2, <2>3, <3>4
      <4>2. s[n] = "ESC"
        BY <4>1 DEF ProtectedAt, ColourCodeAt, IsSequenceAt
      <4>3. UnwantedAt(s, n) # 0
        BY <2>3, <4>2 DEF Complete
      <4>4. PICK p \in n..Len(s) : IsColour(s, n, p) /\ length[n] = p - n + 1
        BY <2>3, <4>1, <4>3, ColourProtected
      <4>5. n + length[n] - 1 = p
        BY <1>1, <4>4
      <4>6. by[n] = SetOff(SubSeq(s, n, p))
        BY <1>3, <2>3, <4>5
      <4>7. r[n].text = text \o SetOff(SubSeq(s, n, p)) /\ r[n].upto = p
        BY <2>2, <2>5, <3>4, <4>5, <4>6
      <4>8. PICK x \in Text, y \in Text, L \in Nat, M \in Nat :
              /\ x = WithRest(text, s, n)
              /\ y = WithRest(text \o SetOff(SubSeq(s, n, p)), s, p + 1)
              /\ L = Len(text) /\ M = p - n + 1 /\ MarkedAt(x, y, L, M)
        <5>1. Len(text) \in Nat /\ p - n + 1 \in Nat
          BY <1>1, Characters
        <5>2. /\ MarkedAt(WithRest(text, s, n),
                          WithRest(text \o SetOff(SubSeq(s, n, p)), s, p + 1),
                          Len(text), p - n + 1)
              /\ WithRest(text, s, n) \in Text
              /\ WithRest(text \o SetOff(SubSeq(s, n, p)), s, p + 1) \in Text
          BY <2>3, RestMarked
        <5> QED BY <5>1, <5>2
      <4>9. Len(x) = L + (N - n + 1) /\ \A i \in 1..N - n + 1 : x[L + i] = s[n + i - 1]
        <5>1. PICK m \in 1..Len(s) + 1 : m = n
          BY <1>1
        <5>2. /\ WithRest(text, s, m) \in Text /\ Len(text) \in Nat /\ Len(s) \in Nat
              /\ Len(WithRest(text, s, m)) = Len(text) + (Len(s) - m + 1)
              /\ \A i \in 1..Len(text) : WithRest(text, s, m)[i] = text[i]
              /\ \A i \in 1..Len(s) - m + 1 : WithRest(text, s, m)[Len(text) + i] = s[m + i - 1]
          BY Rest
        <5> QED BY <1>1, <4>8, <5>1, <5>2
      <4>10. \A k \in n..N : x[k + (L - n + 1)] = s[k]
        <5> SUFFICES ASSUME NEW k \in n..N PROVE x[k + (L - n + 1)] = s[k]
          OBVIOUS
        <5>1. PICK i \in 1..N - n + 1 : i = k - n + 1 /\ n + i - 1 = k /\ L + i = k + (L - n + 1)
          <6>1. /\ k - n + 1 \in 1..N - n + 1 /\ n + (k - n + 1) - 1 = k
                /\ L + (k - n + 1) = k + (L - n + 1)
            OBVIOUS
          <6> QED BY <6>1
        <5> QED BY <4>9, <5>1
      <4>11. IsColour(x, L + 1, L + M)
        <5>1. PICK d \in Int : d = L - n + 1
          OBVIOUS
        <5>2. \A k \in n..p : x[k + d] = s[k]
          BY <1>1, <4>10, <5>1
        <5>3. PICK i \in Int, j \in Int : i = n /\ j = p /\ IsColour(s, i, j)
          BY <1>1, <4>4
        <5>5. IsColour(x, i + d, j + d)
          BY <5>2, <5>3, ColourShifted
        <5>4. n + d = L + 1 /\ p + d = L + M
          BY <1>1, <4>8, <5>1
        <5> QED BY <5>3, <5>4, <5>5
      <4>12. \A k \in L + 1..Len(x) : x[k] \notin {"START", "END"}
        <5> SUFFICES ASSUME NEW k \in L + 1..Len(x) PROVE x[k] \notin {"START", "END"}
          OBVIOUS
        <5>1. PICK q \in n..N : k = q + (L - n + 1)
          <6>1. k - (L - n + 1) \in n..N /\ k = (k - (L - n + 1)) + (L - n + 1)
            BY <4>9
          <6> QED BY <6>1
        <5>2. x[k] = s[q] /\ q \in 1..Len(s)
          BY <1>1, <4>10, <5>1
        <5> QED BY <5>2 DEF Unmarked
      <4>13. SemiNeat(y)
        <5>1. SemiNeat(x) /\ MarkedAt(x, y, L, M)
          BY <3>2, <4>8
        <5> QED BY <4>11, <4>12, <5>1, MarkingKeeps
      <4>14. n <= p /\ p <= N
        BY <1>1
      <4> QED BY <4>7, <4>8, <4>13, <4>14
    <3> QED BY <3>3, <3>4
  <2> QED BY <2>4, <2>5
<1> HIDE DEF Right
<1>9. 0 \in G /\ \A n \in 1..N : n - 1 \in G => n \in G
  BY <1>7, <1>8
<1> HIDE DEF G
<1>10. 0..N \subseteq G
  BY <1>9, Steps
<1>11. Right(N)
  BY <1>10 DEF G
<1>12. PICK text \in Text, upto \in Nat : text = r[N].text /\ upto = r[N].upto
  <2>1. r[N].text \in Text /\ r[N].upto \in Nat
    BY <1>5 DEF Copying
  <2> QED BY <2>1
<1>13. upto = N /\ SemiNeat(WithRest(text, s, upto + 1))
  BY <1>11, <1>12 DEF Right
<1>14. WithRest(text, s, N + 1) = text
  <2>1. PICK m \in 1..Len(s) + 1 : m = N + 1
    BY <1>1
  <2>2. /\ WithRest(text, s, m) \in Text /\ Len(text) \in Nat /\ Len(s) \in Nat
        /\ Len(WithRest(text, s, m)) = Len(text) + (Len(s) - m + 1)
        /\ \A i \in 1..Len(text) : WithRest(text, s, m)[i] = text[i]
        /\ \A i \in 1..Len(s) - m + 1 : WithRest(text, s, m)[Len(text) + i] = s[m + i - 1]
    BY Rest
  <2>3. PICK x \in Text : x = WithRest(text, s, m)
    BY <2>2
  <2>4. Len(x) = Len(text) /\ \A i \in 1..Len(x) : x[i] = text[i]
    BY <1>1, <2>1, <2>2, <2>3
  <2>5. x \in Seq(Char) /\ text \in Seq(Char)
    BY DEF Text
  <2>6. x = text
    BY <2>4, <2>5, SeqEqual
  <2> QED BY <2>1, <2>3, <2>6
<1> QED BY <1>4, <1>5, <1>6, <1>12, <1>13, <1>14

(* protect_or_cleanup() leaves colours that are set off, and no other codes.   *)
LEMMA CodesProtected ==
  ASSUME NEW s \in Text, Unmarked(s), Complete(s)
  PROVE  protect_or_cleanup(s) \in Text /\ Neat(protect_or_cleanup(s))
<1>1. PICK keep \in BOOLEAN : protect_or_cleanup(s) = Cleaning(Protecting(s, keep))
  BY TwoPasses
<1>2. CASE keep = TRUE
  BY <1>1, <1>2, ProtectedSemi, SemiCleaned
<1>3. CASE keep = FALSE
  <2>1. ASSUME NEW i \in 1..Len(s) PROVE ProtectedAt(s, i, FALSE) = 0
    <3> SUFFICES ASSUME i < Len(s), s[i] = "ESC", s[i + 1] = "ESC" PROVE FALSE
      BY DEF ProtectedAt
    <3>1. PICK N \in Nat : N = Len(s)
      BY Characters
    <3>2. PICK e \in 1..Len(s) : Sequence(s, i, e)
      BY SequenceMatched DEF Complete
    <3>3. i < e /\ \A k \in i + 1..e : s[k] \notin {"ESC", "START", "END"}
      BY <3>1, <3>2, SequenceInside
    <3>4. i + 1 \in i + 1..e
      BY <3>1, <3>3
    <3> QED BY <3>3, <3>4
  <2>2. Protecting(s, FALSE) = s
    BY <2>1, NothingProtected
  <2> QED BY <1>1, <1>3, <2>2, ProtectedSemi, SemiCleaned
<1> QED BY <1>2, <1>3

-----------------------------------------------------------------------------
(* The terminal *)

(* The integer division of move_cursor_to_start_of_prompt(). *)
LEMMA Quotient ==
  ASSUME NEW q \in Nat, NEW d \in Nat \ {0}, NEW r \in 0..d - 1
  PROVE  (q * d + r) \div d = q
OBVIOUS

Cursors == [row : Nat, col : Nat, one_row : BOOLEAN]

(* The terminal after one more character. *)
Wrote(t, c) ==
  IF c = "CR" THEN [t EXCEPT !.col = 0, !.one_row = @ /\ t.row = 0]
  ELSE IF c = "BS"
    THEN [t EXCEPT !.col = Larger(0, @ - 1), !.one_row = @ /\ t.row = 0 /\ t.col < ws_col]
  ELSE IF t.col = ws_col THEN [t EXCEPT !.row = @ + 1, !.col = 1]
  ELSE [t EXCEPT !.col = @ + 1]

Unseen(s) == InColour(s) \cup {k \in 1..Len(s) : s[k] \in {"START", "END"}}

(* t[n] is the terminal after n characters. *)
Writing(t, s) ==
  /\ t \in [0..Len(s) -> Cursors]
  /\ t[0] = [row |-> 0, col |-> 0, one_row |-> TRUE]
  /\ \A n \in 1..Len(s) : t[n] = IF n \in Unseen(s) THEN t[n - 1] ELSE Wrote(t[n - 1], s[n])

(* What is written leaves the cursor in some row and column.                 *)
LEMMA WroteType ==
  ASSUME NEW t \in Cursors, NEW c
  PROVE  Wrote(t, c) \in Cursors
<1>1. PICK row \in Nat, col \in Nat, one \in BOOLEAN :
        /\ row = t.row /\ col = t.col /\ one = t.one_row
        /\ t = [row |-> row, col |-> col, one_row |-> one]
  BY DEF Cursors
<1>2. PICK o1 \in BOOLEAN, o2 \in BOOLEAN :
        /\ o1 = (t.one_row /\ t.row = 0) /\ o2 = (t.one_row /\ t.row = 0 /\ t.col < ws_col)
  <2>1. /\ (t.one_row /\ t.row = 0) \in BOOLEAN
        /\ (t.one_row /\ t.row = 0 /\ t.col < ws_col) \in BOOLEAN
    OBVIOUS
  <2> QED BY <2>1
<1>3. PICK back \in Nat : back = Larger(0, t.col - 1)
  BY <1>1 DEF Larger
<1>4. CASE c = "CR"
  <2>1. PICK zero \in Nat : Wrote(t, c) = [t EXCEPT !.col = zero, !.one_row = o1]
    BY <1>2, <1>4 DEF Wrote
  <2> QED BY <2>1 DEF Cursors
<1>5. CASE c = "BS"
  <2>1. Wrote(t, c) = [t EXCEPT !.col = back, !.one_row = o2]
    BY <1>2, <1>3, <1>5 DEF Wrote
  <2> QED BY <2>1 DEF Cursors
<1>6. CASE c \notin {"CR", "BS"} /\ t.col = ws_col
  <2>1. PICK next \in Nat, one1 \in Nat : next = row + 1 /\ one1 = 1
    OBVIOUS
  <2>2. Wrote(t, c) = [t EXCEPT !.row = next, !.col = one1]
    BY <1>1, <1>6, <2>1 DEF Wrote
  <2> QED BY <2>2 DEF Cursors
<1>7. CASE c \notin {"CR", "BS"} /\ t.col # ws_col
  <2>1. Wrote(t, c) = [t EXCEPT !.col = col + 1]
    BY <1>1, <1>7 DEF Wrote
  <2>2. col + 1 \in Nat
    OBVIOUS
  <2> QED BY <2>1, <2>2 DEF Cursors
<1> QED BY <1>4, <1>5, <1>6, <1>7

(* AfterWriting() is what the loop computes.                                 *)
LEMMA WritingEnds ==
  ASSUME NEW s, Len(s) \in Nat
  PROVE  \E t : Writing(t, s) /\ AfterWriting(s) = t[Len(s)]
<1> DEFINE unseen == InColour(s) \cup {k \in 1..Len(s) : s[k] \in {"START", "END"}}
           t[n \in 0..Len(s)] ==
             IF n = 0 THEN [row |-> 0, col |-> 0, one_row |-> TRUE]
             ELSE LET before == t[n - 1]
                  IN  IF n \in unseen THEN before
                      ELSE IF s[n] = "CR"
                        THEN [before EXCEPT !.col = 0, !.one_row = @ /\ before.row = 0]
                      ELSE IF s[n] = "BS"
                        THEN [before EXCEPT !.col = Larger(0, @ - 1),
                                            !.one_row = @ /\ before.row = 0 /\ before.col < ws_col]
                      ELSE IF before.col = ws_col
                        THEN [before EXCEPT !.row = @ + 1, !.col = 1]
                      ELSE [before EXCEPT !.col = @ + 1]
<1>1. PICK N \in Nat : N = Len(s)
  OBVIOUS
<1> DEFINE F(n, r) == IF n \in Unseen(s) THEN r ELSE Wrote(r, s[n])
<1>2. PICK base \in Cursors : base = [row |-> 0, col |-> 0, one_row |-> TRUE]
  BY DEF Cursors
<1>3. PICK step \in [1..N -> [Cursors -> Cursors]] :
        \A n \in 1..N, r \in Cursors : step[n][r] = F(n, r)
  <2>1. ASSUME NEW n \in 1..N, NEW r \in Cursors PROVE F(n, r) \in Cursors
    BY WroteType
  <2> HIDE DEF F
  <2>2. [n \in 1..N |-> [r \in Cursors |-> F(n, r)]] \in [1..N -> [Cursors -> Cursors]]
    BY <2>1
  <2> QED BY <2>2
<1>4. PICK g \in [0..N -> Cursors] : Loop(g, base, step, N)
  BY LoopsEnd
<1>5. g[0] = base /\ \A n \in 1..N : g[n] = F(n, g[n - 1])
  <2>1. \A n \in 1..N : n - 1 \in 0..N
    OBVIOUS
  <2> HIDE DEF F
  <2> QED BY <1>3, <1>4, <2>1 DEF Loop
<1>6. g = [n \in 0..N |-> IF n = 0 THEN [row |-> 0, col |-> 0, one_row |-> TRUE]
                          ELSE F(n, g[n - 1])]
  <2> HIDE DEF F
  <2> QED BY <1>2, <1>5
<1>7. t = [n \in 0..N |-> IF n = 0 THEN [row |-> 0, col |-> 0, one_row |-> TRUE]
                          ELSE F(n, t[n - 1])]
  BY <1>1, <1>6 DEF Wrote, Unseen
<1>8. AfterWriting(s) = t[N]
  BY <1>1 DEF AfterWriting
<1> HIDE DEF t, F
<1> DEFINE G == {n \in Nat : n <= N => t[n] = g[n]}
<1>9. 0 \in G
  BY <1>2, <1>5, <1>7
<1>10. \A n \in 1..N : n - 1 \in G => n \in G
  <2> SUFFICES ASSUME NEW n \in 1..N, t[n - 1] = g[n - 1] PROVE t[n] = g[n]
    OBVIOUS
  <2>1. t[n] = F(n, t[n - 1])
    <3>1. n \in 0..N /\ n # 0
      OBVIOUS
    <3> QED BY <1>7, <3>1
  <2> QED BY <1>5, <2>1
<1> HIDE DEF G
<1>11. 0..N \subseteq G
  BY <1>9, <1>10, Steps
<1>12. t[N] = g[N]
  BY <1>11 DEF G
<1>13. Writing(g, s)
  BY <1>1, <1>2, <1>4, <1>5 DEF Writing, F
<1> QED BY <1>1, <1>8, <1>12, <1>13

(* The terminal and rlwrap agree on where the cursor is, as long as           *)
(* backspaces stay within the first row.                                     *)
Placed(t, cells) ==
  t.one_row => /\ t.row * ws_col + t.col = Len(cells) /\ t.col <= ws_col
               /\ t.row > 0 => t.col >= 1

(* One more character moves the cursor as it fills the cells.                *)
LEMMA WrotePlaced ==
  ASSUME ws_col \in Nat \ {0}, NEW t \in Cursors, NEW cells \in Text, Placed(t, cells),
         NEW c \in Char
  PROVE  Placed(Wrote(t, c), Filled(cells, c))
<1>1. PICK w \in Nat \ {0}, row \in Nat, col \in Nat, L \in Nat, P \in Nat :
        /\ w = ws_col /\ row = t.row /\ col = t.col /\ L = Len(cells) /\ P = row * w
        /\ (row = 0 => P = 0) /\ (row + 1) * w = P + w
  <2>1. ws_col \in Nat \ {0} /\ t.row \in Nat /\ t.col \in Nat /\ Len(cells) \in Nat
    BY Characters DEF Cursors
  <2>2. PICK w \in Nat \ {0}, row \in Nat, col \in Nat, L \in Nat :
          w = ws_col /\ row = t.row /\ col = t.col /\ L = Len(cells)
    BY <2>1
  <2>3. row * w \in Nat /\ (row + 1) * w = row * w + w /\ (row = 0 => row * w = 0)
    OBVIOUS
  <2> QED BY <2>2, <2>3
<1>2. PICK u \in Cursors : u = Wrote(t, c)
  BY WroteType
<1> SUFFICES ASSUME u.one_row
             PROVE  /\ u.row * w + u.col = Len(Filled(cells, c)) /\ u.col <= w
                    /\ u.row > 0 => u.col >= 1
  BY <1>1, <1>2 DEF Placed
<1>3. CASE c = "CR"
  <2>1. PICK zero \in Nat, o \in BOOLEAN : /\ o = (t.one_row /\ t.row = 0) /\ zero = 0
                               /\ u = [t EXCEPT !.col = zero, !.one_row = o]
    BY <1>2, <1>3 DEF Wrote
  <2>2. u.row = row /\ u.col = 0 /\ u.one_row = o
    BY <1>1, <2>1 DEF Cursors
  <2>3. row = 0
    BY <1>1, <2>1, <2>2
  <2>4. Filled(cells, c) = <<>> /\ Len(<<>>) = 0
    BY <1>3, EmptySeq DEF Filled
  <2> QED BY <1>1, <2>2, <2>3, <2>4
<1>4. CASE c = "BS"
  <2>1. PICK back \in Nat : /\ back = Larger(0, t.col - 1)
                            /\ col > 0 => back = col - 1
                            /\ col = 0 => back = 0
    <3>0. t.col = col
      BY <1>1
    <3>1. CASE col > 0
      <4>1. Larger(0, t.col - 1) = col - 1 /\ col - 1 \in Nat
        BY <3>0, <3>1 DEF Larger
      <4> QED BY <3>1, <4>1
    <3>2. CASE col = 0
      <4>1. Larger(0, t.col - 1) = 0 /\ 0 \in Nat
        BY <3>0, <3>2 DEF Larger
      <4> QED BY <3>2, <4>1
    <3> QED BY <3>1, <3>2
  <2>2. PICK o : /\ o = (t.one_row /\ t.row = 0 /\ t.col < ws_col)
                 /\ u = [t EXCEPT !.col = back, !.one_row = o]
    BY <1>2, <1>4, <2>1 DEF Wrote
  <2>3. u.row = row /\ u.col = back /\ u.one_row = o
    BY <1>1, <2>2 DEF Cursors
  <2>4. row = 0 /\ t.one_row /\ col < w
    BY <1>1, <2>2, <2>3
  <2>5. L = col
    BY <1>1, <2>4 DEF Placed
  <2>6. Len(Filled(cells, c)) = IF L > 0 THEN L - 1 ELSE 0
    <3>1. Filled(cells, c) = WithoutLast(cells)
      BY <1>4 DEF Filled
    <3>2. CASE cells = <<>>
      BY <1>1, <3>1, <3>2, EmptySeq DEF WithoutLast
    <3>3. CASE cells # <<>>
      <4>1. L # 0
        BY <1>1, <3>3, EmptySeq DEF Text
      <4>2. PICK one \in Nat \ {0}, b \in Int :
              one = 1 /\ b = L - 1 /\ b <= Len(cells)
        <5>1. 1 \in Nat \ {0} /\ L - 1 \in Int /\ L - 1 <= Len(cells)
          BY <1>1
        <5> QED BY <5>1
      <4>3. /\ SubSeq(cells, one, b) \in Text /\ Len(cells) \in Nat
            /\ Len(SubSeq(cells, one, b)) = IF one <= b THEN b - one + 1 ELSE 0
            /\ \A i \in 1..b - one + 1 : SubSeq(cells, one, b)[i] = cells[one + i - 1]
        BY <4>2, Piece
      <4>4. Filled(cells, c) = SubSeq(cells, one, b)
        BY <1>1, <3>1, <3>3, <4>2 DEF WithoutLast, Front
      <4> QED BY <4>1, <4>2, <4>3, <4>4
    <3> QED BY <3>2, <3>3
  <2> QED BY <1>1, <2>1, <2>3, <2>4, <2>5, <2>6
<1>5. CASE c \notin {"CR", "BS"}
  <2>1. Len(Filled(cells, c)) = L + 1
    <3>1. Filled(cells, c) = Append(cells, c)
      BY <1>5 DEF Filled
    <3> QED BY <1>1, <3>1, OneMore
  <2>2. CASE col = w
    <3>1. PICK next \in Nat, one \in Nat : next = row + 1 /\ one = 1
      OBVIOUS
    <3>2. u = [t EXCEPT !.row = next, !.col = one]
      BY <1>1, <1>2, <1>5, <2>2, <3>1 DEF Wrote
    <3>3. u.row = row + 1 /\ u.col = 1 /\ u.one_row = t.one_row
      BY <3>1, <3>2 DEF Cursors
    <3>4. P + col = L
      BY <1>1, <3>3 DEF Placed
    <3>5. u.row * w = P + w
      BY <1>1, <3>3
    <3>6. P + w = L
      BY <2>2, <3>4
    <3>7. u.row * w + u.col = L + 1
      BY <3>3, <3>5, <3>6
    <3>8. w \in Nat \ {0}
      BY <1>1
    <3> QED BY <2>1, <3>3, <3>7, <3>8
  <2>3. CASE col # w
    <3>1. PICK next \in Nat : next = col + 1
      OBVIOUS
    <3>2. u = [t EXCEPT !.col = next]
      BY <1>1, <1>2, <1>5, <2>3, <3>1 DEF Wrote
    <3>3. u.row = row /\ u.col = col + 1 /\ u.one_row = t.one_row
      BY <1>1, <3>1, <3>2 DEF Cursors
    <3>4. P + col = L /\ col <= w
      BY <1>1, <3>3 DEF Placed
    <3>5. u.row * w = P
      BY <1>1, <3>3
    <3>6. P \in Nat /\ col \in Nat /\ w \in Nat /\ L \in Nat
      BY <1>1
    <3>7. P + (col + 1) = L + 1 /\ col + 1 <= w /\ col + 1 >= 1
      BY <2>3, <3>4, <3>6
    <3>8. u.row * w + u.col = L + 1
      BY <3>3, <3>5, <3>7
    <3> QED BY <2>1, <3>3, <3>7, <3>8
  <2> QED BY <2>2, <2>3
<1> QED BY <1>3, <1>4, <1>5

(* So it does throughout a text.                                             *)
LEMMA CursorPlaced ==
  ASSUME ws_col \in Nat \ {0}, NEW s \in Text, NEW g, Fills(g, s, Unseen(s))
  PROVE  AfterWriting(s) \in Cursors /\ g[Len(s)] \in Text /\ Placed(AfterWriting(s), g[Len(s)])
<1>1. PICK N \in Nat : N = Len(s) /\ \A n \in 1..N : s[n] \in Char
  BY Characters
<1>2. PICK t : Writing(t, s) /\ AfterWriting(s) = t[Len(s)]
  BY <1>1, WritingEnds
<1>3. /\ t \in [0..N -> Cursors] /\ t[0] = [row |-> 0, col |-> 0, one_row |-> TRUE]
      /\ \A n \in 1..N : t[n] = IF n \in Unseen(s) THEN t[n - 1] ELSE Wrote(t[n - 1], s[n])
  BY <1>1, <1>2 DEF Writing
<1>4. /\ g \in [0..N -> Text] /\ g[0] = <<>>
      /\ \A n \in 1..N : g[n] = IF n \in Unseen(s) THEN g[n - 1] ELSE Filled(g[n - 1], s[n])
  BY <1>1 DEF Fills
<1> DEFINE G == {n \in Nat : n <= N => Placed(t[n], g[n])}
<1>5. 0 \in G
  <2>1. Len(<<>>) = 0
    BY EmptySeq
  <2>2. PICK w \in Nat : w = ws_col
    OBVIOUS
  <2>3. t[0].row = 0 /\ t[0].col = 0
    BY <1>3
  <2>4. t[0].row * ws_col + t[0].col = Len(g[0])
    BY <1>4, <2>1, <2>2, <2>3
  <2> QED BY <2>2, <2>3, <2>4 DEF Placed
<1>6. ASSUME NEW n \in 1..N, n - 1 \in G PROVE n \in G
  <2>1. PICK u \in Cursors, cells \in Text, c \in Char :
          u = t[n - 1] /\ cells = g[n - 1] /\ c = s[n] /\ Placed(u, cells)
    BY <1>1, <1>3, <1>4, <1>6
  <2>2. CASE n \in Unseen(s)
    BY <1>3, <1>4, <2>1, <2>2
  <2>3. CASE n \notin Unseen(s)
    <3>1. Placed(Wrote(u, c), Filled(cells, c))
      BY <2>1, WrotePlaced
    <3> QED BY <1>3, <1>4, <2>1, <2>3, <3>1
  <2> QED BY <2>2, <2>3
<1> HIDE DEF G
<1>7. 0..N \subseteq G
  BY <1>5, <1>6, Steps
<1>8. Placed(t[N], g[N])
  BY <1>7 DEF G
<1> QED BY <1>1, <1>2, <1>3, <1>4, <1>8

(* The letter that the user types goes into the next cell.                    *)
LEMMA LetterWritten ==
  ASSUME NEW s \in Text
  PROVE  AfterWriting(Append(s, "a")) = Wrote(AfterWriting(s), "a")
<1>1. PICK N \in Nat : N = Len(s)
  BY Characters
<1>2. PICK u : /\ u = Append(s, "a") /\ Len(u) = N + 1 /\ u[N + 1] = "a"
               /\ \A i \in 1..N : u[i] = s[i]
  <2>1. PICK S, c : c \in S /\ S = Char \cup {"a"} /\ c = "a"
    OBVIOUS
  <2>2. s \in Seq(S)
    <3>1. \A i \in 1..N : s[i] \in S
      BY <1>1, <2>1, Characters
    <3>2. s \in Seq(Char)
      BY DEF Text
    <3> QED BY <1>1, <3>1, <3>2, LenProperties
  <2>3. /\ Append(s, c) \in Seq(S) /\ Len(Append(s, c)) = Len(s) + 1
        /\ \A i \in 1..Len(s) : Append(s, c)[i] = s[i]
        /\ Append(s, c)[Len(s) + 1] = c
    BY <2>1, <2>2, AppendProperties
  <2> QED BY <1>1, <2>1, <2>3
<1>3. ASSUME NEW i \in Int, NEW j \in Int, j \in 1..N, i \in 1..j
      PROVE  IsColour(u, i, j) <=> IsColour(s, i, j)
  <2>1. \A k \in i..j : u[k + 0] = s[k]
    BY <1>2, <1>3
  <2>2. \A k \in i..j : s[k + 0] = u[k]
    BY <1>2, <1>3
  <2>3. PICK d \in Int : d = 0 /\ i + d = i /\ j + d = j
    <3>1. 0 \in Int /\ i + 0 = i /\ j + 0 = j
      OBVIOUS
    <3> QED BY <3>1
  <2>4. IsColour(s, i, j) => IsColour(u, i + d, j + d)
    BY <2>1, <2>3, ColourShifted
  <2>5. IsColour(u, i, j) => IsColour(s, i + d, j + d)
    BY <2>2, <2>3, ColourShifted
  <2> QED BY <2>3, <2>4, <2>5
<1>4. ASSUME NEW i \in 1..N + 1, NEW j \in 1..N + 1, IsColour(u, i, j) PROVE j \in 1..N
  <2>1. u[j] = "m"
    BY <1>4 DEF IsColour
  <2>2. j # N + 1
    BY <1>2, <2>1
  <2> QED BY <2>2
<1>5. ASSUME NEW n \in 1..N PROVE n \in InColour(u) <=> n \in InColour(s)
  <2>1. ASSUME NEW i \in 1..n, u[i] = "ESC", NEW j \in n..N + 1, IsColour(u, i, j)
        PROVE  n \in InColour(s)
    <3>1. i \in 1..N + 1 /\ j \in 1..N + 1
      OBVIOUS
    <3>2. j \in 1..N
      BY <1>4, <2>1, <3>1
    <3>3. i \in Int /\ j \in Int /\ i \in 1..j /\ i \in 1..N /\ j \in n..Len(s) /\ n \in 1..Len(s)
      BY <1>1, <3>2
    <3>4. IsColour(s, i, j) /\ s[i] = "ESC"
      BY <1>2, <1>3, <2>1, <3>2, <3>3
    <3> QED BY <3>3, <3>4 DEF InColour
  <2>2. ASSUME NEW i \in 1..n, s[i] = "ESC", NEW j \in n..N, IsColour(s, i, j)
        PROVE  n \in InColour(u)
    <3>1. /\ i \in Int /\ j \in Int /\ i \in 1..j /\ i \in 1..N /\ j \in 1..N
          /\ j \in n..Len(u) /\ n \in 1..Len(u)
      BY <1>2
    <3>2. IsColour(u, i, j) /\ u[i] = "ESC"
      BY <1>2, <1>3, <2>2, <3>1
    <3> QED BY <3>1, <3>2 DEF InColour
  <2> QED BY <1>1, <1>2, <2>1, <2>2 DEF InColour
<1>6. N + 1 \notin InColour(u)
  <2> SUFFICES ASSUME NEW i \in 1..N + 1, NEW j \in N + 1..N + 1, IsColour(u, i, j) PROVE FALSE
    BY <1>2 DEF InColour
  <2>1. j \in 1..N + 1
    OBVIOUS
  <2>2. j \in 1..N
    BY <1>4, <2>1
  <2> QED BY <2>2
<1>7. /\ \A n \in 1..N : n \in Unseen(u) <=> n \in Unseen(s)
      /\ N + 1 \notin Unseen(u)
  <2>1. \A n \in 1..N : n \in 1..Len(u) /\ n \in 1..Len(s)
    BY <1>1, <1>2
  <2> QED BY <1>2, <1>5, <1>6, <2>1 DEF Unseen
<1>8. Len(s) \in Nat /\ Len(u) \in Nat
  BY <1>1, <1>2
<1>9. PICK t : Writing(t, s) /\ AfterWriting(s) = t[Len(s)]
  BY <1>8, WritingEnds
<1>10. PICK v : Writing(v, u) /\ AfterWriting(u) = v[Len(u)]
  BY <1>8, WritingEnds
<1> DEFINE G == {n \in Nat : n <= N => t[n] = v[n]}
<1>11. 0 \in G
  BY <1>9, <1>10 DEF Writing
<1>12. ASSUME NEW n \in 1..N, n - 1 \in G PROVE n \in G
  <2>1. n \in 1..Len(s) /\ n \in 1..Len(u) /\ t[n - 1] = v[n - 1]
    BY <1>1, <1>2, <1>12
  <2>2. t[n] = IF n \in Unseen(s) THEN t[n - 1] ELSE Wrote(t[n - 1], s[n])
    BY <1>9, <2>1 DEF Writing
  <2>3. v[n] = IF n \in Unseen(u) THEN v[n - 1] ELSE Wrote(v[n - 1], u[n])
    BY <1>10, <2>1 DEF Writing
  <2>4. n \in Unseen(u) <=> n \in Unseen(s)
    BY <1>7
  <2>5. u[n] = s[n]
    BY <1>2
  <2>6. t[n] = v[n]
    BY <2>1, <2>2, <2>3, <2>4, <2>5
  <2> QED BY <2>6
<1> HIDE DEF G
<1>13. 0..N \subseteq G
  BY <1>11, <1>12, Steps
<1>14. t[N] = v[N]
  BY <1>13 DEF G
<1>15. v[N + 1] = Wrote(v[N], "a")
  <2>1. N + 1 \in 1..Len(u) /\ (N + 1) - 1 = N
    BY <1>2
  <2>2. v[N + 1] = IF N + 1 \in Unseen(u) THEN v[(N + 1) - 1] ELSE Wrote(v[(N + 1) - 1], u[N + 1])
    BY <1>10, <2>1 DEF Writing
  <2> QED BY <1>2, <1>7, <2>1, <2>2
<1> QED BY <1>1, <1>2, <1>9, <1>10, <1>14, <1>15

(* rlwrap goes up as many rows as the terminal has come down.                 *)
LEMMA RowsRight ==
  ASSUME ws_col \in Nat \ {0}, NEW s \in Text, NEW g, Fills(g, s, Unseen(s)),
         Cells(mark_invisible(s)) = g[Len(s)], AfterWriting(s).one_row
  PROVE  /\ RowsUp(s, 0) = AfterWriting(s).row
         /\ RowsUp(s, 1) = AfterWriting(Append(s, "a")).row
<1>1. PICK t \in Cursors, cells \in Text :
        t = AfterWriting(s) /\ cells = g[Len(s)] /\ Placed(t, cells) /\ t.one_row
  BY CursorPlaced
<1>2. PICK w \in Nat \ {0}, row \in Nat, col \in Nat, L \in Nat :
        w = ws_col /\ row = t.row /\ col = t.col /\ L = Len(cells)
  BY Characters DEF Cursors
<1>3. row * w + col = L /\ col <= w /\ (row > 0 => col >= 1)
  BY <1>1, <1>2 DEF Placed
<1>4. colourless_strlen_unmarked(s) = L
  BY <1>1, <1>2 DEF colourless_strlen_unmarked, colourless_strlen
<1>5. RowsUp(s, 0) = IF L + 0 = 0 THEN 0 ELSE (L + 0 - 1) \div w
  BY <1>2, <1>4 DEF RowsUp
<1>6. RowsUp(s, 1) = IF L + 1 = 0 THEN 0 ELSE (L + 1 - 1) \div w
  BY <1>2, <1>4 DEF RowsUp
<1>7. L # 0 => (L - 1) \div w = row
  <2> SUFFICES ASSUME L # 0 PROVE (L - 1) \div w = row
    OBVIOUS
  <2>1. col >= 1
    <3>1. CASE row = 0
      <4>1. row * w = 0
        BY <3>1
      <4> QED BY <1>3, <4>1
    <3>2. CASE row # 0
      BY <1>3, <3>2
    <3> QED BY <3>1, <3>2
  <2>2. PICK r \in 0..w - 1 : r = col - 1
    BY <1>3, <2>1
  <2>3. (row * w + r) \div w = row
    BY Quotient
  <2>4. L - 1 = row * w + r
    <3>1. PICK P \in Nat : P = row * w
      OBVIOUS
    <3>2. P + col = L
      BY <1>3, <3>1
    <3>3. L - 1 = P + r
      BY <2>2, <3>2
    <3> QED BY <3>1, <3>3
  <2> QED BY <2>3, <2>4
<1>8. L = 0 => row = 0
  <2>1. row * w \in Nat
    OBVIOUS
  <2> QED BY <1>3, <2>1
<1>9. L \div w = IF col = w THEN row + 1 ELSE row
  <2>1. CASE col = w
    <3>1. PICK q \in Nat, r \in 0..w - 1 : q = row + 1 /\ r = 0
      <4>1. row + 1 \in Nat /\ 0 \in 0..w - 1
        OBVIOUS
      <4> QED BY <4>1
    <3>2. (q * w + r) \div w = q
      BY Quotient
    <3>3. q * w + r = L
      <4>1. (row + 1) * w = row * w + w
        OBVIOUS
      <4>2. row * w + w = L
        BY <1>3, <2>1
      <4>3. L + 0 = L
        OBVIOUS
      <4> QED BY <3>1, <4>1, <4>2, <4>3
    <3> QED BY <2>1, <3>1, <3>2, <3>3
  <2>2. CASE col # w
    <3>1. col \in 0..w - 1
      BY <1>3, <2>2
    <3>2. (row * w + col) \div w = row
      BY <3>1, Quotient
    <3> QED BY <1>3, <2>2, <3>2
  <2> QED BY <2>1, <2>2
<1>10. AfterWriting(Append(s, "a")).row = IF col = w THEN row + 1 ELSE row
  <2>1. AfterWriting(Append(s, "a")) = Wrote(t, "a")
    BY <1>1, LetterWritten
  <2>2. CASE col = w
    <3>1. PICK next, one : next = row + 1 /\ one = 1
      OBVIOUS
    <3>2. Wrote(t, "a") = [t EXCEPT !.row = next, !.col = one]
      BY <1>2, <2>2, <3>1 DEF Wrote
    <3>3. Wrote(t, "a").row = next
      BY <3>2 DEF Cursors
    <3> QED BY <2>1, <2>2, <3>1, <3>3
  <2>3. CASE col # w
    <3>1. PICK next : next = col + 1
      OBVIOUS
    <3>2. Wrote(t, "a") = [t EXCEPT !.col = next]
      BY <1>2, <2>3, <3>1 DEF Wrote
    <3>3. Wrote(t, "a").row = t.row
      BY <3>2 DEF Cursors
    <3> QED BY <1>2, <2>1, <2>3, <3>3
  <2> QED BY <2>2, <2>3
<1>11. L + 0 = L /\ L + 0 - 1 = L - 1 /\ L + 1 # 0 /\ L + 1 - 1 = L
  OBVIOUS
<1> QED BY <1>1, <1>2, <1>5, <1>6, <1>7, <1>8, <1>9, <1>10, <1>11

(* In a neat text the cells are those of the characters that are seen.         *)
LEMMA NeatFills ==
  ASSUME NEW s \in Text, Neat(s), NEW g, Fills(g, s, Unseen(s))
  PROVE  Cells(s) = g[Len(s)]
<1>1. PICK N \in Nat : N = Len(s) /\ \A n \in 1..N : s[n] \in Char
  BY Characters
<1>2. PICK h : /\ h = Scan(s) /\ Scans(h, s) /\ Cells(s) = h[N].cells
               /\ \A k \in 0..N : h[k] \in Visibles
  BY <1>1, Scanning
<1>3. /\ g \in [0..N -> Text] /\ g[0] = <<>>
      /\ \A n \in 1..N : g[n] = IF n \in Unseen(s) THEN g[n - 1] ELSE Filled(g[n - 1], s[n])
  BY <1>1 DEF Fills
<1>4. ASSUME NEW n \in 1..N, s[n] \notin {"START", "END"}
      PROVE  n \in Unseen(s) <=> ~Outside(s, n - 1)
  <2>0. n \in 1..Len(s)
    BY <1>1
  <2>1. n \in Unseen(s) <=> n \in InColour(s)
    BY <1>4 DEF Unseen
  <2>2. ASSUME NEW i \in 1..n, s[i] = "ESC", NEW j \in n..Len(s), IsColour(s, i, j)
        PROVE  ~Outside(s, n - 1)
    <3>1. i \in 1..Len(s) /\ j \in 1..Len(s)
      BY <1>1
    <3>2. PICK a \in 1..Len(s) : a = i - 1 /\ s[a] = "START"
      BY <2>2, <3>1 DEF Neat
    <3>3. PICK b \in 1..Len(s) : Block(s, a, b)
      BY <3>2 DEF Neat
    <3>4. PICK l \in Int : l = b - 1 /\ IsColour(s, a + 1, l)
      <4>1. b - 1 \in Int
        BY <1>1
      <4> QED BY <3>3, <4>1 DEF Block
    <3>5. a + 1 = i
      BY <1>1, <3>2
    <3>6. l = j
      BY <1>1, <2>2, <3>4, <3>5, ColourEnds
    <3>7. a <= n - 1 /\ n - 1 < b
      BY <1>1, <3>2, <3>4, <3>6
    <3> QED BY <3>3, <3>7 DEF Outside
  <2>3. ASSUME NEW a \in 1..Len(s), NEW b \in 1..Len(s), Block(s, a, b), a <= n - 1, n - 1 < b
        PROVE  n \in InColour(s)
    <3>1. b # n
      BY <1>4, <2>3, BlockEnds
    <3>2. IsColour(s, a + 1, b - 1) /\ s[a + 1] = "ESC"
      BY <2>3 DEF Block, IsColour
    <3>3. a + 1 \in 1..n /\ b - 1 \in n..Len(s)
      BY <1>1, <2>3, <3>1
    <3> QED BY <2>0, <3>2, <3>3 DEF InColour
  <2>4. n \in InColour(s) => ~Outside(s, n - 1)
    BY <2>2 DEF InColour
  <2>5. ~Outside(s, n - 1) => n \in InColour(s)
    BY <2>3 DEF Outside
  <2> QED BY <2>1, <2>4, <2>5
<1> DEFINE G == {n \in Nat : n <= N => g[n] = h[n].cells}
<1>5. 0 \in G
  BY <1>2, <1>3 DEF Scans
<1>6. ASSUME NEW n \in 1..N, n - 1 \in G PROVE n \in G
  <2>0. n - 1 \in 0..N /\ n \in 1..Len(s) /\ n - 1 \in 0..Len(s)
    BY <1>1
  <2>1. PICK r \in Visibles : r = h[n - 1] /\ r.cells = g[n - 1]
    BY <1>2, <1>6, <2>0
  <2>2. h[n] = Seen(r, s[n])
    BY <1>2, <2>0, <2>1 DEF Scans
  <2>3. CASE s[n] \in {"START", "END"}
    <3>1. n \in Unseen(s)
      BY <2>0, <2>3 DEF Unseen
    <3>2. PICK o : o = (s[n] = "END") /\ h[n] = [r EXCEPT !.visible = o]
      BY <2>2, <2>3 DEF Seen
    <3>3. h[n].cells = r.cells
      BY <3>2 DEF Visibles
    <3> QED BY <1>3, <2>1, <3>1, <3>3
  <2>4. CASE s[n] \notin {"START", "END"}
    <3>1. r.visible = TRUE <=> Outside(s, n - 1)
      <4>1. Scan(s)[n - 1].visible = TRUE <=> Outside(s, n - 1)
        BY <2>0, NeatScan
      <4> QED BY <1>2, <2>1, <4>1
    <3>2. CASE n \in Unseen(s)
      <4>1. ~(r.visible = TRUE)
        BY <1>4, <2>4, <3>1, <3>2
      <4>2. r.visible = FALSE
        BY <4>1 DEF Visibles
      <4>3. h[n] = r
        BY <2>2, <2>4, <4>2 DEF Seen
      <4> QED BY <1>3, <2>1, <3>2, <4>3
    <3>3. CASE n \notin Unseen(s)
      <4>1. r.visible = TRUE
        BY <1>4, <2>4, <3>1, <3>3
      <4>2. PICK cells : cells = Filled(r.cells, s[n])
        OBVIOUS
      <4>3. h[n] = [r EXCEPT !.cells = cells]
        BY <2>2, <2>4, <4>1, <4>2 DEF Seen
      <4>4. h[n].cells = cells
        BY <4>3 DEF Visibles
      <4> QED BY <1>3, <2>1, <3>3, <4>2, <4>4
    <3> QED BY <3>2, <3>3
  <2> QED BY <2>3, <2>4
<1> HIDE DEF G
<1>7. 0..N \subseteq G
  BY <1>5, <1>6, Steps
<1>8. g[N] = h[N].cells
  BY <1>7 DEF G
<1> QED BY <1>1, <1>2, <1>8

(* Where rlwrap looks for the beginning of a prompt, it is.                    *)
FoundFor(s) ==
  AfterWriting(s).one_row =>
    /\ RowsUp(s, 0) = AfterWriting(s).row
    /\ RowsUp(s, 1) = AfterWriting(Append(s, "a")).row

(* rlwrap finds the beginning of a prompt with its colours set off.          *)
LEMMA NeatFound ==
  ASSUME ws_col \in Nat \ {0}, NEW s \in Text, Neat(s)
  PROVE  FoundFor(s)
<1>1. PICK g : Fills(g, s, Unseen(s))
  BY FillingEnds
<1>2. Cells(s) = g[Len(s)]
  BY <1>1, NeatFills
<1>3. mark_invisible(s) = s
  BY NeatMarked
<1> QED BY <1>1, <1>2, <1>3, RowsRight DEF FoundFor

(* It finds the beginning of a prompt with colours that are not.             *)
LEMMA UnmarkedFound ==
  ASSUME ws_col \in Nat \ {0}, NEW s \in Text, Unmarked(s), OnlyColours(s), CodesEnd(s)
  PROVE  FoundFor(s)
<1>1. PICK g : Fills(g, s, Unseen(s))
  BY FillingEnds
<1>2. Unseen(s) = InColour(s)
  BY DEF Unseen, Unmarked
<1>3. Fills(g, s, InColour(s))
  BY <1>1, <1>2
<1>4. Cells(mark_invisible(s)) = g[Len(s)]
  BY <1>3, CodesMarked
<1> QED BY <1>1, <1>4, RowsRight DEF FoundFor

-----------------------------------------------------------------------------
(* What cooking adds *)

(* A backspace leaves no START or END where there were none.                 *)
LEMMA UnwrittenUnmarked ==
  ASSUME NEW s \in Text, Unmarked(s)
  PROVE  Unwritten(s) \in Text /\ Unmarked(Unwritten(s))
<1>1. CASE s = <<>>
  <2>1. Unwritten(s) = <<>> /\ Len(<<>>) = 0
    BY <1>1, EmptySeq DEF Unwritten
  <2> QED BY <2>1, NothingToCopy DEF Unmarked
<1>2. CASE s # <<>>
  <2>1. Len(s) \in Nat \ {0}
    BY <1>2, Characters, EmptySeq DEF Text
  <2>2. PICK g \in [0..Len(s) - 1 -> Nat] :
           /\ \A p \in 0..Len(s) - 1 : g[p] \in 0..p /\ g[p] = Skipped(g, s, p)
           /\ Unwritten(s) = SubSeq(s, 1, g[Len(s) - 1])
    BY <1>2, UnwrittenSkips
  <2>3. PICK one \in Nat \ {0}, b \in Int : one = 1 /\ b = g[Len(s) - 1] /\ b <= Len(s)
    <3>1. g[Len(s) - 1] \in 0..Len(s) - 1
      BY <2>1, <2>2
    <3>2. 1 \in Nat \ {0} /\ g[Len(s) - 1] \in Int /\ g[Len(s) - 1] <= Len(s)
      BY <2>1, <3>1
    <3> QED BY <3>2
  <2>4. /\ SubSeq(s, one, b) \in Text /\ Len(s) \in Nat
        /\ Len(SubSeq(s, one, b)) = IF one <= b THEN b - one + 1 ELSE 0
        /\ \A i \in 1..b - one + 1 : SubSeq(s, one, b)[i] = s[one + i - 1]
    BY <2>3, Piece
  <2>5. PICK u \in Text : u = SubSeq(s, one, b) /\ u = Unwritten(s)
    BY <2>2, <2>3, <2>4
  <2>6. ASSUME NEW k \in 1..Len(u) PROVE u[k] \notin {"START", "END"}
    <3>1. k \in 1..b - one + 1 /\ one + k - 1 = k /\ k \in 1..Len(s)
      BY <2>1, <2>3, <2>4, <2>5
    <3>2. u[k] = s[k]
      BY <2>4, <2>5, <3>1
    <3> QED BY <3>1, <3>2 DEF Unmarked
  <2> QED BY <2>5, <2>6 DEF Unmarked
<1> QED BY <1>1, <1>2

(* Nor does unbackspace().                                                   *)
LEMMA UnbackspaceUnmarked ==
  ASSUME NEW s \in Text, Unmarked(s)
  PROVE  unbackspace(s) \in Text /\ Unmarked(unbackspace(s))
<1>1. PICK N \in Nat : N = Len(s) /\ \A n \in 1..N : s[n] \in Char
  BY Characters
<1>2. PICK g \in [0..N -> Text] : /\ g[0] = <<>>
                                  /\ \A n \in 1..N : g[n] = Backspaced(g[n - 1], s[n])
                                  /\ unbackspace(s) = g[N]
  BY <1>1, UnbackspaceLoop
<1>3. Unmarked(<<>>)
  <2>1. Len(<<>>) = 0
    BY EmptySeq
  <2> QED BY <2>1 DEF Unmarked
<1> DEFINE G == {n \in Nat : n <= N => Unmarked(g[n])}
<1>4. 0 \in G
  BY <1>2, <1>3
<1>5. ASSUME NEW n \in 1..N, n - 1 \in G PROVE n \in G
  <2>1. PICK t \in Text, c \in Char : t = g[n - 1] /\ c = s[n] /\ Unmarked(t)
    BY <1>1, <1>2, <1>5
  <2>2. c \notin {"START", "END"}
    BY <1>1, <2>1 DEF Unmarked
  <2>3. Unmarked(Append(t, c))
    <3>1. /\ Append(t, c) \in Text /\ Len(t) \in Nat /\ Len(Append(t, c)) = Len(t) + 1
          /\ \A i \in 1..Len(t) : Append(t, c)[i] = t[i]
          /\ Append(t, c)[Len(t) + 1] = c
      BY OneMore
    <3>2. \A k \in 1..Len(t) + 1 : k \in 1..Len(t) \/ k = Len(t) + 1
      BY <3>1
    <3> QED BY <2>1, <2>2, <3>1, <3>2 DEF Unmarked
  <2>4. Unmarked(Unwritten(t))
    BY <2>1, UnwrittenUnmarked
  <2>5. g[n] = Backspaced(t, c)
    BY <1>2, <2>1
  <2>6. Unmarked(g[n])
    BY <1>3, <2>3, <2>4, <2>5 DEF Backspaced
  <2> QED BY <2>6
<1> HIDE DEF G
<1>6. 0..N \subseteq G
  BY <1>4, <1>5, Steps
<1>7. Unmarked(g[N])
  BY <1>6 DEF G
<1> QED BY <1>2, <1>7

(* What is left after rubbish has no START or END either.                    *)
LEMMA NonRubbishUnmarked ==
  ASSUME NEW s \in Text, Unmarked(s)
  PROVE  NonRubbish(s) \in Text /\ Unmarked(NonRubbish(s))
<1>1. CASE strstr(s, rmcup) = 0
  BY <1>1 DEF NonRubbish
<1>2. CASE strstr(s, rmcup) # 0
  <2>1. PICK i \in 1..Len(s) + 1 : i = strstr(s, rmcup) + Len(rmcup)
    BY <1>2, FirstAtWithin
  <2>2. PICK N \in Nat : N = Len(s)
    BY Characters
  <2>3. PICK u \in Text : /\ u = From(s, i) /\ u = NonRubbish(s) /\ Len(u) = N - i + 1
                          /\ \A j \in 1..N - i + 1 : u[j] = s[i + j - 1]
    <3>1. /\ From(s, i) \in Text /\ Len(From(s, i)) = Len(s) - i + 1
          /\ \A j \in 1..Len(s) - i + 1 : From(s, i)[j] = s[i + j - 1]
      BY FromProperties
    <3>2. NonRubbish(s) = From(s, i)
      BY <1>2, <2>1 DEF NonRubbish
    <3> QED BY <2>2, <3>1, <3>2
  <2>4. ASSUME NEW k \in 1..Len(u) PROVE u[k] \notin {"START", "END"}
    <3>1. k \in 1..N - i + 1 /\ i + k - 1 \in 1..Len(s)
      BY <2>2, <2>3
    <3> QED BY <2>3, <3>1 DEF Unmarked
  <2> QED BY <2>3, <2>4 DEF Unmarked
<1> QED BY <1>1, <1>2

-----------------------------------------------------------------------------
(* Colouring *)

Plain(s) == \A k \in 1..Len(s) : s[k] \notin {"START", "END", "ESC"}

(* c is p between the codes that switch a colour on and off. *)
Painted(c, p) ==
  /\ Len(c) = Len(p) + 10
  /\ c[1] = "ESC" /\ c[2] = "[" /\ c[3] = "1" /\ c[4] = ";" /\ c[5] = "1" /\ c[6] = "m"
  /\ \A k \in 1..Len(p) : c[6 + k] = p[k]
  /\ c[Len(p) + 7] = "ESC" /\ c[Len(p) + 8] = "[" /\ c[Len(p) + 9] = "1" /\ c[Len(p) + 10] = "m"

(* colourise() puts the codes around the prompt, and nothing else. *)
LEMMA ColourisePaints ==
  ASSUME NEW p \in Text
  PROVE  /\ colour_start \o p \o colour_end \in Text
         /\ Painted(colour_start \o p \o colour_end, p)
<1>1. PICK L \in Nat : L = Len(p)
  BY Characters
<1>2. PICK cs \in Text : /\ cs = colour_start /\ Len(cs) = 6
                         /\ cs[1] = "ESC" /\ cs[2] = "[" /\ cs[3] = "1" /\ cs[4] = ";"
                         /\ cs[5] = "1" /\ cs[6] = "m"
  <2>1. colour_start \in Text /\ colour_start = <<"ESC", "[", "1", ";", "1", "m">>
    BY ColourCodes
  <2> QED BY <2>1
<1>3. PICK ce \in Text : /\ ce = colour_end /\ Len(ce) = 4
                         /\ ce[1] = "ESC" /\ ce[2] = "[" /\ ce[3] = "1" /\ ce[4] = "m"
  <2>1. colour_end \in Text /\ colour_end = <<"ESC", "[", "1", "m">>
    BY ColourCodes
  <2> QED BY <2>1
<1>4. PICK a \in Text : /\ a = cs \o p /\ Len(a) = L + 6
                        /\ \A i \in 1..6 : a[i] = cs[i]
                        /\ \A i \in 1..L : a[6 + i] = p[i]
  <2>1. /\ cs \o p \in Text /\ Len(cs \o p) = Len(cs) + Len(p)
        /\ \A i \in 1..Len(cs) : (cs \o p)[i] = cs[i]
        /\ \A i \in 1..Len(p) : (cs \o p)[Len(cs) + i] = p[i]
    BY Pieced
  <2>2. PICK six \in Nat : six = Len(cs) /\ six = 6
    BY <1>2
  <2>3. Len(cs) + Len(p) = L + 6
    BY <1>1, <2>2
  <2>4. PICK t \in Text : t = cs \o p
    BY <2>1
  <2>5. /\ Len(t) = L + 6 /\ \A i \in 1..six : t[i] = cs[i]
        /\ \A i \in 1..L : t[six + i] = p[i]
    BY <1>1, <2>1, <2>2, <2>3, <2>4
  <2>6. \A i \in 1..6 : t[i] = cs[i]
    BY <2>2, <2>5
  <2>7. \A i \in 1..L : t[6 + i] = p[i]
    BY <2>2, <2>5
  <2> QED BY <2>4, <2>5, <2>6, <2>7
<1>5. PICK c \in Text : /\ c = a \o ce /\ Len(c) = L + 10
                        /\ \A i \in 1..L + 6 : c[i] = a[i]
                        /\ \A i \in 1..4 : c[L + 6 + i] = ce[i]
  <2>1. /\ a \o ce \in Text /\ Len(a \o ce) = Len(a) + Len(ce)
        /\ \A i \in 1..Len(a) : (a \o ce)[i] = a[i]
        /\ \A i \in 1..Len(ce) : (a \o ce)[Len(a) + i] = ce[i]
    BY Pieced
  <2>2. Len(a) + Len(ce) = L + 10
    BY <1>1, <1>3, <1>4
  <2>3. PICK t \in Text : t = a \o ce
    BY <2>1
  <2>4. /\ Len(t) = L + 10 /\ \A i \in 1..L + 6 : t[i] = a[i]
        /\ \A i \in 1..4 : t[L + 6 + i] = ce[i]
    BY <1>3, <1>4, <2>1, <2>2, <2>3
  <2> QED BY <2>3, <2>4
<1>6. \A i \in 1..6 : c[i] = cs[i]
  BY <1>1, <1>4, <1>5
<1>7. \A i \in 1..L : c[6 + i] = p[i]
  <2>1. \A i \in 1..L : 6 + i \in 1..L + 6
    BY <1>1
  <2> QED BY <1>4, <1>5, <2>1
<1>8. c[L + 7] = ce[1] /\ c[L + 8] = ce[2] /\ c[L + 9] = ce[3] /\ c[L + 10] = ce[4]
  <2>1. L + 6 + 1 = L + 7 /\ L + 6 + 2 = L + 8 /\ L + 6 + 3 = L + 9 /\ L + 6 + 4 = L + 10
    BY <1>1
  <2>2. \A i \in 1..4 : \A k : k = L + 6 + i => c[k] = ce[i]
    BY <1>5
  <2>3. 1 \in 1..4 /\ 2 \in 1..4 /\ 3 \in 1..4 /\ 4 \in 1..4
    OBVIOUS
  <2> QED BY <2>1, <2>2, <2>3
<1>9. c[1] = "ESC" /\ c[2] = "[" /\ c[3] = "1" /\ c[4] = ";" /\ c[5] = "1" /\ c[6] = "m"
  <2>1. c[1] = cs[1] /\ c[2] = cs[2] /\ c[3] = cs[3]
    BY <1>6
  <2>2. c[4] = cs[4] /\ c[5] = cs[5] /\ c[6] = cs[6]
    BY <1>6
  <2> QED BY <1>2, <2>1, <2>2
<1>10. c[L + 7] = "ESC" /\ c[L + 8] = "[" /\ c[L + 9] = "1" /\ c[L + 10] = "m"
  BY <1>3, <1>8
<1>11. Painted(c, p)
  BY <1>1, <1>5, <1>7, <1>9, <1>10 DEF Painted
<1>12. c = colour_start \o p \o colour_end
  BY <1>2, <1>3, <1>4, <1>5
<1> QED BY <1>11, <1>12

(* Those are the codes of the coloured prompt. *)
LEMMA PaintedColours ==
  ASSUME NEW p \in Text, Plain(p), NEW c \in Text, Painted(c, p)
  PROVE  /\ Unmarked(c) /\ OnlyColours(c)
         /\ \A k \in 1..Len(c) : k \in InColour(c) <=> k <= 6 \/ k >= Len(p) + 7
<1>1. PICK L \in Nat : L = Len(p) /\ Len(c) = L + 10
  BY Characters DEF Painted
<1>2. /\ c[1] = "ESC" /\ c[2] = "[" /\ c[3] = "1" /\ c[4] = ";" /\ c[5] = "1" /\ c[6] = "m"
      /\ \A k \in 1..L : c[6 + k] = p[k]
      /\ c[L + 7] = "ESC" /\ c[L + 8] = "[" /\ c[L + 9] = "1" /\ c[L + 10] = "m"
  BY <1>1 DEF Painted
<1>3. ASSUME NEW k \in 1..L + 10
      PROVE  \/ k \in {1, 2, 3, 4, 5, 6} \/ k \in {L + 7, L + 8, L + 9, L + 10}
             \/ k - 6 \in 1..L /\ 6 + (k - 6) = k
  BY <1>1
<1>4. ASSUME NEW k \in 1..L + 10
      PROVE  c[k] \notin {"START", "END"} /\ (c[k] = "ESC" => k = 1 \/ k = L + 7)
  <2>1. CASE k \in {1, 2, 3, 4, 5, 6}
    BY <1>2, <2>1
  <2>2. CASE k \in {L + 7, L + 8, L + 9, L + 10}
    BY <1>2, <2>2
  <2>3. CASE k - 6 \in 1..L /\ 6 + (k - 6) = k
    <3>1. c[k] = p[k - 6]
      BY <1>2, <2>3
    <3>2. p[k - 6] \notin {"START", "END", "ESC"}
      BY <1>1, <2>3 DEF Plain
    <3> QED BY <3>1, <3>2
  <2> QED BY <1>3, <2>1, <2>2, <2>3
<1>5. IsColour(c, 1, 6)
  <2>1. \A k \in 1 + 2..6 - 1 : k = 3 \/ k = 4 \/ k = 5
    OBVIOUS
  <2>2. \A k \in 1 + 2..6 - 1 : c[k] \in Digits
    BY <1>2, <2>1 DEF Digits
  <2>3. 1 + 1 = 2 /\ 1 + 1 < 6
    OBVIOUS
  <2> QED BY <1>2, <2>2, <2>3 DEF IsColour
<1>6. IsColour(c, L + 7, L + 10)
  <2>1. \A k \in (L + 7) + 2..(L + 10) - 1 : k = L + 9
    BY <1>1
  <2>2. \A k \in (L + 7) + 2..(L + 10) - 1 : c[k] \in Digits
    BY <1>2, <2>1 DEF Digits
  <2>3. (L + 7) + 1 = L + 8 /\ (L + 7) + 1 < L + 10
    BY <1>1
  <2> QED BY <1>2, <2>2, <2>3 DEF IsColour
<1>7. Unmarked(c)
  BY <1>1, <1>4 DEF Unmarked
<1>8. OnlyColours(c)
  <2> SUFFICES ASSUME NEW i \in 1..Len(c), c[i] = "ESC"
               PROVE  \E j \in i..Len(c) : IsColour(c, i, j)
    BY DEF OnlyColours
  <2>1. i = 1 \/ i = L + 7
    BY <1>1, <1>4
  <2>2. 6 \in 1..Len(c) /\ L + 10 \in L + 7..Len(c)
    BY <1>1
  <2> QED BY <1>5, <1>6, <2>1, <2>2
<1>9. ASSUME NEW k \in 1..Len(c)
      PROVE  k \in InColour(c) <=> k <= 6 \/ k >= L + 7
  <2>1. ASSUME NEW i \in 1..k, c[i] = "ESC", NEW j \in k..Len(c), IsColour(c, i, j)
        PROVE  k <= 6 \/ k >= L + 7
    <3>1. i = 1 \/ i = L + 7
      BY <1>1, <1>4, <2>1
    <3>2. CASE i = 1
      <4>1. j = 6
        BY <1>1, <1>5, <2>1, <3>2, ColourEnds
      <4> QED BY <1>1, <4>1
    <3>3. CASE i = L + 7
      BY <1>1, <3>3
    <3> QED BY <3>1, <3>2, <3>3
  <2>2. ASSUME k <= 6 PROVE k \in InColour(c)
    <3>1. 1 \in 1..k /\ 6 \in k..Len(c)
      BY <1>1, <2>2
    <3> QED BY <1>2, <1>5, <3>1 DEF InColour
  <2>3. ASSUME k >= L + 7 PROVE k \in InColour(c)
    <3>1. L + 7 \in 1..k /\ L + 10 \in k..Len(c)
      BY <1>1, <2>3
    <3> QED BY <1>2, <1>6, <3>1 DEF InColour
  <2>4. k \in InColour(c) => k <= 6 \/ k >= L + 7
    BY <2>1 DEF InColour
  <2> QED BY <2>2, <2>3, <2>4
<1> QED BY <1>1, <1>7, <1>8, <1>9

(* A text without codes is neat, and shows all its characters. *)
LEMMA PlainNeat ==
  ASSUME NEW s \in Text, Plain(s)
  PROVE  Neat(s) /\ Unmarked(s) /\ OnlyColours(s) /\ Unseen(s) = {} /\ InColour(s) = {}
<1>1. Len(s) \in Nat
  BY Characters
<1>2. \A k \in 1..Len(s) : \A i \in 1..k : i \in 1..Len(s)
  BY <1>1
<1>3. InColour(s) = {}
  BY <1>2 DEF InColour, Plain
<1>4. Unseen(s) = {}
  BY <1>3 DEF Unseen, Plain
<1> QED BY <1>3, <1>4 DEF Neat, Unmarked, OnlyColours, Plain

(* Its colours leave a prompt's cells as they are. *)
LEMMA PaintedCells ==
  ASSUME NEW p \in Text, Plain(p), NEW c \in Text, Painted(c, p), CodesEnd(c)
  PROVE  Cells(mark_invisible(c)) = Cells(p)
<1>1. PICK L \in Nat : L = Len(p) /\ Len(c) = L + 10
  BY Characters DEF Painted
<1>2. /\ Unmarked(c) /\ OnlyColours(c)
      /\ \A k \in 1..Len(c) : k \in InColour(c) <=> k <= 6 \/ k >= Len(p) + 7
  BY PaintedColours
<1>3. PICK g : Fills(g, c, InColour(c))
  BY FillingEnds
<1>4. Cells(mark_invisible(c)) = g[Len(c)]
  BY <1>2, <1>3, CodesMarked
<1>5. PICK h : Fills(h, p, Unseen(p))
  BY FillingEnds
<1>6. Unseen(p) = {} /\ Neat(p)
  BY PlainNeat
<1>7. Cells(p) = h[L]
  BY <1>1, <1>5, <1>6, NeatFills
<1>8. /\ h[0] = <<>> /\ \A n \in 1..L : h[n] = Filled(h[n - 1], p[n])
  BY <1>1, <1>5, <1>6 DEF Fills
<1>9. /\ g[0] = <<>>
      /\ \A n \in 1..L + 10 : g[n] = IF n <= 6 \/ n >= L + 7 THEN g[n - 1]
                                     ELSE Filled(g[n - 1], c[n])
  BY <1>1, <1>2, <1>3 DEF Fills
<1>10. g[6] = <<>>
  <2>1. /\ 1 \in 1..L + 10 /\ 2 \in 1..L + 10 /\ 3 \in 1..L + 10 /\ 4 \in 1..L + 10
        /\ 5 \in 1..L + 10 /\ 6 \in 1..L + 10
    BY <1>1
  <2>2. g[1] = g[0] /\ g[2] = g[1] /\ g[3] = g[2] /\ g[4] = g[3] /\ g[5] = g[4] /\ g[6] = g[5]
    <3>1. g[1] = g[1 - 1] /\ g[2] = g[2 - 1] /\ g[3] = g[3 - 1]
      BY <1>9, <2>1
    <3>2. g[4] = g[4 - 1] /\ g[5] = g[5 - 1] /\ g[6] = g[6 - 1]
      BY <1>9, <2>1
    <3> QED BY <3>1, <3>2
  <2> QED BY <1>9, <2>2
<1> DEFINE G == {n \in Nat : n <= L => g[6 + n] = h[n]}
<1>11. 0 \in G
  BY <1>8, <1>10
<1>12. ASSUME NEW n \in 1..L, n - 1 \in G PROVE n \in G
  <2>1. n - 1 \in Nat /\ n - 1 <= L /\ 6 + n \in 1..L + 10 /\ (6 + n) - 1 = 6 + (n - 1)
        /\ ~(6 + n <= 6) /\ ~(6 + n >= L + 7)
    BY <1>1
  <2>2. g[6 + (n - 1)] = h[n - 1]
    BY <1>12, <2>1
  <2>3. g[6 + n] = Filled(g[(6 + n) - 1], c[6 + n])
    BY <1>9, <2>1
  <2>4. c[6 + n] = p[n]
    BY <1>1 DEF Painted
  <2>5. h[n] = Filled(h[n - 1], p[n])
    BY <1>8
  <2> QED BY <2>1, <2>2, <2>3, <2>4, <2>5
<1> HIDE DEF G
<1>13. 0..L \subseteq G
  BY <1>11, <1>12, Steps
<1>14. g[6 + L] = h[L]
  BY <1>13 DEF G
<1>15. g[L + 10] = g[6 + L]
  <2>1. /\ L + 7 \in 1..L + 10 /\ L + 8 \in 1..L + 10 /\ L + 9 \in 1..L + 10
        /\ L + 10 \in 1..L + 10 /\ (L + 7) - 1 = 6 + L /\ (L + 8) - 1 = L + 7
        /\ (L + 9) - 1 = L + 8 /\ (L + 10) - 1 = L + 9
    OBVIOUS
  <2>2. g[L + 7] = g[(L + 7) - 1] /\ g[L + 8] = g[(L + 8) - 1]
    BY <1>9, <2>1
  <2>3. g[L + 9] = g[(L + 9) - 1] /\ g[L + 10] = g[(L + 10) - 1]
    BY <1>9, <2>1
  <2> QED BY <2>1, <2>2, <2>3
<1> QED BY <1>1, <1>4, <1>7, <1>14, <1>15

-----------------------------------------------------------------------------
(* Cooked prompts *)

(* Without codes, only what is typed over gets lost. *)
LEMMA PlainUnbackspaced ==
  ASSUME NEW s \in Text, Plain(s)
  PROVE  /\ unbackspace(s) \in Text /\ Plain(unbackspace(s))
         /\ Cells(unbackspace(s)) = Cells(s)
<1>1. Neat(s) /\ Unmarked(s)
  BY PlainNeat
<1>2. PICK u \in Text : u = unbackspace(s) /\ Neat(u) /\ Cells(u) = Cells(s)
  BY <1>1, UnbackspaceNeat
<1>3. Unmarked(u)
  BY <1>1, <1>2, UnbackspaceUnmarked
<1>4. ~Contains(u, "START")
  BY <1>3 DEF Contains, Unmarked
<1>5. Plain(u)
  BY <1>2, <1>4, NoCodes DEF Plain
<1> QED BY <1>2, <1>5

(* colourise() adds neither START nor END.                                   *)
LEMMA ColourisedUnmarked ==
  ASSUME NEW s \in Text, Unmarked(s)
  PROVE  colourise(s) \in Text /\ Unmarked(colourise(s))
<1>1. CASE Contains(s, "ESC") \/ Contains(s, "START")
  BY <1>1 DEF colourise
<1>2. CASE ~(Contains(s, "ESC") \/ Contains(s, "START"))
  <2>1. Plain(s)
    BY <1>2 DEF Contains, Unmarked, Plain
  <2>2. PICK c \in Text : c = colour_start \o s \o colour_end /\ Painted(c, s)
    BY ColourisePaints
  <2>3. Unmarked(c)
    BY <2>1, <2>2, PaintedColours
  <2> QED BY <1>2, <2>2, <2>3 DEF colourise
<1> QED BY <1>1, <1>2

(* rlwrap finds the beginning of a prompt that it has cooked. *)
LEMMA CookedFound ==
  ASSUME ws_col \in Nat \ {0}, NEW raw \in Text, Unmarked(raw),
         mode \in {"aware", "bleach"} => Complete(NonRubbish(raw)),
         OnlyColours(Cooked(raw)), CodesEnd(Cooked(raw))
  PROVE  FoundFor(Cooked(raw))
<1>1. PICK s \in Text : s = NonRubbish(raw) /\ Unmarked(s)
  BY NonRubbishUnmarked
<1>2. CASE mode \in {"aware", "bleach"}
  <2>1. PICK t \in Text : t = protect_or_cleanup(s) /\ Neat(t)
    BY <1>1, <1>2, CodesProtected
  <2>2. PICK u \in Text : u = unbackspace(t) /\ Neat(u)
    BY <2>1, UnbackspaceNeat
  <2>3. Cooked(raw) = u
    BY <1>1, <1>2, <2>1, <2>2 DEF Cooked, slightly_cooked
  <2> QED BY <2>2, <2>3, NeatFound
<1>3. CASE mode \notin {"aware", "bleach"}
  <2>1. PICK u \in Text : u = unbackspace(s) /\ Unmarked(u)
    BY <1>1, UnbackspaceUnmarked
  <2>2. slightly_cooked(raw) = u
    BY <1>1, <1>3, <2>1 DEF slightly_cooked
  <2>3. Cooked(raw) \in {u, colourise(u)}
    BY <2>2 DEF Cooked
  <2>4. Cooked(raw) \in Text /\ Unmarked(Cooked(raw))
    BY <2>1, <2>3, ColourisedUnmarked
  <2>5. PICK c \in Text : c = Cooked(raw)
    BY <2>4
  <2> QED BY <2>4, <2>5, UnmarkedFound
<1> QED BY <1>2, <1>3

(* The text of a prompt with colours only is kept when it is cooked. *)
LEMMA CookedKept ==
  ASSUME NEW raw \in Text, Unmarked(raw), strstr(raw, rmcup) = 0, OnlyColours(raw),
         mode \in {"aware", "bleach"} \/ ~Contains(raw, "ESC"),
         CodesEnd(raw), CodesEnd(Cooked(raw))
  PROVE  Cells(mark_invisible(Cooked(raw))) = Cells(mark_invisible(raw))
<1>1. NonRubbish(raw) = raw
  BY DEF NonRubbish
<1>2. CASE mode \in {"aware", "bleach"}
  <2>1. PICK g : Fills(g, raw, InColour(raw))
    BY FillingEnds
  <2>2. PICK t \in Text : t = protect_or_cleanup(raw) /\ Neat(t) /\ Cells(t) = g[Len(raw)]
    BY <2>1, ColoursProtected
  <2>3. PICK u \in Text : u = unbackspace(t) /\ Neat(u) /\ Cells(u) = Cells(t)
    BY <2>2, UnbackspaceNeat
  <2>4. Cooked(raw) = u
    BY <1>1, <1>2, <2>2, <2>3 DEF Cooked, slightly_cooked
  <2>5. mark_invisible(u) = u
    BY <2>3, NeatMarked
  <2>6. Cells(mark_invisible(raw)) = g[Len(raw)]
    BY <2>1, CodesMarked
  <2> QED BY <2>2, <2>3, <2>4, <2>5, <2>6
<1>3. CASE mode \notin {"aware", "bleach"}
  <2>1. Plain(raw)
    BY <1>3 DEF Contains, Unmarked, Plain
  <2>2. mark_invisible(raw) = raw
    BY <2>1, PlainNeat, NeatMarked
  <2>3. PICK u \in Text : u = unbackspace(raw) /\ Plain(u) /\ Cells(u) = Cells(raw)
    BY <2>1, PlainUnbackspaced
  <2>4. slightly_cooked(raw) = u
    BY <1>1, <1>3, <2>3 DEF slightly_cooked
  <2>5. mark_invisible(u) = u
    BY <2>3, PlainNeat, NeatMarked
  <2>6. CASE mode # "coloured"
    <3>1. Cooked(raw) = u
      BY <2>4, <2>6 DEF Cooked
    <3> QED BY <2>2, <2>3, <2>5, <3>1
  <2>7. CASE mode = "coloured"
    <3>1. PICK c \in Text : c = colour_start \o u \o colour_end /\ Painted(c, u)
      BY ColourisePaints
    <3>2. colourise(u) = c
      BY <2>3, <3>1 DEF colourise, Contains, Plain
    <3>3. Cooked(raw) = c
      BY <2>4, <2>7, <3>2 DEF Cooked
    <3>4. Cells(mark_invisible(c)) = Cells(u)
      BY <2>3, <3>1, <3>3, PaintedCells
    <3> QED BY <2>2, <2>3, <3>3, <3>4
  <2> QED BY <2>6, <2>7
<1> QED BY <1>2, <1>3

-----------------------------------------------------------------------------
(* Where prompts come from *)

(* A cooked prompt is what the raw one is now cooked into, never an older one. *)
CookedInv == cooked_prompt = NULL \/ cooked_prompt = Cooked(raw_prompt)

(* The options do not change, so equal prompts are cooked equally.           *)
LEMMA SameCooking ==
  ASSUME mode' = mode
  PROVE  /\ Cooked(raw_prompt') = Cooked(raw_prompt)'
         /\ raw_prompt' = raw_prompt => Cooked(raw_prompt)' = Cooked(raw_prompt)
<1>1. Cooked(raw_prompt') = Cooked(raw_prompt)'
  BY DEF Cooked, slightly_cooked, protect_or_cleanup
<1>2. raw_prompt' = raw_prompt => Cooked(raw_prompt)' = Cooked(raw_prompt)
  BY DEF Cooked, slightly_cooked, protect_or_cleanup
<1> QED BY <1>1, <1>2

(* Whatever changes the raw prompt cooks it again, or drops what was cooked.   *)
LEMMA CookedStep ==
  ASSUME CookedInv, [Next]_vars
  PROVE  CookedInv'
<1> DEFINE Unchanged == UNCHANGED <<mode, raw_prompt, cooked_prompt>>
<1>1. ASSUME Unchanged PROVE CookedInv'
  <2>1. Cooked(raw_prompt)' = Cooked(raw_prompt)
    BY <1>1, SameCooking
  <2> QED BY <1>1, <2>1 DEF CookedInv
<1>2. ASSUME NEW piece \in Pieces, Writes(piece) PROVE CookedInv'
  BY <1>1, <1>2 DEF Writes
<1>3. ASSUME NEW n \in 1..Len(pty), ReadBlock(n) PROVE CookedInv'
  <2>1. CASE screen_is_alternate'
    BY <1>1, <1>3, <2>1 DEF ReadBlock, ReadBlockOf
  <2>2. CASE ~screen_is_alternate'
    BY <1>3, <2>2 DEF ReadBlock, CookedInv
  <2> QED BY <2>1, <2>2
<1>4. ASSUME NEW n \in 1..Len(pty), ReadWithinEdit(n) PROVE CookedInv'
  <2>1. CASE screen_is_alternate'
    BY <1>1, <1>4, <2>1 DEF ReadWithinEdit, ReadBlockOf
  <2>2. CASE ~screen_is_alternate'
    <3>1. mode' = mode /\ cooked_prompt' = Cooked(raw_prompt')
      BY <1>4, <2>2 DEF ReadWithinEdit, ReadBlockOf
    <3>2. cooked_prompt' = Cooked(raw_prompt)'
      BY <3>1, SameCooking
    <3> QED BY <3>2 DEF CookedInv
  <2> QED BY <2>1, <2>2
<1>5. CASE StartEdit
  <2>1. mode' = mode /\ raw_prompt' = raw_prompt /\ cooked_prompt' = Cooked(raw_prompt)
    BY <1>5 DEF StartEdit
  <2>2. cooked_prompt' = Cooked(raw_prompt)'
    BY <2>1, SameCooking
  <2> QED BY <2>2 DEF CookedInv
<1>6. CASE EditKey
  <2>1. Unchanged
    BY <1>6 DEF EditKey, self_insert, rubout, backward_char, forward_char, beginning_of_line,
                end_of_line, unix_line_discard, Key, textVars
  <2> QED BY <1>1, <2>1
<1>7. CASE AcceptLine
  BY <1>7 DEF AcceptLine, CookedInv
<1>8. ASSUME NEW width \in Widths, Resize(width) PROVE CookedInv'
  BY <1>1, <1>8 DEF Resize
<1>9. CASE UNCHANGED vars
  BY <1>1, <1>9 DEF vars, textVars
<1> QED BY <1>2, <1>3, <1>4, <1>5, <1>6, <1>7, <1>8, <1>9 DEF Next

(* In every state the cooked prompt belongs to the raw one.                  *)
THEOREM CookedInvariant == Spec => []CookedInv
<1>1. Init => CookedInv
  BY DEF Init, TextInit, CookedInv
<1>2. CookedInv /\ [Next]_vars => CookedInv'
  BY CookedStep
<1> QED BY <1>1, <1>2, PTL DEF Spec

(* The command has not written readline's own marks, mark_invisible() can see  *)
(* where each colour code ends, and no code was cut off before it was cooked. *)
CodesAreWhole ==
  /\ Unmarked(raw_prompt) /\ CodesEnd(ShownPrompt)
  /\ cooked_prompt # NULL /\ mode \in {"aware", "bleach"} => Complete(NonRubbish(raw_prompt))

(* For every prompt, width and option, move_cursor_to_start_of_prompt() goes   *)
(* to the row where the prompt begins.                                       *)
THEOREM PromptStartAlwaysFound == Spec => [](CodesAreWhole => PromptStartFound)
<1>1. ASSUME RowInv, CookedInv, CodesAreWhole PROVE PromptStartFound
  <2>1. raw_prompt \in Text /\ Unmarked(raw_prompt) /\ CodesEnd(ShownPrompt)
    BY <1>1 DEF RowInv, CodesAreWhole
  <2>2. ws_col \in Nat \ {0}
    BY <1>1, Width DEF RowInv
  <2>3. OnlyColours(ShownPrompt) => FoundFor(ShownPrompt)
    <3>1. CASE cooked_prompt = NULL
      <4>1. ShownPrompt = raw_prompt
        BY <3>1 DEF ShownPrompt
      <4> QED BY <2>1, <2>2, <4>1, UnmarkedFound
    <3>2. CASE cooked_prompt # NULL
      <4>1. ShownPrompt = Cooked(raw_prompt)
        BY <1>1, <3>2 DEF ShownPrompt, CookedInv
      <4>2. mode \in {"aware", "bleach"} => Complete(NonRubbish(raw_prompt))
        BY <1>1, <3>2 DEF CodesAreWhole
      <4> QED BY <2>1, <2>2, <4>1, <4>2, CookedFound
    <3> QED BY <3>1, <3>2
  <2> QED BY <2>3 DEF PromptStartFound, FoundFor
<1>2. RowInv /\ CookedInv => (CodesAreWhole => PromptStartFound)
  BY <1>1
<1> QED BY <1>2, RowInvariant, CookedInvariant, PTL

(* Nor does the prompt hold the code that leaves the alternate screen, which   *)
(* cook_prompt_if_necessary() takes for the end of rubbish.                   *)
CodesAreColours ==
  /\ Unmarked(raw_prompt) /\ strstr(raw_prompt, rmcup) = 0
  /\ CodesEnd(raw_prompt) /\ CodesEnd(ShownPrompt)

(* For every prompt and option, cooking keeps just the characters that         *)
(* colourless_strlen() finds in the raw prompt.                              *)
THEOREM TextAlwaysKept == Spec => [](CodesAreColours => TextKept)
<1>1. ASSUME RowInv, CookedInv, CodesAreColours, cooked_prompt # NULL, OnlyColours(raw_prompt),
             mode \in {"aware", "bleach"} \/ ~Contains(raw_prompt, "ESC")
      PROVE  Cells(mark_invisible(cooked_prompt)) = Cells(mark_invisible(raw_prompt))
  <2>1. /\ raw_prompt \in Text /\ Unmarked(raw_prompt) /\ strstr(raw_prompt, rmcup) = 0
        /\ CodesEnd(raw_prompt)
    BY <1>1 DEF RowInv, CodesAreColours
  <2>2. cooked_prompt = Cooked(raw_prompt)
    BY <1>1 DEF CookedInv
  <2>3. CodesEnd(Cooked(raw_prompt))
    BY <1>1, <2>2 DEF CodesAreColours, ShownPrompt
  <2>4. Cells(mark_invisible(Cooked(raw_prompt))) = Cells(mark_invisible(raw_prompt))
    BY <1>1, <2>1, <2>3, CookedKept
  <2> QED BY <2>2, <2>4
<1>2. RowInv /\ CookedInv => (CodesAreColours => TextKept)
  BY <1>1 DEF TextKept
<1> QED BY <1>2, RowInvariant, CookedInvariant, PTL
=============================================================================
