--------------------------- MODULE KeyFiles_proofs ---------------------------
(***************************************************************************)
(* Proofs about KeyFiles: whatever the number of powers and of runs of     *)
(* keygen, wherever it is killed and whatever fits on the disk; and        *)
(* whatever a file holds that somebody wrote by hand.                      *)
(***************************************************************************)
EXTENDS KeyFiles, FiniteSetTheorems, SequenceTheorems, Recursion

-----------------------------------------------------------------------------
(***************************************************************************)
(* The readers, line by line                                               *)
(***************************************************************************)
SkStates ==
  [key : [SkVars -> Numbers \cup {NULL}], err : {"E_NOERR", "E_FILE_FORMAT"}, over : BOOLEAN]

Powers == UNION {[1 .. n -> Numbers \cup {NULL}] : n \in Nat}

EkRecords ==
  [p : Numbers \cup {NULL}, h : Powers,
   d : Nat, d_written : Nat, reading_h : BOOLEAN, err : {"E_NOERR", "E_FILE_FORMAT"},
   status : {"reading", "refused", "aborted", "corrupted", "crashed"}]

\* Of the d powers the first d_written are stored.
Stored(s) ==
  /\ DOMAIN s.h = 1 .. s.d /\ s.d_written <= s.d
  /\ \A i \in 1 .. s.d : (i <= s.d_written) <=> (s.h[i] # NULL)

EkStates == {s \in EkRecords : Stored(s)}

\* f has what was read after each line.
SkAfter(f, lines) ==
  /\ f \in [0 .. Len(lines) -> SkStates] /\ f[0] = NoSk
  /\ \A n \in 1 .. Len(lines) : f[n] = SkLine(f[n - 1], lines[n])
  /\ ReadSk(lines) = f[Len(lines)]

EkAfter(f, lines) ==
  /\ f \in [0 .. Len(lines) -> EkStates] /\ f[0] = NoEk
  /\ \A n \in 1 .. Len(lines) : f[n] = EkLine(f[n - 1], lines[n])
  /\ ReadEk(lines) = f[Len(lines)]

\* What a line can be.
LEMMA LineIs ==
  ASSUME NEW l \in Lines
  PROVE  /\ l.verb = "h d:" => l.num \in Nat \cup {BadNum, NoNum}
         /\ l.verb # "h d:" => l.num \in Numbers \cup {BadNum}
         /\ l.verb \in {"h d:", "p", "k", "x", "g", "z", "value", "text", "#", "blank"}
BY DEF Lines

\* A line of a secret key leaves a state of its reader.
LEMMA SkLineType ==
  ASSUME NEW s \in SkStates, NEW l \in Lines
  PROVE  SkLine(s, l) \in SkStates
<1>1. CASE l.verb \in SkVars /\ l.num # BadNum
  <2>1. l.num \in Numbers \cup {NULL}
    BY <1>1, LineIs DEF SkVars
  <2> QED
    BY <1>1, <2>1 DEF SkStates, SkLine
<1>2. CASE ~ (l.verb \in SkVars /\ l.num # BadNum)
  BY <1>2 DEF SkStates, SkLine
<1> QED
  BY <1>1, <1>2

\* A line of an evaluation key leaves a state of its reader, with the powers read stored first.
LEMMA EkLineType ==
  ASSUME NEW s \in EkStates, NEW l \in Lines
  PROVE  EkLine(s, l) \in EkStates
<1>1. /\ s \in EkRecords /\ Stored(s)
      /\ DOMAIN s.h = 1 .. s.d /\ s.d_written <= s.d /\ s.d \in Nat /\ s.d_written \in Nat
      /\ \A i \in 1 .. s.d : (i <= s.d_written) <=> (s.h[i] # NULL)
      /\ s.h \in [1 .. s.d -> Numbers \cup {NULL}]
  <2>1. s \in EkRecords /\ Stored(s)
    BY DEF EkStates
  <2>2. s.h \in Powers /\ s.d \in Nat /\ s.d_written \in Nat
    BY <2>1 DEF EkRecords
  <2>3. PICK n \in Nat : s.h \in [1 .. n -> Numbers \cup {NULL}]
    BY <2>2 DEF Powers
  <2>4. DOMAIN s.h = 1 .. s.d
    BY <2>1 DEF Stored
  <2>5. s.h \in [1 .. s.d -> Numbers \cup {NULL}]
    BY <2>3, <2>4
  <2> QED
    BY <2>1, <2>2, <2>5 DEF Stored
<1>2. Refuse(s) \in EkStates
  BY <1>1 DEF EkStates, EkRecords, Stored, Refuse
<1>3. [s EXCEPT !.status = "aborted"] \in EkStates /\ [s EXCEPT !.status = "corrupted"] \in EkStates
      /\ [s EXCEPT !.status = "crashed"] \in EkStates
  BY <1>1 DEF EkStates, EkRecords, Stored
<1>4. CASE l.verb = "h d:"
  <2>1. ASSUME l.num \notin {BadNum, NoNum, 0}
        PROVE  [s EXCEPT !.h = [i \in 1 .. l.num |-> NULL], !.d = l.num,
                         !.d_written = 0, !.reading_h = TRUE] \in EkStates
    <3>1. PICK n, h, t : /\ n = l.num /\ h = [i \in 1 .. n |-> NULL]
                         /\ t = [s EXCEPT !.h = h, !.d = n, !.d_written = 0, !.reading_h = TRUE]
      OBVIOUS
    <3>2. n \in Nat
      BY <1>4, <2>1, <3>1, LineIs
    <3>3. h \in [1 .. n -> Numbers \cup {NULL}] /\ \A i \in 1 .. n : h[i] = NULL
      BY <3>1
    <3>4. h \in Powers
      BY <3>2, <3>3 DEF Powers
    <3>5. t \in EkRecords /\ t.h = h /\ t.d = n /\ t.d_written = 0
      BY <1>1, <3>1, <3>2, <3>4 DEF EkRecords
    <3>6. Stored(t)
      BY <3>2, <3>3, <3>5 DEF Stored
    <3> QED
      BY <3>1, <3>5, <3>6 DEF EkStates
  <2>2. EkHeader(s, l) \in EkStates
    BY <1>2, <1>3, <2>1, Zenon DEF EkHeader
  <2> QED
    BY <1>4, <2>2 DEF EkLine
<1>5. CASE l.verb # "h d:" /\ s.reading_h
  <2>1. ASSUME l.num # BadNum, s.d_written # s.d
        PROVE  [s EXCEPT !.h[s.d_written + 1] = l.num, !.d_written = @ + 1] \in EkStates
    <3>1. PICK n, k, h, t : /\ n = l.num /\ k = s.d_written + 1 /\ h = [s.h EXCEPT ![k] = n]
                            /\ t = [s EXCEPT !.h[k] = n, !.d_written = @ + 1]
      OBVIOUS
    <3>2. n \in Numbers /\ n # NULL
      BY <1>5, <2>1, <3>1, LineIs, NumbersAssumption
    <3>3. k \in 1 .. s.d /\ k = s.d_written + 1
      BY <1>1, <2>1, <3>1
    <3>4. h \in [1 .. s.d -> Numbers \cup {NULL}] /\ h[k] = n
          /\ \A i \in 1 .. s.d : i # k => h[i] = s.h[i]
      BY <1>1, <3>1, <3>2, <3>3
    <3>5. h \in Powers
      BY <1>1, <3>4 DEF Powers
    <3>6. t = [s EXCEPT !.h = h, !.d_written = k]
      BY <1>1, <3>1 DEF EkRecords
    <3>7. t \in EkRecords /\ t.h = h /\ t.d = s.d /\ t.d_written = k
      <4>1. s \in EkRecords /\ h \in Powers /\ k \in Nat
        BY <1>1, <3>3, <3>5
      <4> QED
        BY ONLY <3>6, <4>1 DEF EkRecords
    <3>8. Stored(t)
      BY <1>1, <3>2, <3>3, <3>4, <3>7 DEF Stored
    <3> QED
      BY <3>1, <3>7, <3>8 DEF EkStates
  <2> QED
    BY <1>2, <1>3, <1>5, <2>1 DEF EkLine, EkPower
<1>6. CASE l.verb # "h d:" /\ ~ s.reading_h
  <2>1. ASSUME l.num # BadNum
        PROVE  [s EXCEPT !.p = l.num] \in EkStates
    <3>1. l.num \in Numbers
      BY <1>6, <2>1, LineIs
    <3> QED
      BY <1>1, <3>1 DEF EkStates, EkRecords, Stored
  <2> QED
    BY <1>2, <1>6, <2>1 DEF EkLine, EkVar
<1> QED
  BY <1>4, <1>5, <1>6

\* The state after each line exists, and is what the reader returns after the last.
LEMMA SkReads ==
  ASSUME NEW lines \in Seq(Lines)
  PROVE  \E f : SkAfter(f, lines)
<1>1. PICK n, a, S, F : /\ n = Len(lines) /\ a = NoSk /\ S = SkStates
                        /\ F = [i \in 1 .. n |-> [s \in S |-> SkLine(s, lines[i])]]
  OBVIOUS
<1>2. n \in Nat /\ \A i \in 1 .. n : lines[i] \in Lines
  BY <1>1
<1>3. a \in S
  BY <1>1 DEF NoSk, SkStates, SkVars
<1>4. F \in StepsIn(n, S)
  <2>1. \A i \in 1 .. n, s \in S : SkLine(s, lines[i]) \in S
    BY <1>1, <1>2, SkLineType
  <2> QED
    BY <1>1, <2>1 DEF StepsIn
<1>5. \E f : Recurs(f, n, S, a, F)
  BY <1>2, <1>3, <1>4, Recursive
<1>6. PICK f : Recurs(f, n, S, a, F)
  BY <1>5
<1>7. f \in [0 .. n -> S] /\ f[0] = a /\ \A i \in 1 .. n : f[i] = F[i][f[i - 1]]
  BY <1>6 DEF Recurs
<1>8. \A i \in 1 .. n : f[i] = SkLine(f[i - 1], lines[i])
  <2> TAKE i \in 1 .. n
  <2>1. f[i - 1] \in S
    BY <1>2, <1>7
  <2>2. F[i][f[i - 1]] = SkLine(f[i - 1], lines[i])
    BY <1>1, <2>1
  <2> QED
    BY <1>7, <2>2
<1>9. f = [i \in 0 .. n |-> IF i = 0 THEN NoSk ELSE SkLine(f[i - 1], lines[i])]
  <2>1. \A i \in 0 .. n : f[i] = IF i = 0 THEN NoSk ELSE SkLine(f[i - 1], lines[i])
    <3> TAKE i \in 0 .. n
    <3>1. i = 0 \/ i \in 1 .. n
      OBVIOUS
    <3> QED
      BY <1>1, <1>7, <1>8, <3>1
  <2> QED
    BY <1>7, <2>1
<1> DEFINE after[i \in 0 .. Len(lines)] == IF i = 0 THEN NoSk ELSE SkLine(after[i - 1], lines[i])
<1>10. ReadSk(lines) = after[Len(lines)]
  BY Zenon DEF ReadSk
<1>11. after = [i \in 0 .. Len(lines) |-> IF i = 0 THEN NoSk ELSE SkLine(after[i - 1], lines[i])]
  BY <1>1, <1>9
<1>12. \E h : /\ h = [i \in 0 .. Len(lines) |-> IF i = 0 THEN NoSk ELSE SkLine(h[i - 1], lines[i])]
              /\ ReadSk(lines) = h[Len(lines)]
  BY <1>10, <1>11, Zenon
<1>13. PICK h : /\ h = [i \in 0 .. Len(lines) |-> IF i = 0 THEN NoSk ELSE SkLine(h[i - 1], lines[i])]
                /\ ReadSk(lines) = h[Len(lines)]
  BY <1>12, Zenon
<1> HIDE DEF after
<1>14. h[0] = a /\ \A i \in 1 .. n : h[i] = SkLine(h[i - 1], lines[i])
  BY <1>1, <1>2, <1>13
<1>15. \A i \in 0 .. n : h[i] = f[i]
  <2>1. PICK P : P = {i \in 0 .. n : h[i] = f[i]}
    OBVIOUS
  <2>2. 0 \in P
    BY <1>2, <1>7, <1>14, <2>1
  <2>3. \A i \in 1 .. n : i - 1 \in P => i \in P
    BY <1>8, <1>14, <2>1
  <2>4. \A i \in 0 .. n : i \in P
    BY ONLY <1>2, <2>2, <2>3, UpTo
  <2> QED
    BY <2>1, <2>4
<1>16. ReadSk(lines) = f[n]
  BY <1>1, <1>2, <1>13, <1>15
<1> QED
  BY <1>1, <1>7, <1>8, <1>16 DEF SkAfter

\* What each line of an evaluation key of a run of keygen does to the reader.
LEMMA EkReads ==
  ASSUME NEW lines \in Seq(Lines)
  PROVE  \E f : EkAfter(f, lines)
<1>1. PICK n, a, S, F : /\ n = Len(lines) /\ a = NoEk /\ S = EkStates
                        /\ F = [i \in 1 .. n |-> [s \in S |-> EkLine(s, lines[i])]]
  OBVIOUS
<1>2. n \in Nat /\ \A i \in 1 .. n : lines[i] \in Lines
  BY <1>1
<1>3. a \in S
  <2>1. <<>> \in Powers
    <3>1. PICK e : e = <<>>
      OBVIOUS
    <3>2. e \in [1 .. 0 -> Numbers \cup {NULL}]
      BY <3>1
    <3> QED
      BY <3>1, <3>2 DEF Powers
  <2>2. NoEk \in EkRecords
    BY <2>1 DEF NoEk, EkRecords
  <2>3. Stored(NoEk)
    BY DEF NoEk, Stored
  <2> QED
    BY <1>1, <2>2, <2>3 DEF EkStates
<1>4. F \in StepsIn(n, S)
  <2>1. \A i \in 1 .. n, s \in S : EkLine(s, lines[i]) \in S
    BY <1>1, <1>2, EkLineType
  <2> QED
    BY <1>1, <2>1 DEF StepsIn
<1>5. \E f : Recurs(f, n, S, a, F)
  BY <1>2, <1>3, <1>4, Recursive
<1>6. PICK f : Recurs(f, n, S, a, F)
  BY <1>5
<1>7. f \in [0 .. n -> S] /\ f[0] = a /\ \A i \in 1 .. n : f[i] = F[i][f[i - 1]]
  BY <1>6 DEF Recurs
<1>8. \A i \in 1 .. n : f[i] = EkLine(f[i - 1], lines[i])
  <2> TAKE i \in 1 .. n
  <2>1. f[i - 1] \in S
    BY <1>2, <1>7
  <2>2. F[i][f[i - 1]] = EkLine(f[i - 1], lines[i])
    BY <1>1, <2>1
  <2> QED
    BY <1>7, <2>2
<1>9. f = [i \in 0 .. n |-> IF i = 0 THEN NoEk ELSE EkLine(f[i - 1], lines[i])]
  <2>1. \A i \in 0 .. n : f[i] = IF i = 0 THEN NoEk ELSE EkLine(f[i - 1], lines[i])
    <3> TAKE i \in 0 .. n
    <3>1. i = 0 \/ i \in 1 .. n
      OBVIOUS
    <3> QED
      BY <1>1, <1>7, <1>8, <3>1
  <2> QED
    BY <1>7, <2>1
<1> DEFINE after[i \in 0 .. Len(lines)] == IF i = 0 THEN NoEk ELSE EkLine(after[i - 1], lines[i])
<1>10. ReadEk(lines) = after[Len(lines)]
  BY Zenon DEF ReadEk
<1>11. after = [i \in 0 .. Len(lines) |-> IF i = 0 THEN NoEk ELSE EkLine(after[i - 1], lines[i])]
  BY <1>1, <1>9
<1>12. \E h : /\ h = [i \in 0 .. Len(lines) |-> IF i = 0 THEN NoEk ELSE EkLine(h[i - 1], lines[i])]
              /\ ReadEk(lines) = h[Len(lines)]
  BY <1>10, <1>11, Zenon
<1>13. PICK h : /\ h = [i \in 0 .. Len(lines) |-> IF i = 0 THEN NoEk ELSE EkLine(h[i - 1], lines[i])]
                /\ ReadEk(lines) = h[Len(lines)]
  BY <1>12, Zenon
<1> HIDE DEF after
<1>14. h[0] = a /\ \A i \in 1 .. n : h[i] = EkLine(h[i - 1], lines[i])
  BY <1>1, <1>2, <1>13
<1>15. \A i \in 0 .. n : h[i] = f[i]
  <2>1. PICK P : P = {i \in 0 .. n : h[i] = f[i]}
    OBVIOUS
  <2>2. 0 \in P
    BY <1>2, <1>7, <1>14, <2>1
  <2>3. \A i \in 1 .. n : i - 1 \in P => i \in P
    BY <1>8, <1>14, <2>1
  <2>4. \A i \in 0 .. n : i \in P
    BY ONLY <1>2, <2>2, <2>3, UpTo
  <2> QED
    BY <2>1, <2>4
<1>16. ReadEk(lines) = f[n]
  BY <1>1, <1>2, <1>13, <1>15
<1> QED
  BY <1>1, <1>7, <1>8, <1>16 DEF EkAfter
-----------------------------------------------------------------------------
(***************************************************************************)
(* The files keygen writes                                                 *)
(***************************************************************************)
Names == {"p", "k", "x", "g", "h"}

\* The numbers and lines of run r, for degree bound m.
Num(v, i, r) == [of |-> <<v, i>>, run |-> r, cut |-> FALSE]

EkOf(r, m) ==
  <<[verb |-> "p", num |-> Num("p", 0, r)]>> \o
  IF m = 0 THEN <<>>
  ELSE <<[verb |-> "h d:", num |-> m]>> \o
       [i \in 1 .. m |-> [verb |-> "value", num |-> Num("h", i, r)]]

SkOf(r, m) ==
  <<[verb |-> "k", num |-> Num("k", 0, r)], [verb |-> "x", num |-> Num("x", 0, r)],
    [verb |-> "p", num |-> Num("p", 0, r)]>> \o
  IF m = 0 THEN <<>> ELSE <<[verb |-> "g", num |-> Num("g", 0, r)]>>

\* Lines of a file that was to be whole, as they were written but for the last, which may be cut.
Part(lines, whole) ==
  /\ lines \in Seq(Lines) /\ Len(lines) <= Len(whole)
  /\ \A i \in 1 .. Len(lines) :
       lines[i] = whole[i] \/ (i = Len(lines) /\ lines[i] \in Cut(whole[i]))

\* The lines the writer prints are those of the run.
LEMMA LinesOfRun == EkLines = EkOf(run, d) /\ SkLines = SkOf(run, d)
BY DEF EkLines, SkLines, EkOf, SkOf, Field, Number, Num

\* The i-th number of variable v in run r is one, is not cut, and keeps its name when it is.
LEMMA NumIs ==
  ASSUME NEW v \in Names, NEW i \in Nat, NEW r \in Nat
  PROVE  /\ Num(v, i, r) \in Numbers /\ Num(v, i, r).of = <<v, i>> /\ Num(v, i, r).run = r
         /\ Num(v, i, r).cut = FALSE /\ [Num(v, i, r) EXCEPT !.cut = TRUE] \in Numbers
         /\ [Num(v, i, r) EXCEPT !.cut = TRUE].of = <<v, i>>
         /\ [Num(v, i, r) EXCEPT !.cut = TRUE].run = r
         /\ Num(v, i, r) # BadNum /\ Num(v, i, r) # NULL
<1>1. <<v, i>> \in {"p", "k", "x", "g", "h"} \X Nat
  BY DEF Names
<1>2. PICK w, W : w = <<v, i>> /\ W = {"p", "k", "x", "g", "h"} \X Nat
  OBVIOUS
<1>3. Numbers = [of : W, run : Nat, cut : BOOLEAN] /\ Num(v, i, r) = [of |-> w, run |-> r, cut |-> FALSE]
  BY <1>2 DEF Numbers, Num
<1>4. w \in W
  BY <1>1, <1>2
<1>5. PICK n : n = Num(v, i, r)
  OBVIOUS
<1>6. n = [of |-> w, run |-> r, cut |-> FALSE]
  BY <1>3, <1>5
<1>7. r \in Nat
  OBVIOUS
<1>8. n \in Numbers /\ n.of = w /\ n.run = r /\ n.cut = FALSE
  BY ONLY <1>3, <1>4, <1>6, <1>7
<1>9. PICK c : c = [n EXCEPT !.cut = TRUE]
  OBVIOUS
<1>10. c \in Numbers /\ c.of = w /\ c.run = r
  BY ONLY <1>3, <1>4, <1>6, <1>7, <1>9
<1> QED
  BY <1>2, <1>5, <1>8, <1>9, <1>10, NumbersAssumption

\* The lines of FN.ek, one by one.
LEMMA EkOfIs ==
  ASSUME NEW r \in Nat, NEW m \in Nat
  PROVE  /\ EkOf(r, m) \in Seq(Lines) /\ Len(EkOf(r, m)) = IF m = 0 THEN 1 ELSE m + 2
         /\ EkOf(r, m)[1] = [verb |-> "p", num |-> Num("p", 0, r)]
         /\ m > 0 => EkOf(r, m)[2] = [verb |-> "h d:", num |-> m]
         /\ m > 0 => \A i \in 3 .. (m + 2) :
              EkOf(r, m)[i] = [verb |-> "value", num |-> Num("h", i - 2, r)]
<1>1. PICK a, b, v, S :
        /\ a = [verb |-> "p", num |-> Num("p", 0, r)] /\ b = [verb |-> "h d:", num |-> m]
        /\ v = [i \in 1 .. m |-> [verb |-> "value", num |-> Num("h", i, r)]] /\ S = Lines
  OBVIOUS
<1>2. a \in S /\ b \in S
  <2>1. Num("p", 0, r) \in Numbers
    BY NumIs DEF Names
  <2> QED
    BY <1>1, <2>1 DEF Lines
<1>3. v \in [1 .. m -> S]
  <2>1. ASSUME NEW i \in 1 .. m
        PROVE  [verb |-> "value", num |-> Num("h", i, r)] \in S
    <3>1. i \in Nat /\ r \in Nat /\ "h" \in Names
      BY DEF Names
    <3>2. Num("h", i, r) \in Numbers
      BY ONLY <3>1, NumIs
    <3> QED
      BY <1>1, <3>2 DEF Lines
  <2> QED
    BY <1>1, <2>1
<1>4. v \in Seq(S) /\ Len(v) = m /\ m \in Nat
  BY ONLY <1>3, m \in Nat
<1>5. PICK whole : whole = EkOf(r, m)
  OBVIOUS
<1>6. CASE m = 0
  <2>1. whole = <<a>> \o <<>>
    BY <1>1, <1>5, <1>6 DEF EkOf
  <2>2. whole \in Seq(S) /\ Len(whole) = 1 /\ whole[1] = a
    BY ONLY <1>2, <2>1
  <2>3. whole \in Seq(Lines) /\ Len(whole) = 1 /\ whole[1] = [verb |-> "p", num |-> Num("p", 0, r)]
    BY <1>1, <2>2
  <2>4. ~ (m > 0)
    BY <1>6
  <2> QED
    BY ONLY <1>5, <1>6, <2>3, <2>4
<1>7. CASE m # 0
  <2>1. whole = <<a>> \o (<<b>> \o v)
    BY <1>1, <1>5, <1>7 DEF EkOf
  <2>2. PICK s, t, w : s = <<a>> /\ t = <<b>> /\ w = t \o v
    OBVIOUS
  <2>3. s \in Seq(S) /\ Len(s) = 1 /\ s[1] = a /\ t \in Seq(S) /\ Len(t) = 1 /\ t[1] = b
    BY ONLY <1>2, <2>2
  <2>4. /\ w \in Seq(S) /\ Len(w) = Len(t) + Len(v)
        /\ \A i \in 1 .. Len(t) : w[i] = t[i]
        /\ \A i \in 1 .. Len(v) : w[Len(t) + i] = v[i]
    BY ONLY <1>4, <2>2, <2>3
  <2>5. whole = s \o w
    BY <2>1, <2>2
  <2>6. /\ whole \in Seq(S) /\ Len(whole) = Len(s) + Len(w)
        /\ \A i \in 1 .. Len(s) : whole[i] = s[i]
        /\ \A i \in 1 .. Len(w) : whole[Len(s) + i] = w[i]
    <3>1. s \in Seq(S) /\ w \in Seq(S)
      BY <2>3, <2>4
    <3> QED
      BY ONLY <2>5, <3>1
  <2>7. Len(w) = m + 1 /\ w[1] = b /\ \A i \in 1 .. m : w[1 + i] = v[i]
    BY ONLY <1>4, <2>3, <2>4
  <2>8. Len(whole) = m + 2 /\ whole[1] = a /\ whole[1 + 1] = b
    BY ONLY <1>4, <2>3, <2>6, <2>7
  <2>9. \A i \in 1 .. m : whole[1 + (1 + i)] = v[i]
    BY ONLY <1>4, <2>3, <2>6, <2>7
  <2>10. \A i \in 3 .. (m + 2) : whole[i] = [verb |-> "value", num |-> Num("h", i - 2, r)]
    <3> TAKE i \in 3 .. (m + 2)
    <3>1. i - 2 \in 1 .. m /\ 1 + (1 + (i - 2)) = i
      BY <1>4
    <3>2. v[i - 2] = [verb |-> "value", num |-> Num("h", i - 2, r)]
      BY <1>1, <3>1
    <3>3. whole[1 + (1 + (i - 2))] = v[i - 2]
      BY <2>9, <3>1
    <3> QED
      BY <3>1, <3>2, <3>3
  <2>11. whole[2] = b
    BY <2>8
  <2> QED
    BY <1>1, <1>5, <1>7, <2>6, <2>8, <2>10, <2>11
<1> QED
  BY <1>6, <1>7

\* The lines of FN.sk, one by one.
LEMMA SkOfIs ==
  ASSUME NEW r \in Nat, NEW m \in Nat
  PROVE  /\ SkOf(r, m) \in Seq(Lines) /\ Len(SkOf(r, m)) = IF m = 0 THEN 3 ELSE 4
         /\ SkOf(r, m)[1] = [verb |-> "k", num |-> Num("k", 0, r)]
         /\ SkOf(r, m)[2] = [verb |-> "x", num |-> Num("x", 0, r)]
         /\ SkOf(r, m)[3] = [verb |-> "p", num |-> Num("p", 0, r)]
         /\ m > 0 => SkOf(r, m)[4] = [verb |-> "g", num |-> Num("g", 0, r)]
<1>1. PICK a, b, c, e, S :
        /\ a = [verb |-> "k", num |-> Num("k", 0, r)] /\ b = [verb |-> "x", num |-> Num("x", 0, r)]
        /\ c = [verb |-> "p", num |-> Num("p", 0, r)] /\ e = [verb |-> "g", num |-> Num("g", 0, r)]
        /\ S = Lines
  OBVIOUS
<1>2. a \in S /\ b \in S /\ c \in S /\ e \in S
  <2>1. Num("k", 0, r) \in Numbers /\ Num("x", 0, r) \in Numbers /\ Num("p", 0, r) \in Numbers
        /\ Num("g", 0, r) \in Numbers
    BY NumIs DEF Names
  <2> QED
    BY <1>1, <2>1 DEF Lines
<1>3. PICK whole : whole = SkOf(r, m)
  OBVIOUS
<1>4. CASE m = 0
  <2>1. whole = <<a, b, c>> \o <<>>
    BY <1>1, <1>3, <1>4 DEF SkOf
  <2>2. whole \in Seq(S) /\ Len(whole) = 3 /\ whole[1] = a /\ whole[2] = b /\ whole[3] = c
    BY ONLY <1>2, <2>1
  <2> QED
    BY <1>1, <1>3, <1>4, <2>2
<1>5. CASE m # 0
  <2>1. whole = <<a, b, c>> \o <<e>>
    BY <1>1, <1>3, <1>5 DEF SkOf
  <2>2. /\ whole \in Seq(S) /\ Len(whole) = 4 /\ whole[1] = a /\ whole[2] = b /\ whole[3] = c
        /\ whole[4] = e
    BY ONLY <1>2, <2>1
  <2> QED
    BY <1>1, <1>3, <1>5, <2>2
<1> QED
  BY <1>4, <1>5
\* What a header of degree m may look like when it is cut and some of it is left.
TornHeader(l, m) ==
  \/ l.verb = "z" /\ l.num = BadNum
  \/ l.verb = "h d:" /\ l.num \in (1 .. m) \cup {NoNum}

\* A line that is cut is a line.
LEMMA CutIs ==
  ASSUME NEW l \in Lines, l.verb # "h d:" => l.num \in Numbers,
         l.verb = "h d:" => l.num \in Nat, NEW c \in Cut(l)
  PROVE  /\ c \in Lines
         /\ \/ c.verb = "text" /\ c.num = BadNum
            \/ /\ l.verb # "h d:" /\ c.verb = l.verb /\ c.num \in Numbers
               /\ c.num.of = l.num.of /\ c.num.run = l.num.run
            \/ l.verb = "h d:" /\ TornHeader(c, l.num)
<1>1. CASE c = [verb |-> "text", num |-> BadNum]
  BY <1>1 DEF Lines
<1>2. CASE l.verb # "h d:" /\ c = [l EXCEPT !.num.cut = TRUE]
  <2>1. PICK v, n, x : v = l.verb /\ n = l.num /\ x = [n EXCEPT !.cut = TRUE]
    OBVIOUS
  <2>2. n \in Numbers /\ v \in {"p", "k", "x", "g", "z", "value", "text", "#", "blank"}
    BY <1>2, <2>1, LineIs
  <2>3. x \in Numbers /\ x.of = n.of /\ x.run = n.run
    <3>1. PICK W : W = {"p", "k", "x", "g", "h"} \X Nat
      OBVIOUS
    <3>2. Numbers = [of : W, run : Nat, cut : BOOLEAN]
      BY <3>1 DEF Numbers
    <3> QED
      BY ONLY <2>1, <2>2, <3>2
  <2>4. c = [verb |-> v, num |-> x]
    BY <1>2, <2>1 DEF Lines
  <2>5. c \in Lines
    BY <2>2, <2>3, <2>4 DEF Lines
  <2>6. c.verb = v /\ c.num = x
    BY ONLY <2>4
  <2> QED
    BY <1>2, <2>1, <2>3, <2>5, <2>6, Zenon
<1>3. CASE l.verb = "h d:" /\ c \in [verb : {"h d:"}, num : FirstDigits(l.num) \cup {NoNum}]
  <2>1. PICK m : m = l.num /\ m \in Nat
    BY <1>3
  <2>2. FirstDigits(m) \subseteq 1 .. m
    BY DEF FirstDigits
  <2>3. c \in [verb : {"h d:"}, num : (1 .. m) \cup {NoNum}]
    BY <1>3, <2>1, <2>2
  <2>4. c \in Lines
    <3>1. PICK T : T = Nat \cup {BadNum, NoNum}
      OBVIOUS
    <3>2. (1 .. m) \cup {NoNum} \subseteq T
      BY ONLY <2>1, <3>1
    <3>3. c \in [verb : {"h d:"}, num : T]
      BY ONLY <2>3, <3>2
    <3> QED
      BY ONLY <3>1, <3>3, Zenon DEF Lines
  <2>5. TornHeader(c, m)
    BY <2>3 DEF TornHeader
  <2> QED
    BY <1>3, <2>1, <2>4, <2>5
<1>4. CASE l.verb = "h d:" /\ c = [verb |-> "z", num |-> BadNum]
  BY <1>4 DEF Lines, TornHeader
<1>5. \/ c = [verb |-> "text", num |-> BadNum]
      \/ l.verb # "h d:" /\ c = [l EXCEPT !.num.cut = TRUE]
      \/ l.verb = "h d:" /\ c \in [verb : {"h d:"}, num : FirstDigits(l.num) \cup {NoNum}]
      \/ l.verb = "h d:" /\ c \in [verb : {"text", "z"}, num : {BadNum}]
  <2>1. c \in Cut(l)
    OBVIOUS
  <2>2. CASE l.verb = "h d:"
    BY ONLY <2>1, <2>2, Zenon DEF Cut
  <2>3. CASE l.verb = "value"
    BY <2>1, <2>3 DEF Cut
  <2>4. CASE l.verb # "h d:" /\ l.verb # "value"
    BY <2>1, <2>4 DEF Cut
  <2> QED
    BY ONLY <2>2, <2>3, <2>4
<1>6. c \in [verb : {"text", "z"}, num : {BadNum}] =>
        c = [verb |-> "text", num |-> BadNum] \/ c = [verb |-> "z", num |-> BadNum]
  OBVIOUS
<1> QED
  BY <1>1, <1>2, <1>3, <1>4, <1>5, <1>6

\* The first n elements, and those followed by another one.
LEMMA FirstOnes ==
  ASSUME NEW S, NEW w \in Seq(S), NEW n \in 0 .. Len(w), NEW l \in S
  PROVE  /\ SubSeq(w, 1, n) \in Seq(S) /\ Len(SubSeq(w, 1, n)) = n
         /\ \A i \in 1 .. n : SubSeq(w, 1, n)[i] = w[i]
         /\ Append(SubSeq(w, 1, n), l) \in Seq(S) /\ Len(Append(SubSeq(w, 1, n), l)) = n + 1
         /\ \A i \in 1 .. n : Append(SubSeq(w, 1, n), l)[i] = w[i]
         /\ Append(SubSeq(w, 1, n), l)[n + 1] = l
<1>1. Len(w) \in Nat /\ n \in Nat /\ n <= Len(w)
  BY LenProperties
<1>2. \A i \in 1 .. n : w[i] \in S
  BY <1>1, ElementOfSeq
<1>3. PICK s : s = SubSeq(w, 1, n)
  OBVIOUS
<1>4. 1 \in Int /\ n \in Int
  BY <1>1
<1>5. /\ s \in Seq(S) /\ Len(s) = IF 1 <= n THEN n - 1 + 1 ELSE 0
      /\ \A i \in 1 .. n - 1 + 1 : s[i] = w[1 + i - 1]
  BY ONLY <1>2, <1>3, <1>4, SubSeqProperties
<1>6. s \in Seq(S) /\ Len(s) = n /\ \A i \in 1 .. n : s[i] = w[i]
  <2>1. Len(s) = n /\ n - 1 + 1 = n
    BY ONLY <1>1, <1>5
  <2>2. \A i \in 1 .. n : 1 + i - 1 = i
    BY ONLY <1>1
  <2> QED
    BY ONLY <1>5, <2>1, <2>2
<1>7. PICK t : t = Append(s, l)
  OBVIOUS
<1>8. l \in S
  OBVIOUS
<1>9. t \in Seq(S) /\ Len(t) = Len(s) + 1 /\ (\A i \in 1 .. Len(s) : t[i] = s[i]) /\ t[Len(s) + 1] = l
  BY ONLY <1>6, <1>7, <1>8, AppendProperties
<1>10. t \in Seq(S) /\ Len(t) = n + 1 /\ (\A i \in 1 .. n : t[i] = w[i]) /\ t[n + 1] = l
  BY ONLY <1>6, <1>9
<1> QED
  BY ONLY <1>3, <1>6, <1>7, <1>10

\* What the end of a file within a line leaves is part of the file.
LEMMA BeginningIsPart ==
  ASSUME NEW whole \in Seq(Lines),
         \A i \in 1 .. Len(whole) : /\ whole[i].verb # "h d:" => whole[i].num \in Numbers
                                    /\ whole[i].verb = "h d:" => whole[i].num \in Nat,
         NEW lines \in Beginnings(whole)
  PROVE  Part(lines, whole)
<1>1. PICK S, N : S = Lines /\ N = Len(whole)
  OBVIOUS
<1>2. N \in Nat /\ whole \in Seq(S)
  <2>1. whole \in Seq(Lines)
    OBVIOUS
  <2> QED
    BY ONLY <1>1, <2>1, LenProperties
<1>3. \E l : l \in S
  <2>1. PICK l : l = [verb |-> "text", num |-> BadNum]
    OBVIOUS
  <2>2. l \in Lines
    BY ONLY <2>1 DEF Lines
  <2> QED
    BY ONLY <1>1, <2>2
<1>4. ASSUME NEW n \in 0 .. Len(whole), lines = SubSeq(whole, 1, n)
      PROVE  Part(lines, whole)
  <2>1. PICK l : l \in S
    BY <1>3
  <2>2. n \in 0 .. N /\ n \in 0 .. Len(whole) /\ n \in Nat /\ n <= N
    BY ONLY <1>1, <1>2, <1>4
  <2>3. lines \in Seq(S) /\ Len(lines) = n /\ \A i \in 1 .. n : lines[i] = whole[i]
    BY ONLY <1>2, <1>4, <2>1, <2>2, FirstOnes
  <2>4. lines \in Seq(Lines) /\ Len(lines) <= Len(whole)
    BY <1>1, <2>2, <2>3
  <2> QED
    BY ONLY <2>3, <2>4 DEF Part
<1>5. ASSUME NEW n \in DOMAIN whole, NEW l \in Cut(whole[n]),
             lines = Append(SubSeq(whole, 1, n - 1), l)
      PROVE  Part(lines, whole)
  <2>1. DOMAIN whole = 1 .. N
    BY ONLY <1>1, <1>2, LenProperties
  <2>2. n \in 1 .. N /\ n - 1 \in 0 .. N /\ n - 1 + 1 = n /\ n \in Nat /\ n <= N
    BY ONLY <1>2, <1>5, <2>1
  <2>3. whole[n] \in S
    BY ONLY <1>1, <1>2, <2>2, ElementOfSeq
  <2>4. /\ whole[n].verb # "h d:" => whole[n].num \in Numbers
        /\ whole[n].verb = "h d:" => whole[n].num \in Nat
    BY <1>1, <2>2
  <2>5. l \in S
    BY ONLY <1>1, <1>5, <2>3, <2>4, CutIs
  <2>6. /\ lines \in Seq(S) /\ Len(lines) = n - 1 + 1
        /\ \A i \in 1 .. (n - 1) : lines[i] = whole[i]
        /\ lines[n - 1 + 1] = l
    <3>1. PICK j : j = n - 1
      OBVIOUS
    <3>2. j \in 0 .. Len(whole) /\ lines = Append(SubSeq(whole, 1, j), l)
      BY <1>1, <1>5, <2>2, <3>1
    <3>3. /\ lines \in Seq(S) /\ Len(lines) = j + 1
          /\ \A i \in 1 .. j : lines[i] = whole[i]
          /\ lines[j + 1] = l
      BY ONLY <1>2, <2>5, <3>2, FirstOnes
    <3> QED
      BY ONLY <3>1, <3>3
  <2>7. Len(lines) = n /\ lines[n] = l
    BY ONLY <2>2, <2>6
  <2>8. ASSUME NEW i \in 1 .. n
        PROVE  lines[i] = whole[i] \/ (i = Len(lines) /\ lines[i] \in Cut(whole[i]))
    <3>1. i \in 1 .. (n - 1) \/ i = n
      BY ONLY <2>2, <2>8
    <3> QED
      BY ONLY <1>5, <2>6, <2>7, <3>1
  <2>9. lines \in Seq(Lines) /\ Len(lines) <= Len(whole)
    BY <1>1, <2>2, <2>6, <2>7
  <2> QED
    BY ONLY <2>7, <2>8, <2>9 DEF Part
<1> QED
  BY <1>4, <1>5 DEF Beginnings

\* Each line of a part of FN.ek is in its place, or is no line of a key.
NumberOf(l, v, i, r) ==
  l.verb # "text" /\ l.num \in Numbers /\ l.num.of = <<v, i>> /\ l.num.run = r

HeaderOf(l, m) == l.verb = "h d:" /\ l.num = m

EkPlaces(l, i, r, m) ==
  \/ l.verb = "text" /\ l.num = BadNum
  \/ i = 1 /\ l.verb = "p" /\ NumberOf(l, "p", 0, r)
  \/ i = 2 /\ m > 0 /\ (HeaderOf(l, m) \/ TornHeader(l, m))
  \/ i \in 3 .. (m + 2) /\ l.verb = "value" /\ NumberOf(l, "h", i - 2, r)

\* The line is not a header with digits missing.
Untorn(l, i, m) == i = 2 => l.verb = "text" \/ HeaderOf(l, m)

SkPlaces(l, i, r, m) ==
  \/ l.verb = "text" /\ l.num = BadNum
  \/ /\ \/ i = 1 /\ l.verb = "k"
        \/ i = 2 /\ l.verb = "x"
        \/ i = 3 /\ l.verb = "p"
        \/ i = 4 /\ m > 0 /\ l.verb = "g"
     /\ l.num \in Numbers /\ l.num.of = <<l.verb, 0>> /\ l.num.run = r

\* The numbers of the keys, without the record updates.
LEMMA NumbersOf ==
  ASSUME NEW r \in Nat
  PROVE  \A v \in Names, i \in Nat :
           /\ Num(v, i, r) \in Numbers /\ Num(v, i, r).of = <<v, i>> /\ Num(v, i, r).run = r
           /\ Num(v, i, r).cut = FALSE
BY NumIs, Zenon

\* A line of the whole file is a line, in its place, and whole.
LEMMA EkCuts ==
  ASSUME NEW r \in Nat, NEW m \in Nat, NEW i \in 1 .. Len(EkOf(r, m))
  PROVE  /\ EkOf(r, m)[i] \in Lines
         /\ EkOf(r, m)[i].verb # "h d:" => /\ EkOf(r, m)[i].num \in Numbers
                                           /\ EkOf(r, m)[i].num.cut = FALSE
         /\ EkOf(r, m)[i].verb = "h d:" => EkOf(r, m)[i].num \in Nat
         /\ EkPlaces(EkOf(r, m)[i], i, r, m) /\ EkOf(r, m)[i].verb # "text"
         /\ Untorn(EkOf(r, m)[i], i, m)
<1>1. PICK w, l : w = EkOf(r, m) /\ l = w[i]
  OBVIOUS
<1>2. /\ w \in Seq(Lines) /\ Len(w) = IF m = 0 THEN 1 ELSE m + 2
      /\ w[1] = [verb |-> "p", num |-> Num("p", 0, r)]
      /\ m > 0 => w[2] = [verb |-> "h d:", num |-> m]
      /\ m > 0 => \A j \in 3 .. (m + 2) : w[j] = [verb |-> "value", num |-> Num("h", j - 2, r)]
  BY <1>1, EkOfIs
<1>3. r \in Nat /\ m \in Nat /\ i \in 1 .. Len(w)
  BY <1>1
<1>4. l \in Lines
  BY ONLY <1>1, <1>2, <1>3, ElementOfSeq
<1>5. i \in Nat /\ (i = 1 \/ (m > 0 /\ i = 2) \/ (m > 0 /\ i \in 3 .. (m + 2) /\ i - 2 \in Nat))
  <2>1. PICK n : n = Len(w)
    OBVIOUS
  <2>2. i \in 1 .. n /\ n = IF m = 0 THEN 1 ELSE m + 2
    BY <1>2, <1>3, <2>1
  <2> QED
    BY ONLY <1>3, <2>2
<1>6. CASE i = 1
  <2>1. PICK n : n = Num("p", 0, r)
    OBVIOUS
  <2>2. n \in Numbers /\ n.of = <<"p", 0>> /\ n.run = r /\ n.cut = FALSE
    <3>1. "p" \in Names /\ 0 \in Nat
      BY DEF Names
    <3> QED
      BY ONLY <1>3, <2>1, <3>1, NumbersOf, Zenon
  <2>3. l = [verb |-> "p", num |-> n]
    BY <1>1, <1>2, <1>6, <2>1
  <2>4. EkPlaces(l, i, r, m) /\ l.verb = "p" /\ l.num = n /\ Untorn(l, i, m)
    BY ONLY <1>6, <2>2, <2>3 DEF EkPlaces, NumberOf, HeaderOf, Untorn
  <2> QED
    BY ONLY <1>1, <1>4, <2>2, <2>4
<1>7. CASE m > 0 /\ i = 2
  <2>1. l = [verb |-> "h d:", num |-> m]
    BY <1>1, <1>2, <1>7
  <2>2. EkPlaces(l, i, r, m) /\ l.verb = "h d:" /\ l.num = m /\ Untorn(l, i, m)
    BY ONLY <1>7, <2>1 DEF EkPlaces, NumberOf, HeaderOf, Untorn
  <2> QED
    BY ONLY <1>1, <1>3, <1>4, <2>2
<1>8. CASE m > 0 /\ i \in 3 .. (m + 2) /\ i - 2 \in Nat
  <2>1. PICK n : n = Num("h", i - 2, r)
    OBVIOUS
  <2>2. n \in Numbers /\ n.of = <<"h", i - 2>> /\ n.run = r /\ n.cut = FALSE
    <3>1. "h" \in Names
      BY DEF Names
    <3> QED
      BY ONLY <1>3, <1>8, <2>1, <3>1, NumbersOf, Zenon
  <2>3. l = [verb |-> "value", num |-> n]
    BY <1>1, <1>2, <1>8, <2>1
  <2>4. EkPlaces(l, i, r, m) /\ l.verb = "value" /\ l.num = n /\ Untorn(l, i, m)
    BY ONLY <1>8, <2>2, <2>3 DEF EkPlaces, NumberOf, HeaderOf, Untorn
  <2> QED
    BY ONLY <1>1, <1>4, <2>2, <2>4
<1> QED
  BY ONLY <1>5, <1>6, <1>7, <1>8

\* What the i-th line of a secret key is: a number of the run under its variable.
LEMMA SkCuts ==
  ASSUME NEW r \in Nat, NEW m \in Nat, NEW i \in 1 .. Len(SkOf(r, m))
  PROVE  /\ SkOf(r, m)[i] \in Lines
         /\ SkOf(r, m)[i].num \in Numbers /\ SkOf(r, m)[i].num.cut = FALSE
         /\ SkOf(r, m)[i].verb # "h d:"
         /\ SkPlaces(SkOf(r, m)[i], i, r, m) /\ SkOf(r, m)[i].verb # "text"
<1>1. PICK w, l : w = SkOf(r, m) /\ l = w[i]
  OBVIOUS
<1>2. /\ w \in Seq(Lines) /\ Len(w) = IF m = 0 THEN 3 ELSE 4
      /\ w[1] = [verb |-> "k", num |-> Num("k", 0, r)]
      /\ w[2] = [verb |-> "x", num |-> Num("x", 0, r)]
      /\ w[3] = [verb |-> "p", num |-> Num("p", 0, r)]
      /\ m > 0 => w[4] = [verb |-> "g", num |-> Num("g", 0, r)]
  BY <1>1, SkOfIs
<1>3. r \in Nat /\ m \in Nat /\ i \in 1 .. Len(w)
  BY <1>1
<1>4. l \in Lines
  BY ONLY <1>1, <1>2, <1>3, ElementOfSeq
<1>5. i = 1 \/ i = 2 \/ i = 3 \/ (i = 4 /\ m > 0)
  <2>1. PICK n : n = Len(w)
    OBVIOUS
  <2>2. i \in 1 .. n /\ n = IF m = 0 THEN 3 ELSE 4
    BY <1>2, <1>3, <2>1
  <2> QED
    BY ONLY <1>3, <2>2
<1>6. PICK v, n :
        /\ v \in {"k", "x", "p", "g"} /\ n = Num(v, 0, r) /\ l = [verb |-> v, num |-> n]
        /\ \/ i = 1 /\ v = "k"
           \/ i = 2 /\ v = "x"
           \/ i = 3 /\ v = "p"
           \/ i = 4 /\ m > 0 /\ v = "g"
  BY ONLY <1>1, <1>2, <1>5
<1>7. n \in Numbers /\ n.of = <<v, 0>> /\ n.run = r /\ n.cut = FALSE
  <2>1. v \in Names /\ 0 \in Nat
    BY <1>6 DEF Names
  <2> QED
    BY ONLY <1>3, <1>6, <2>1, NumbersOf, Zenon
<1>8. SkPlaces(l, i, r, m) /\ l.verb = v /\ l.num = n /\ v \notin {"h d:", "text"}
  BY ONLY <1>6, <1>7 DEF SkPlaces
<1> QED
  BY ONLY <1>1, <1>4, <1>7, <1>8

\* Cut lines are in their places as well.
LEMMA EkPartIs ==
  ASSUME NEW r \in Nat, NEW m \in Nat, NEW lines, Part(lines, EkOf(r, m))
  PROVE  \A i \in 1 .. Len(lines) :
           /\ EkPlaces(lines[i], i, r, m)
           /\ i < Len(lines) \/ lines = EkOf(r, m) => Untorn(lines[i], i, m)
<1> TAKE i \in 1 .. Len(lines)
<1>1. PICK w, l, c : w = EkOf(r, m) /\ l = w[i] /\ c = lines[i]
  OBVIOUS
<1>2. /\ i \in 1 .. Len(w) /\ (c = l \/ c \in Cut(l))
      /\ i < Len(lines) \/ lines = w => c = l
  <2>1. w \in Seq(Lines)
    BY <1>1, EkOfIs
  <2>2. ~ (i < Len(lines) /\ i = Len(lines))
    BY DEF Part
  <2> QED
    BY <1>1, <2>1, <2>2 DEF Part
<1>3. /\ l \in Lines /\ (l.verb # "h d:" => l.num \in Numbers) /\ (l.verb = "h d:" => l.num \in Nat)
      /\ EkPlaces(l, i, r, m) /\ l.verb # "text" /\ Untorn(l, i, m)
  BY <1>1, <1>2, EkCuts
<1>4. ASSUME c = l
      PROVE  EkPlaces(c, i, r, m)
  BY <1>3, <1>4
<1>5. ASSUME c \in Cut(l)
      PROVE  EkPlaces(c, i, r, m)
  <2>1. \/ c.verb = "text" /\ c.num = BadNum
        \/ /\ l.verb # "h d:" /\ c.verb = l.verb /\ c.num \in Numbers
           /\ c.num.of = l.num.of /\ c.num.run = l.num.run
        \/ l.verb = "h d:" /\ TornHeader(c, l.num)
    BY <1>3, <1>5, CutIs
  <2>2. CASE l.verb = "h d:" /\ TornHeader(c, l.num)
    <3>1. i = 2 /\ m > 0
      BY <1>3, <2>2 DEF EkPlaces, Untorn
    <3>2. l.num = m
      BY <1>3, <3>1 DEF Untorn, HeaderOf
    <3>3. TornHeader(c, m)
      BY ONLY <2>2, <3>2
    <3> QED
      BY ONLY <3>1, <3>3, Zenon DEF EkPlaces
  <2>3. CASE ~ (l.verb = "h d:" /\ TornHeader(c, l.num))
    <3>1. CASE c.verb = "text" /\ c.num = BadNum
      BY ONLY <3>1, Zenon DEF EkPlaces
    <3>2. CASE /\ l.verb # "h d:" /\ c.verb = l.verb /\ c.num \in Numbers
               /\ c.num.of = l.num.of /\ c.num.run = l.num.run
      <4>1. ~ (i = 2 /\ m > 0)
        BY ONLY <1>3, <3>2, Zenon DEF Untorn, HeaderOf
      <4> QED
        BY ONLY <1>3, <3>2, <4>1, Zenon DEF EkPlaces, NumberOf
    <3> QED
      BY ONLY <2>1, <2>3, <3>1, <3>2
  <2> QED
    BY ONLY <2>2, <2>3
<1>6. EkPlaces(c, i, r, m)
  BY <1>2, <1>4, <1>5
<1>7. i < Len(lines) \/ lines = w => Untorn(c, i, m)
  BY <1>2, <1>3
<1> QED
  BY <1>1, <1>6, <1>7

\* Every line of a beginning of a secret key is in its place, or was cut off to a text.
LEMMA SkPartIs ==
  ASSUME NEW r \in Nat, NEW m \in Nat, NEW lines, Part(lines, SkOf(r, m))
  PROVE  \A i \in 1 .. Len(lines) : SkPlaces(lines[i], i, r, m)
<1> TAKE i \in 1 .. Len(lines)
<1>1. PICK w, l, c : w = SkOf(r, m) /\ l = w[i] /\ c = lines[i]
  OBVIOUS
<1>2. i \in 1 .. Len(w) /\ (c = l \/ c \in Cut(l))
  <2>1. w \in Seq(Lines)
    BY <1>1, SkOfIs
  <2> QED
    BY <1>1, <2>1 DEF Part
<1>3. l \in Lines /\ l.verb # "h d:" /\ l.num \in Numbers /\ SkPlaces(l, i, r, m) /\ l.verb # "text"
  BY <1>1, <1>2, SkCuts
<1>4. CASE c = l
  BY <1>1, <1>3, <1>4
<1>5. CASE c \in Cut(l)
  <2>1. \/ c.verb = "text" /\ c.num = BadNum
        \/ /\ c.verb = l.verb /\ c.num \in Numbers
           /\ c.num.of = l.num.of /\ c.num.run = l.num.run
    BY ONLY <1>3, <1>5, CutIs
  <2> QED
    <3>1. SkPlaces(c, i, r, m)
      BY ONLY <1>3, <2>1 DEF SkPlaces
    <3> QED
      BY <1>1, <3>1
<1> QED
  BY <1>2, <1>4, <1>5

-----------------------------------------------------------------------------
(***************************************************************************)
(* What the readers hold of a file that keygen wrote, or began to write    *)
(***************************************************************************)
InEk(s, r) ==
  /\ s.p # NULL => s.p.of = <<"p", 0>> /\ s.p.run = r
  /\ \A i \in DOMAIN s.h : s.h[i] # NULL => s.h[i].of = <<"h", i>> /\ s.h[i].run = r

\* Where the reader is after n lines.
EkGoes(s, n, m) ==
  s.status = "reading" =>
    /\ n < 2 => s.d = 0 /\ s.d_written = 0 /\ ~ s.reading_h
    /\ n >= 2 => s.d = m /\ s.d_written = n - 2 /\ s.reading_h

\* After n lines that are whole.
EkUncut(s, n) ==
  /\ s.status = "reading" /\ (n >= 1 => s.p # NULL)
  /\ s.p # NULL => s.p.cut = FALSE
  /\ \A i \in DOMAIN s.h : s.h[i] # NULL => s.h[i].cut = FALSE

InSk(s, r) ==
  \A f \in SkVars : s.key[f] # NULL => s.key[f].of = <<f, 0>> /\ s.key[f].run = r

SkUncut(s, n, m) ==
  /\ s.err = "E_NOERR" /\ ~ s.over
  /\ n >= 1 => s.key["k"] # NULL
  /\ n >= 2 => s.key["x"] # NULL
  /\ n >= 3 => s.key["p"] # NULL
  /\ n >= 4 => s.key["g"] # NULL
  /\ m = 0 => s.key["g"] = NULL
  /\ \A f \in SkVars : s.key[f] # NULL => s.key[f].cut = FALSE

\* One more line of FN.sk.
LEMMA SkStep ==
  ASSUME NEW r \in Nat, NEW m \in Nat, NEW n \in Nat, NEW s \in SkStates, NEW l,
         InSk(s, r), SkPlaces(l, n + 1, r, m)
  PROVE  /\ InSk(SkLine(s, l), r)
         /\ SkUncut(s, n, m) /\ l.verb # "text" /\ l.num.cut = FALSE =>
              SkUncut(SkLine(s, l), n + 1, m)
<1>1. PICK t : t = SkLine(s, l)
  OBVIOUS
<1>2. CASE s.over
  <2>1. t = s
    BY <1>1, <1>2 DEF SkLine
  <2>2. ~ SkUncut(s, n, m)
    BY <1>2 DEF SkUncut
  <2> QED
    BY <1>1, <2>1, <2>2, Zenon
<1>3. CASE ~ s.over /\ l.verb = "text"
  <2>1. t = [s EXCEPT !.err = "E_FILE_FORMAT", !.over = TRUE]
    BY <1>1, <1>3 DEF SkLine, SkVars
  <2>2. t.key = s.key
    BY <2>1 DEF SkStates
  <2>3. InSk(t, r)
    BY <2>2 DEF InSk
  <2> QED
    BY <1>1, <1>3, <2>3
<1>4. CASE ~ s.over /\ l.verb # "text"
  <2>1. /\ l.num \in Numbers /\ l.num.of = <<l.verb, 0>> /\ l.num.run = r
        /\ \/ n + 1 = 1 /\ l.verb = "k"
           \/ n + 1 = 2 /\ l.verb = "x"
           \/ n + 1 = 3 /\ l.verb = "p"
           \/ n + 1 = 4 /\ m > 0 /\ l.verb = "g"
    BY <1>4, Zenon DEF SkPlaces
  <2>2. PICK v, x : v = l.verb /\ x = l.num
    OBVIOUS
  <2>3. x # BadNum /\ x # NULL /\ x.of = <<v, 0>> /\ x.run = r /\ v \in SkVars
    <3>1. x # BadNum /\ x # NULL
      BY <2>1, <2>2, NumbersAssumption
    <3>2. v \in SkVars
      BY <2>1, <2>2 DEF SkVars
    <3> QED
      BY <2>1, <2>2, <3>1, <3>2, Zenon
  <2>4. t = [s EXCEPT !.key[v] = x, !.err = "E_NOERR"]
    BY <1>1, <1>4, <2>2, <2>3 DEF SkLine, SkVars
  <2>5. /\ t.key[v] = x /\ \A f \in SkVars : f # v => t.key[f] = s.key[f]
        /\ t.err = "E_NOERR" /\ t.over = s.over
    BY <2>3, <2>4 DEF SkStates
  <2>6. InSk(t, r)
    BY <2>3, <2>5, Zenon DEF InSk
  <2>7. ASSUME SkUncut(s, n, m), x.cut = FALSE
        PROVE  SkUncut(t, n + 1, m)
    <3>1. \A f \in SkVars : t.key[f] # NULL => t.key[f].cut = FALSE
      BY <2>3, <2>5, <2>7, Zenon DEF SkUncut
    <3>2. /\ n >= 1 => s.key["k"] # NULL
          /\ n >= 2 => s.key["x"] # NULL
          /\ n >= 3 => s.key["p"] # NULL
          /\ n >= 4 => s.key["g"] # NULL
          /\ m = 0 => s.key["g"] = NULL
          /\ ~ s.over
      BY <2>7, Zenon DEF SkUncut
    <3>3. \A f \in {"k", "x", "p", "g"} : t.key[f] = IF f = v THEN x ELSE s.key[f]
      BY <2>5 DEF SkVars
    <3>4. /\ n + 1 >= 1 => t.key["k"] # NULL
          /\ n + 1 >= 2 => t.key["x"] # NULL
          /\ n + 1 >= 3 => t.key["p"] # NULL
          /\ n + 1 >= 4 => t.key["g"] # NULL
          /\ m = 0 => t.key["g"] = NULL
      BY <2>1, <2>2, <2>3, <3>2, <3>3
    <3> QED
      BY <2>5, <3>1, <3>2, <3>4, Zenon DEF SkUncut
  <2> QED
    BY <1>1, <2>2, <2>6, <2>7, Zenon
<1> QED
  BY <1>2, <1>3, <1>4

\* One more line of FN.ek.
LEMMA EkStep ==
  ASSUME NEW r \in Nat, NEW m \in Nat, NEW n \in Nat, NEW s \in EkStates, NEW l,
         InEk(s, r), EkGoes(s, n, m), EkPlaces(l, n + 1, r, m)
  PROVE  /\ InEk(EkLine(s, l), r)
         /\ Untorn(l, n + 1, m) => EkGoes(EkLine(s, l), n + 1, m)
         /\ /\ EkUncut(s, n) /\ l.verb # "text" /\ Untorn(l, n + 1, m)
            /\ l.verb # "h d:" => l.num.cut = FALSE
            => EkUncut(EkLine(s, l), n + 1)
<1>1. PICK t : t = EkLine(s, l)
  OBVIOUS
<1>2. s \in EkRecords /\ DOMAIN s.h = 1 .. s.d /\ s.d \in Nat /\ s.h \in [1 .. s.d -> Numbers \cup {NULL}]
  <2>1. s \in EkRecords /\ DOMAIN s.h = 1 .. s.d
    BY DEF EkStates, Stored
  <2>2. s.h \in Powers /\ s.d \in Nat
    BY <2>1 DEF EkRecords
  <2>3. PICK k \in Nat : s.h \in [1 .. k -> Numbers \cup {NULL}]
    BY <2>2 DEF Powers
  <2>4. s.h \in [1 .. s.d -> Numbers \cup {NULL}]
    BY <2>1, <2>3
  <2> QED
    BY <2>1, <2>2, <2>4
<1>3. CASE s.status # "reading"
  <2>1. t = s
    BY <1>1, <1>3 DEF EkLine
  <2>2. ~ EkUncut(s, n) /\ EkGoes(s, n + 1, m)
    BY <1>3 DEF EkUncut, EkGoes
  <2> QED
    BY <1>1, <2>1, <2>2, Zenon
<1>4. CASE s.status = "reading" /\ l.verb = "text"
  <2>1. t = Refuse(s) \/ t = [s EXCEPT !.status = "corrupted"]
    BY <1>1, <1>4 DEF EkLine, EkPower, EkVar, IsVar, SkVars
  <2>2. t.p = s.p /\ t.h = s.h /\ t.status # "reading"
    BY <1>2, <2>1 DEF EkRecords, Refuse
  <2>3. InEk(t, r) /\ EkGoes(t, n + 1, m)
    BY <2>2 DEF InEk, EkGoes
  <2> QED
    BY <1>1, <1>4, <2>3
<1>5. CASE s.status = "reading" /\ n + 1 = 1 /\ l.verb = "p" /\ l.num \in Numbers
           /\ l.num.of = <<"p", 0>> /\ l.num.run = r
  <2>1. n = 0 /\ ~ s.reading_h /\ s.d = 0 /\ s.d_written = 0 /\ l.num # BadNum /\ l.num # NULL
    <3>1. n = 0
      BY <1>5
    <3>2. l.num # BadNum /\ l.num # NULL
      BY <1>5, NumbersAssumption
    <3> QED
      BY <1>5, <3>1, <3>2 DEF EkGoes
  <2>2. t = [s EXCEPT !.p = l.num]
    BY <1>1, <1>5, <2>1 DEF EkLine, EkVar, IsVar, SkVars
  <2>3. /\ t.p = l.num /\ t.h = s.h /\ t.status = "reading" /\ t.d = s.d
        /\ t.d_written = s.d_written /\ t.reading_h = s.reading_h
    BY <1>2, <1>5, <2>2 DEF EkRecords
  <2>4. InEk(t, r)
    BY <1>5, <2>3, Zenon DEF InEk
  <2>5. EkGoes(t, n + 1, m)
    BY <2>1, <2>3 DEF EkGoes
  <2>6. ASSUME EkUncut(s, n), l.num.cut = FALSE
        PROVE  EkUncut(t, n + 1)
    BY <2>1, <2>3, <2>6, Zenon DEF EkUncut
  <2> QED
    BY <1>1, <1>5, <2>4, <2>5, <2>6, Zenon
<1>6. CASE s.status = "reading" /\ n + 1 = 2 /\ m > 0 /\ l.verb = "h d:" /\ l.num = m
  <2>1. PICK h : h = [i \in 1 .. m |-> NULL]
    OBVIOUS
  <2>2. /\ n = 1 /\ ~ s.reading_h /\ s.d = 0 /\ m # BadNum /\ m # NoNum /\ m # 0
    <3>1. n + 1 = 2 /\ m > 0 /\ s.status = "reading"
      BY <1>6, Zenon
    <3>2. n = 1 /\ m # 0
      BY <3>1
    <3>3. m # BadNum /\ m # NoNum
      BY NumbersAssumption
    <3> QED
      BY <3>1, <3>2, <3>3 DEF EkGoes
  <2>3. t = [s EXCEPT !.h = h, !.d = m, !.d_written = 0, !.reading_h = TRUE]
    <3>1. t = EkHeader(s, l)
      BY <1>1, <1>6 DEF EkLine
    <3>2. EkHeader(s, l) = [s EXCEPT !.h = [i \in 1 .. m |-> NULL], !.d = m,
                                    !.d_written = 0, !.reading_h = TRUE]
      BY ONLY <1>6, <2>2, Zenon DEF EkHeader
    <3> QED
      BY ONLY <2>1, <3>1, <3>2
  <2>4. /\ t.p = s.p /\ t.h = h /\ t.status = "reading" /\ t.d = m
        /\ t.d_written = 0 /\ t.reading_h
    BY <1>2, <1>6, <2>3 DEF EkRecords
  <2>5. \A i \in DOMAIN t.h : t.h[i] = NULL
    BY <2>1, <2>4
  <2>6. InEk(t, r)
    BY <2>4, <2>5, Zenon DEF InEk
  <2>7. EkGoes(t, n + 1, m)
    BY <2>2, <2>4 DEF EkGoes
  <2>8. ASSUME EkUncut(s, n)
        PROVE  EkUncut(t, n + 1)
    <3>1. s.p # NULL /\ s.p.cut = FALSE
      BY <2>2, <2>8 DEF EkUncut
    <3> QED
      BY <2>4, <2>5, <3>1, Zenon DEF EkUncut
  <2> QED
    BY <1>1, <2>6, <2>7, <2>8, Zenon
<1>7. CASE /\ s.status = "reading" /\ n + 1 \in 3 .. (m + 2) /\ l.verb = "value"
           /\ l.num \in Numbers /\ l.num.of = <<"h", n + 1 - 2>> /\ l.num.run = r
  <2>1. PICK k, x, h : k = n - 1 /\ x = l.num /\ h = [s.h EXCEPT ![k] = x]
    OBVIOUS
  <2>2. /\ n >= 2 /\ k \in 1 .. m /\ k = n + 1 - 2 /\ s.reading_h /\ s.d = m /\ s.d_written = n - 2
        /\ s.d_written + 1 = k /\ s.d_written # s.d
    <3>1. n >= 2 /\ n + 1 <= m + 2
      BY <1>7
    <3>2. s.reading_h /\ s.d = m /\ s.d_written = n - 2
      BY <1>7, <3>1 DEF EkGoes
    <3> QED
      BY ONLY n \in Nat, m \in Nat, <2>1, <3>1, <3>2
  <2>3. x # BadNum /\ x # NULL /\ x.of = <<"h", k>> /\ x.run = r
    <3>1. x # BadNum /\ x # NULL
      BY <1>7, <2>1, NumbersAssumption
    <3> QED
      BY <1>7, <2>1, <2>2, <3>1, Zenon
  <2>4. t = [s EXCEPT !.h[k] = x, !.d_written = @ + 1]
    BY <1>1, <1>7, <2>1, <2>2, <2>3 DEF EkLine, EkPower
  <2>5. /\ t.p = s.p /\ t.h = h /\ t.status = "reading" /\ t.d = m
        /\ t.d_written = k /\ t.reading_h
    BY <1>2, <1>7, <2>1, <2>2, <2>4 DEF EkRecords
  <2>6. h[k] = x /\ DOMAIN h = DOMAIN s.h /\ \A i \in DOMAIN h : i # k => h[i] = s.h[i]
    BY <1>2, <2>1, <2>2
  <2>7. InEk(t, r)
    BY <2>3, <2>5, <2>6, Zenon DEF InEk
  <2>8. EkGoes(t, n + 1, m)
    <3>1. n + 1 >= 2 /\ k = n + 1 - 2 /\ ~ (n + 1 < 2)
      BY <2>2
    <3> QED
      BY <2>5, <3>1 DEF EkGoes
  <2>9. ASSUME EkUncut(s, n), x.cut = FALSE
        PROVE  EkUncut(t, n + 1)
    <3>1. s.p # NULL /\ s.p.cut = FALSE
      BY <2>2, <2>9 DEF EkUncut
    <3>2. \A i \in DOMAIN s.h : s.h[i] # NULL => s.h[i].cut = FALSE
      BY <2>9, Zenon DEF EkUncut
    <3>3. \A i \in DOMAIN h : h[i] # NULL => h[i].cut = FALSE
      BY <2>3, <2>6, <2>9, <3>2, Zenon
    <3> QED
      BY <2>5, <3>1, <3>3, Zenon DEF EkUncut
  <2> QED
    BY <1>1, <1>7, <2>1, <2>7, <2>8, <2>9
<1>8. CASE s.status = "reading" /\ n + 1 = 2 /\ TornHeader(l, m) /\ ~ HeaderOf(l, m)
  <2>1. l.verb \in {"h d:", "z"} /\ (l.verb = "h d:" => l.num \in (1 .. m) \cup {NoNum})
        /\ (l.verb = "z" => l.num = BadNum)
    BY <1>8 DEF TornHeader
  <2>2. ~ Untorn(l, n + 1, m)
    BY <1>8, <2>1 DEF Untorn
  <2>3. ~ s.reading_h /\ s.d = 0
    <3>1. n < 2
      BY <1>8
    <3> QED
      BY <1>8, <3>1 DEF EkGoes
  <2>4. CASE l.verb = "z"
    <3>1. t = s
      BY <1>1, <1>8, <2>3, <2>4 DEF EkLine, EkVar, IsVar
    <3> QED
      BY <1>1, <2>2, <3>1
  <2>5. CASE l.verb = "h d:" /\ l.num = NoNum
    <3>1. t = EkHeader(s, l)
      BY <1>1, <1>8, <2>5 DEF EkLine
    <3>2. EkHeader(s, l) = [s EXCEPT !.status = "crashed"]
      <4>1. PICK u : u = [s EXCEPT !.status = "crashed"]
        OBVIOUS
      <4>2. EkHeader(s, l) = u
        BY ONLY <2>3, <2>5, <4>1, Zenon DEF EkHeader
      <4> QED
        BY ONLY <4>1, <4>2
    <3>3. t.p = s.p /\ t.h = s.h
      BY <1>2, <3>1, <3>2 DEF EkRecords
    <3>4. InEk(t, r)
      BY <3>3 DEF InEk
    <3> QED
      BY <1>1, <2>2, <3>4
  <2>6. CASE l.verb = "h d:" /\ l.num \in 1 .. m
    <3> PICK k \in 1 .. m : k = l.num
      BY <2>6
    <3> PICK h : h = [i \in 1 .. k |-> NULL]
      OBVIOUS
    <3>1. k = l.num /\ h = [i \in 1 .. k |-> NULL]
      OBVIOUS
    <3>2. k \notin {BadNum, NoNum, 0} /\ k \in Nat
      <4>1. k \in Nat /\ k # 0
        BY ONLY k \in 1 .. m, m \in Nat
      <4>2. k # BadNum /\ k # NoNum
        BY <4>1, NumbersAssumption
      <4> QED
        BY ONLY <4>1, <4>2
    <3>3. t = EkHeader(s, l)
      BY <1>1, <1>8, <2>6 DEF EkLine
    <3>4. EkHeader(s, l) = [s EXCEPT !.h = [i \in 1 .. l.num |-> NULL], !.d = l.num,
                                    !.d_written = 0, !.reading_h = TRUE]
      BY ONLY <2>3, <3>1, <3>2, Zenon DEF EkHeader
    <3>5. t.p = s.p /\ t.h = h
      BY <1>2, <3>1, <3>3, <3>4 DEF EkRecords
    <3>6. \A i \in DOMAIN t.h : t.h[i] = NULL
      BY <3>1, <3>5
    <3>7. InEk(t, r)
      BY <3>5, <3>6, Zenon DEF InEk
    <3> QED
      BY <1>1, <2>2, <3>7
  <2> QED
    BY <2>1, <2>4, <2>5, <2>6
<1>9. \/ l.verb = "text"
      \/ n + 1 = 1 /\ l.verb = "p" /\ NumberOf(l, "p", 0, r)
      \/ n + 1 = 2 /\ m > 0 /\ (HeaderOf(l, m) \/ TornHeader(l, m))
      \/ n + 1 \in 3 .. (m + 2) /\ l.verb = "value" /\ NumberOf(l, "h", n + 1 - 2, r)
  <2>1. PICK k : k = n + 1
    OBVIOUS
  <2>2. EkPlaces(l, k, r, m)
    BY <2>1
  <2>3. \/ l.verb = "text"
        \/ k = 1 /\ l.verb = "p" /\ NumberOf(l, "p", 0, r)
        \/ k = 2 /\ m > 0 /\ (HeaderOf(l, m) \/ TornHeader(l, m))
        \/ k \in 3 .. (m + 2) /\ l.verb = "value" /\ NumberOf(l, "h", k - 2, r)
    BY ONLY <2>2, Zenon DEF EkPlaces
  <2> QED
    BY <2>1, <2>3
<1> QED
  BY <1>3, <1>4, <1>5, <1>6, <1>7, <1>8, <1>9, Zenon DEF NumberOf, HeaderOf

\* What is read of a file that keygen began to write, and of a whole one.
LEMMA SkOfPart ==
  ASSUME NEW r \in Nat, NEW m \in Nat, NEW lines, Part(lines, SkOf(r, m))
  PROVE  /\ ReadSk(lines) \in SkStates /\ InSk(ReadSk(lines), r)
         /\ lines = SkOf(r, m) => SkUncut(ReadSk(lines), Len(lines), m)
<1>1. lines \in Seq(Lines) /\ Len(lines) \in Nat
  BY DEF Part
<1>2. PICK f, N : SkAfter(f, lines) /\ N = Len(lines)
  BY <1>1, SkReads
<1>3. /\ f \in [0 .. N -> SkStates] /\ f[0] = NoSk /\ N \in Nat
      /\ \A n \in 1 .. N : f[n] = SkLine(f[n - 1], lines[n])
      /\ ReadSk(lines) = f[N]
  BY <1>1, <1>2 DEF SkAfter
<1>4. \A n \in 1 .. N : SkPlaces(lines[n], n, r, m)
  BY <1>2, SkPartIs
<1>5. PICK whole, P :
        /\ whole = (lines = SkOf(r, m))
        /\ P = {n \in 0 .. N : InSk(f[n], r) /\ (whole => SkUncut(f[n], n, m))}
  OBVIOUS
<1>6. 0 \in P
  <2>1. InSk(NoSk, r) /\ SkUncut(NoSk, 0, m)
    BY DEF InSk, SkUncut, NoSk, SkVars
  <2> QED
    BY <1>3, <1>5, <2>1
<1>7. \A n \in 1 .. N : n - 1 \in P => n \in P
  <2> SUFFICES ASSUME NEW n \in 1 .. N, n - 1 \in P
               PROVE  n \in P
    OBVIOUS
  <2>1. PICK j, s, l : j = n - 1 /\ s = f[j] /\ l = lines[n]
    OBVIOUS
  <2>2. j \in Nat /\ j \in 0 .. N /\ j + 1 = n /\ n \in 0 .. N
    BY <1>3, <2>1
  <2>3. s \in SkStates /\ f[n] = SkLine(s, l)
    BY <1>3, <2>1, <2>2
  <2>4. InSk(s, r) /\ (whole => SkUncut(s, j, m))
    BY <1>5, <2>1
  <2>5. SkPlaces(l, j + 1, r, m)
    BY <1>4, <2>1, <2>2
  <2>6. /\ InSk(SkLine(s, l), r)
        /\ SkUncut(s, j, m) /\ l.verb # "text" /\ l.num.cut = FALSE => SkUncut(SkLine(s, l), j + 1, m)
    BY <2>2, <2>3, <2>4, <2>5, SkStep
  <2>7. ASSUME whole
        PROVE  l.verb # "text" /\ l.num.cut = FALSE
    <3>1. n \in 1 .. Len(SkOf(r, m)) /\ l = SkOf(r, m)[n]
      BY <1>2, <1>5, <2>1, <2>7
    <3> QED
      BY <3>1, SkCuts
  <2> QED
    BY <1>5, <2>2, <2>3, <2>4, <2>6, <2>7
<1>8. \A n \in 0 .. N : n \in P
  BY ONLY <1>3, <1>6, <1>7, UpTo
<1>9. N \in P /\ N \in 0 .. N
  BY <1>3, <1>8
<1>10. f[N] \in SkStates
  BY <1>3, <1>9
<1> QED
  BY <1>2, <1>3, <1>5, <1>9, <1>10

\* What reading a beginning of an evaluation key gives: numbers of its run in their
\* places, none of them cut when the file is whole.
LEMMA EkOfPart ==
  ASSUME NEW r \in Nat, NEW m \in Nat, NEW lines, Part(lines, EkOf(r, m))
  PROVE  /\ ReadEk(lines) \in EkStates /\ InEk(ReadEk(lines), r)
         /\ lines = EkOf(r, m) => /\ EkGoes(ReadEk(lines), Len(lines), m)
                                 /\ EkUncut(ReadEk(lines), Len(lines))
<1>1. lines \in Seq(Lines) /\ Len(lines) \in Nat
  BY DEF Part
<1>2. PICK f, N : EkAfter(f, lines) /\ N = Len(lines)
  BY <1>1, EkReads
<1>3. /\ f \in [0 .. N -> EkStates] /\ f[0] = NoEk /\ N \in Nat
      /\ \A n \in 1 .. N : f[n] = EkLine(f[n - 1], lines[n])
      /\ ReadEk(lines) = f[N]
  BY <1>1, <1>2 DEF EkAfter
<1>4. \A n \in 1 .. N : /\ EkPlaces(lines[n], n, r, m)
                        /\ n < N \/ lines = EkOf(r, m) => Untorn(lines[n], n, m)
  BY <1>2, EkPartIs
<1>5. PICK whole, P :
        /\ whole = (lines = EkOf(r, m))
        /\ P = {n \in 0 .. N : /\ InEk(f[n], r) /\ (n < N \/ whole => EkGoes(f[n], n, m))
                               /\ whole => EkUncut(f[n], n)}
  OBVIOUS
<1>6. 0 \in P
  <2>1. InEk(NoEk, r) /\ EkGoes(NoEk, 0, m) /\ EkUncut(NoEk, 0)
    BY DEF InEk, EkGoes, EkUncut, NoEk
  <2> QED
    BY <1>3, <1>5, <2>1
<1>7. \A n \in 1 .. N : n - 1 \in P => n \in P
  <2> SUFFICES ASSUME NEW n \in 1 .. N, n - 1 \in P
               PROVE  n \in P
    OBVIOUS
  <2>1. PICK j, s, l : j = n - 1 /\ s = f[j] /\ l = lines[n]
    OBVIOUS
  <2>2. j \in Nat /\ j \in 0 .. N /\ j + 1 = n /\ n \in 0 .. N /\ j < N
    BY <1>3, <2>1
  <2>3. s \in EkStates /\ f[n] = EkLine(s, l)
    BY <1>3, <2>1, <2>2
  <2>4. InEk(s, r) /\ EkGoes(s, j, m) /\ (whole => EkUncut(s, j))
    BY <1>5, <2>1, <2>2
  <2>5. EkPlaces(l, j + 1, r, m) /\ (n < N \/ whole => Untorn(l, j + 1, m))
    BY <1>4, <1>5, <2>1, <2>2
  <2>6. /\ InEk(EkLine(s, l), r)
        /\ Untorn(l, j + 1, m) => EkGoes(EkLine(s, l), j + 1, m)
        /\ /\ EkUncut(s, j) /\ l.verb # "text" /\ Untorn(l, j + 1, m)
           /\ l.verb # "h d:" => l.num.cut = FALSE
           => EkUncut(EkLine(s, l), j + 1)
    BY <2>2, <2>3, <2>4, <2>5, EkStep
  <2>7. ASSUME whole
        PROVE  l.verb # "text" /\ (l.verb # "h d:" => l.num.cut = FALSE)
    <3>1. n \in 1 .. Len(EkOf(r, m)) /\ l = EkOf(r, m)[n]
      BY <1>2, <1>5, <2>1, <2>7
    <3> QED
      BY <3>1, EkCuts
  <2> QED
    BY <1>5, <2>2, <2>3, <2>4, <2>5, <2>6, <2>7
<1>8. \A n \in 0 .. N : n \in P
  BY ONLY <1>3, <1>6, <1>7, UpTo
<1>9. N \in P /\ N \in 0 .. N
  BY <1>3, <1>8
<1>10. f[N] \in EkStates
  BY <1>3, <1>9
<1> QED
  BY <1>2, <1>3, <1>5, <1>9, <1>10

\* The whole files of one run are a whole pair.
LEMMA WholeFiles ==
  ASSUME NEW r \in Nat, NEW m \in Nat, ek = EkOf(r, m), sk = SkOf(r, m),
         Part(ek, EkOf(r, m)), Part(sk, SkOf(r, m))
  PROVE  WholePair
<1>1. PICK e, s, N, M : e = ReadEk(ek) /\ s = ReadSk(sk) /\ N = Len(ek) /\ M = Len(sk)
  OBVIOUS
<1>2. /\ e \in EkStates /\ InEk(e, r) /\ EkGoes(e, N, m) /\ EkUncut(e, N)
      /\ InSk(s, r) /\ SkUncut(s, M, m)
  BY <1>1, EkOfPart, SkOfPart
<1>3. N = (IF m = 0 THEN 1 ELSE m + 2) /\ M = IF m = 0 THEN 3 ELSE 4
  BY <1>1, EkOfIs, SkOfIs
<1>4. /\ e.status = "reading" /\ e.d = m /\ e.h \in Powers /\ DOMAIN e.h = 1 .. m
      /\ \A i \in 1 .. m : e.h[i] # NULL
  <2>1. e.status = "reading"
    BY <1>2 DEF EkUncut
  <2>2. e.d = m /\ e.d_written = m
    BY <1>3, <1>2, <2>1 DEF EkGoes
  <2> QED
    BY <1>2, <2>1, <2>2 DEF EkStates, EkRecords, Stored
<1>5. e.p # NULL /\ e.p.cut = FALSE /\ e.p.run = r
  BY <1>2, <1>3 DEF EkUncut, InEk
<1>6. \A i \in DOMAIN e.h : e.h[i] # NULL /\ e.h[i].cut = FALSE /\ e.h[i].run = r
  BY <1>2, <1>4, Zenon DEF EkUncut, InEk
<1>7. /\ s.err = "E_NOERR" /\ s.key["k"] # NULL /\ s.key["x"] # NULL /\ s.key["p"] # NULL
      /\ (m # 0 => s.key["g"] # NULL) /\ (m = 0 => s.key["g"] = NULL)
  BY <1>2, <1>3 DEF SkUncut
<1>8. \A f \in SkVars : s.key[f] # NULL => s.key[f].cut = FALSE /\ s.key[f].run = r
  BY <1>2, Zenon DEF SkUncut, InSk
<1>9. e.h = <<>> <=> m = 0
  <2>1. PICK h, n : h = e.h /\ n \in Nat /\ h \in [1 .. n -> Numbers \cup {NULL}]
    BY <1>4 DEF Powers
  <2>2. DOMAIN h = 1 .. m /\ DOMAIN h = 1 .. n
    BY <1>4, <2>1
  <2>3. CASE m = 0
    <3>1. PICK T : T = Numbers \cup {NULL}
      OBVIOUS
    <3>2. n = 0
      BY <2>1, <2>2, <2>3
    <3>3. h \in Seq(T) /\ Len(h) = 0
      BY ONLY <2>1, <3>1, <3>2
    <3>4. h = <<>>
      BY ONLY <3>3, EmptySeq
    <3> QED
      BY <2>1, <2>3, <3>4
  <2>4. CASE m # 0
    <3>1. 1 \in DOMAIN h
      BY <2>2, <2>4
    <3>2. h # <<>>
      BY <3>1
    <3> QED
      BY <2>1, <2>4, <3>2
  <2> QED
    BY <2>3, <2>4
<1>10. PICK numbers : numbers = {e.p} \cup {e.h[i] : i \in DOMAIN e.h} \cup
                                {s.key[f] : f \in {"k", "x", "p"}} \cup
                                (IF e.h = <<>> THEN {} ELSE {s.key.g})
  OBVIOUS
<1>11. \A x \in numbers : x # NULL /\ x.cut = FALSE /\ x.run = r
  <2> SUFFICES ASSUME NEW x \in numbers
               PROVE  x # NULL /\ x.cut = FALSE /\ x.run = r
    OBVIOUS
  <2>1. \/ x = e.p
        \/ \E i \in DOMAIN e.h : x = e.h[i]
        \/ \E f \in {"k", "x", "p"} : x = s.key[f]
        \/ e.h # <<>> /\ x = s.key["g"]
    BY <1>10
  <2>2. ASSUME NEW i \in DOMAIN e.h, x = e.h[i]
        PROVE  x # NULL /\ x.cut = FALSE /\ x.run = r
    BY <1>6, <2>2, Zenon
  <2>3. ASSUME NEW f \in SkVars, x = s.key[f], s.key[f] # NULL
        PROVE  x # NULL /\ x.cut = FALSE /\ x.run = r
    BY <1>8, <2>3, Zenon
  <2>4. ASSUME NEW f \in {"k", "x", "p"}, x = s.key[f]
        PROVE  f \in SkVars /\ s.key[f] # NULL
    BY <1>7, <2>4 DEF SkVars
  <2>5. ASSUME e.h # <<>>, x = s.key["g"]
        PROVE  "g" \in SkVars /\ s.key["g"] # NULL
    BY <1>7, <1>9, <2>5 DEF SkVars
  <2> QED
    BY <1>5, <2>1, <2>2, <2>3, <2>4, <2>5, Zenon
<1>12. {x.run : x \in numbers} = {r}
  <2>1. e.p \in numbers /\ e.p.run = r
    BY <1>5, <1>10, Zenon
  <2> QED
    BY ONLY <1>11, <2>1, Zenon
<1>13. Cardinality({x.run : x \in numbers}) = 1
  BY ONLY <1>12, FS_Singleton
<1>14. s.err = "E_NOERR" /\ Accepted(e) /\ NULL \notin numbers /\ \A x \in numbers : ~ x.cut
  BY <1>4, <1>7, <1>11, Zenon DEF Accepted
<1>15. e.h = <<>> => s.key.g = NULL
  BY <1>7, <1>9
<1> QED
  BY ONLY <1>1, <1>10, <1>13, <1>14, <1>15 DEF WholePair

-----------------------------------------------------------------------------
(***************************************************************************)
(* The files between two actions.  However keygen got there, there are a   *)
(* run and a degree bound whose files the two files are parts of; they are *)
(* whole as soon as neither is empty, unless the disk was full.            *)
(***************************************************************************)
Pair(r, m) ==
  /\ Part(ek, EkOf(r, m)) /\ Part(sk, SkOf(r, m))
  /\ "full" \notin faulty /\ ek # <<>> /\ sk # <<>> => ek = EkOf(r, m) /\ sk = SkOf(r, m)
  /\ pc \in {"write", "close"} => r = run /\ m = d /\ sk = <<>>
  /\ pc = "close" => ek = EkOf(r, m) \/ "full" \in faulty
  /\ pc = "idle" /\ run > 0 /\ faulty = {} => ek # <<>> /\ sk # <<>>

KInv ==
  /\ pc \in {"idle", "open", "write", "close", "crashed", "foreign"}
  /\ run \in 0 .. MaxRuns /\ d \in Degrees \cup {0} /\ faulty \subseteq Faults
  /\ ek \in Seq(Lines) /\ sk \in Seq(Lines)
  /\ pc # "foreign" => \E r, m \in Nat : Pair(r, m)

\* What may be left of a file is part of it; so is the empty file.
LEMMA LeftOfFiles ==
  ASSUME NEW r \in Nat, NEW m \in Nat
  PROVE  /\ Part(<<>>, EkOf(r, m)) /\ Part(<<>>, SkOf(r, m))
         /\ \A lines \in Beginnings(EkOf(r, m)) \cup {EkOf(r, m)} : Part(lines, EkOf(r, m))
         /\ \A lines \in Beginnings(SkOf(r, m)) \cup {SkOf(r, m)} : Part(lines, SkOf(r, m))
         /\ EkOf(r, m) # <<>> /\ SkOf(r, m) # <<>>
<1>1. PICK e, s : e = EkOf(r, m) /\ s = SkOf(r, m)
  OBVIOUS
<1>2. /\ e \in Seq(Lines) /\ s \in Seq(Lines) /\ Len(e) \in Nat \ {0} /\ Len(s) \in Nat \ {0}
  <2>1. e \in Seq(Lines) /\ Len(e) = IF m = 0 THEN 1 ELSE m + 2
    BY <1>1, EkOfIs
  <2>2. s \in Seq(Lines) /\ Len(s) = IF m = 0 THEN 3 ELSE 4
    BY <1>1, SkOfIs
  <2> QED
    BY <2>1, <2>2
<1>3. /\ \A i \in 1 .. Len(e) : /\ e[i].verb # "h d:" => e[i].num \in Numbers
                                /\ e[i].verb = "h d:" => e[i].num \in Nat
      /\ \A i \in 1 .. Len(s) : /\ s[i].verb # "h d:" => s[i].num \in Numbers
                                /\ s[i].verb = "h d:" => s[i].num \in Nat
  BY <1>1, EkCuts, SkCuts
<1>4. ASSUME NEW w \in {e, s}
      PROVE  Part(<<>>, w) /\ Part(w, w) /\ w # <<>>
  <2>1. w \in Seq(Lines) /\ Len(w) \in Nat \ {0}
    BY <1>2
  <2>2. PICK z : z = <<>>
    OBVIOUS
  <2>3. z \in Seq(Lines) /\ Len(z) = 0
    BY ONLY <2>2, EmptySeq
  <2>4. w # z
    BY ONLY <2>1, <2>3
  <2>5. Part(z, w) /\ Part(w, w)
    BY ONLY <2>1, <2>3 DEF Part
  <2> QED
    BY <2>2, <2>4, <2>5
<1>5. ASSUME NEW lines \in Beginnings(e)
      PROVE  Part(lines, e)
  BY ONLY <1>2, <1>3, <1>5, BeginningIsPart
<1>6. ASSUME NEW lines \in Beginnings(s)
      PROVE  Part(lines, s)
  BY ONLY <1>2, <1>3, <1>6, BeginningIsPart
<1> QED
  BY <1>1, <1>4, <1>5, <1>6

\* Every step of keygen keeps the invariant of the pair.
LEMMA KeygenKeeps == KInv /\ [Next]_vars => KInv'
<1> SUFFICES ASSUME KInv, [Next]_vars
             PROVE  KInv'
  OBVIOUS
<1>1. /\ pc \in {"idle", "open", "write", "close", "crashed", "foreign"}
      /\ run \in 0 .. MaxRuns /\ d \in Degrees \cup {0} /\ faulty \subseteq Faults
      /\ ek \in Seq(Lines) /\ sk \in Seq(Lines) /\ run \in Nat /\ d \in Nat
  BY DegreesAssumption, BoundsAssumption DEF KInv
<1>2. CASE UNCHANGED vars
  BY <1>2 DEF vars, KInv, Pair
<1>3. CASE Keygen
  <2>1. PICK r \in Nat, m \in Nat : Pair(r, m)
    BY <1>3 DEF KInv, Keygen
  <2>2. Pair(r, m)'
    BY <1>3, <2>1 DEF Pair, Keygen
  <2>3. run' \in 0 .. MaxRuns /\ d' \in Degrees \cup {0}
    BY <1>1, <1>3, BoundsAssumption DEF Keygen
  <2> QED
    BY <1>1, <1>3, <2>2, <2>3 DEF KInv, Keygen
<1>4. CASE OpenBoth
  <2>1. Pair(run, d)'
    BY <1>1, <1>4, LeftOfFiles DEF Pair, OpenBoth
  <2>2. <<>> \in Seq(Lines)
    BY EmptySeq
  <2> QED
    BY <1>1, <1>4, <2>1, <2>2 DEF KInv, OpenBoth
<1>5. CASE OpenFails
  <2>1. PICK r \in Nat, m \in Nat : Pair(r, m)
    BY <1>5 DEF KInv, OpenFails
  <2>2. /\ pc' = "crashed" /\ faulty' = faulty \cup {"open"} /\ "open" \in Faults
        /\ UNCHANGED <<run, d>>
        /\ ek' = <<>> \/ ek' = ek
        /\ sk' = <<>> \/ sk' = sk
    BY <1>5 DEF OpenFails
  <2>3. Part(ek', EkOf(r, m)) /\ Part(sk', SkOf(r, m))
    BY <2>1, <2>2, LeftOfFiles DEF Pair
  <2>4. Pair(r, m)'
    BY <2>1, <2>2, <2>3 DEF Pair
  <2>5. <<>> \in Seq(Lines)
    BY EmptySeq
  <2> QED
    BY <1>1, <2>2, <2>4, <2>5 DEF KInv
<1>6. CASE FlushEk
  <2>1. PICK r \in Nat, m \in Nat : Pair(r, m)
    BY <1>6 DEF KInv, FlushEk
  <2>2. ek' \in Beginnings(EkOf(r, m)) /\ r = run /\ m = d /\ sk = <<>>
    BY <1>6, <2>1, LinesOfRun DEF Pair, FlushEk
  <2>3. Part(ek', EkOf(r, m)) /\ ek' \in Seq(Lines)
    <3>1. Part(ek', EkOf(r, m))
      BY <2>2, LeftOfFiles
    <3> QED
      BY <3>1 DEF Part
  <2>4. Pair(r, m)'
    BY <1>6, <2>1, <2>2, <2>3 DEF Pair, FlushEk
  <2> QED
    BY <1>1, <1>6, <2>3, <2>4 DEF KInv, FlushEk
<1>7. CASE CloseEk
  <2>1. PICK r \in Nat, m \in Nat : Pair(r, m)
    BY <1>7 DEF KInv, CloseEk
  <2>2. /\ ek' \in Beginnings(EkOf(r, m)) \cup {EkOf(r, m)} /\ r = run /\ m = d /\ sk = <<>>
        /\ faulty' = IF ek' = EkOf(r, m) THEN faulty ELSE faulty \cup {"full"}
        /\ ek' = EkOf(r, m) \/ "full" \in Faults
    BY <1>7, <2>1, LinesOfRun DEF Pair, CloseEk, Written
  <2>3. Part(ek', EkOf(r, m)) /\ ek' \in Seq(Lines)
    <3>1. Part(ek', EkOf(r, m))
      BY <2>2, LeftOfFiles
    <3> QED
      BY <3>1 DEF Part
  <2>4. Pair(r, m)'
    BY <1>7, <2>1, <2>2, <2>3 DEF Pair, CloseEk
  <2>5. faulty' \subseteq Faults
    BY <1>1, <2>2
  <2> QED
    BY <1>1, <1>7, <2>3, <2>4, <2>5 DEF KInv, CloseEk
<1>8. CASE CloseSk
  <2>1. PICK r \in Nat, m \in Nat : Pair(r, m)
    BY <1>8 DEF KInv, CloseSk
  <2>2. /\ sk' \in Beginnings(SkOf(r, m)) \cup {SkOf(r, m)} /\ r = run /\ m = d
        /\ faulty' = IF sk' = SkOf(r, m) THEN faulty ELSE faulty \cup {"full"}
        /\ sk' = SkOf(r, m) \/ "full" \in Faults
    BY <1>8, <2>1, LinesOfRun DEF Pair, CloseSk, Written
  <2>3. Part(sk', SkOf(r, m)) /\ sk' \in Seq(Lines)
    <3>1. Part(sk', SkOf(r, m))
      BY <2>2, LeftOfFiles
    <3> QED
      BY <3>1 DEF Part
  <2>4. EkOf(r, m) # <<>> /\ SkOf(r, m) # <<>>
    BY LeftOfFiles
  <2>5. Pair(r, m)'
    BY <1>8, <2>1, <2>2, <2>3, <2>4 DEF Pair, CloseSk
  <2>6. faulty' \subseteq Faults
    BY <1>1, <2>2
  <2> QED
    BY <1>1, <1>8, <2>3, <2>5, <2>6 DEF KInv, CloseSk
<1>9. CASE Kill
  <2>1. PICK r \in Nat, m \in Nat : Pair(r, m)
    BY <1>9 DEF KInv, Kill
  <2>2. Pair(r, m)'
    BY <1>9, <2>1 DEF Pair, Kill
  <2> QED
    BY <1>1, <1>9, <2>2 DEF KInv, Kill
<1>10. ASSUME NEW l \in ForeignLines, WriteByHand(l)
       PROVE  KInv'
  <2>1. PICK lines : lines = Append(ek, l)
    OBVIOUS
  <2>2. l \in Lines
    BY ForeignLinesAssumption
  <2>3. lines \in Seq(Lines)
    BY ONLY <1>1, <2>1, <2>2, AppendProperties
  <2> QED
    BY <1>1, <1>10, <2>1, <2>3 DEF KInv, WriteByHand
<1> QED
  BY <1>2, <1>3, <1>4, <1>5, <1>6, <1>7, <1>8, <1>9, <1>10 DEF Next, Rest

\* The files are parts of one pair, and the readers hold no more of them.
THEOREM PairInductive == Spec => []KInv
<1>1. Init => KInv
  <2> SUFFICES ASSUME Init
               PROVE  KInv
    OBVIOUS
  <2>1. <<>> \in Seq(Lines)
    BY EmptySeq
  <2>2. Pair(0, 0)
    BY LeftOfFiles DEF Init, Pair
  <2> QED
    BY <2>1, <2>2, BoundsAssumption DEF Init, KInv
<1> QED
  BY <1>1, KeygenKeeps, PTL DEF Spec

\* The error of the secret key's reader is one of two, and whatever the file,
\* the reader of the evaluation key has stored the first d_written of d powers.
THEOREM TypeCorrect == Spec => []TypeOK
<1>1. KInv => TypeOK
  <2> SUFFICES ASSUME KInv
               PROVE  TypeOK
    OBVIOUS
  <2>1. PICK e, s : e = ReadEk(ek) /\ s = ReadSk(sk)
    OBVIOUS
  <2>2. s \in SkStates
    <3>1. PICK f : SkAfter(f, sk)
      BY SkReads DEF KInv
    <3> QED
      BY <2>1, <3>1 DEF SkAfter, KInv
  <2>3. e \in EkStates
    <3>1. PICK f : EkAfter(f, ek)
      BY EkReads DEF KInv
    <3> QED
      BY <2>1, <3>1 DEF EkAfter, KInv
  <2>4. s.err \in {"E_NOERR", "E_FILE_FORMAT"}
    BY <2>2 DEF SkStates
  <2>5. /\ DOMAIN e.h = 1 .. e.d /\ e.d_written \in 0 .. e.d
        /\ \A i \in 1 .. e.d : (i <= e.d_written) <=> (e.h[i] # NULL)
    BY <2>3 DEF EkStates, EkRecords, Stored
  <2> QED
    BY <2>1, <2>4, <2>5 DEF KInv, TypeOK
<1> QED
  BY <1>1, PairInductive, PTL

\* No number is ever read in the place of another, however little of the
\* files was written.
THEOREM NumbersInPlace == Spec => []FieldsInPlace
<1>1. KInv => FieldsInPlace
  <2> SUFFICES ASSUME KInv, pc # "foreign"
               PROVE  FieldsInPlace
    BY DEF FieldsInPlace
  <2>1. PICK r \in Nat, m \in Nat : Part(ek, EkOf(r, m)) /\ Part(sk, SkOf(r, m))
    BY DEF KInv, Pair
  <2>2. InEk(ReadEk(ek), r) /\ InSk(ReadSk(sk), r)
    BY <2>1, EkOfPart, SkOfPart
  <2> QED
    BY <2>2, Zenon DEF FieldsInPlace, InEk, InSk
<1> QED
  BY <1>1, PairInductive, PTL

\* Wherever keygen is killed, for any number of runs: one of the files is empty
\* or the two are a complete pair, and never are they of different runs.
THEOREM PairStaysWhole == Spec => []PairWhole
<1>1. KInv => PairWhole
  <2> SUFFICES ASSUME KInv, pc # "foreign"
               PROVE  PairWhole
    BY DEF PairWhole
  <2>1. PICK r \in Nat, m \in Nat : Pair(r, m)
    BY DEF KInv
  <2>2. Part(ek, EkOf(r, m)) /\ Part(sk, SkOf(r, m))
    BY <2>1 DEF Pair
  <2>3. ASSUME ek # <<>>, sk # <<>>, "full" \notin faulty
        PROVE  WholePair
    BY <2>1, <2>2, <2>3, WholeFiles DEF Pair
  <2>4. ASSUME pc = "idle", run > 0, faulty = {}
        PROVE  ek # <<>> /\ sk # <<>>
    BY <2>1, <2>4 DEF Pair
  <2>5. ASSUME NEW x \in RunsOf(ek)
        PROVE  x = r
    <3>1. PICK n \in DOMAIN ek : ek[n].num # BadNum /\ ek[n].verb # "h d:" /\ x = ek[n].num.run
      BY <2>5 DEF RunsOf
    <3>2. n \in 1 .. Len(ek)
      BY DEF KInv
    <3>3. EkPlaces(ek[n], n, r, m) /\ ek[n] \in Lines
      BY <2>2, <3>2, EkPartIs DEF KInv
    <3> QED
      BY <3>1, <3>3 DEF EkPlaces, NumberOf, HeaderOf, TornHeader
  <2>6. ASSUME NEW x \in RunsOf(sk)
        PROVE  x = r
    <3>1. PICK n \in DOMAIN sk : sk[n].num # BadNum /\ sk[n].verb # "h d:" /\ x = sk[n].num.run
      BY <2>6 DEF RunsOf
    <3>2. n \in 1 .. Len(sk)
      BY DEF KInv
    <3>3. SkPlaces(sk[n], n, r, m)
      BY <2>2, <3>2, SkPartIs
    <3> QED
      BY <3>1, <3>3 DEF SkPlaces
  <2> QED
    BY <2>3, <2>4, <2>5, <2>6 DEF PairWhole
<1> QED
  BY <1>1, PairInductive, PTL

-----------------------------------------------------------------------------
(***************************************************************************)
(* Which files are accepted: what the first n lines say                    *)
(***************************************************************************)
Counts(l) == l.verb \notin {"#", "blank"}

\* IsSk of the first n lines.
SkGood(lines, n) ==
  \A j \in 1 .. n : Counts(lines[j]) =>
    /\ ~ Stops(lines[j])
    /\ (\A k \in 1 .. n : Counts(lines[k]) => k <= j) => lines[j].verb \in SkVars

SkTold(s, lines, n) ==
  /\ s.over <=> \E j \in 1 .. n : Stops(lines[j])
  /\ s.err = "E_NOERR" <=> SkGood(lines, n)

\* One more line of a secret key.
LEMMA SkTells ==
  ASSUME NEW lines, NEW n \in Nat, NEW s \in SkStates, lines[n + 1] \in Lines,
         SkTold(s, lines, n)
  PROVE  SkTold(SkLine(s, lines[n + 1]), lines, n + 1)
<1>1. PICK l, t, k : l = lines[n + 1] /\ t = SkLine(s, l) /\ k = n + 1
  OBVIOUS
<1>2. k \in Nat /\ n \in Nat /\ k = n + 1 /\ l = lines[k]
  BY <1>1
<1>3. \A j : j \in 1 .. k <=> (j \in 1 .. n \/ j = k)
  BY ONLY <1>2
<1>4. \A j \in 1 .. n : j <= k /\ ~ (k <= j)
  BY ONLY <1>2
<1>5. (s.over <=> \E j \in 1 .. n : Stops(lines[j])) /\ (s.err = "E_NOERR" <=> SkGood(lines, n))
  BY DEF SkTold
<1>6. \A j : Stops(lines[j]) => Counts(lines[j])
  BY DEF Stops, Counts, SkVars
<1>7. CASE s.over
  <2>1. t = s
    BY <1>1, <1>7 DEF SkLine
  <2>2. PICK j \in 1 .. n : Stops(lines[j])
    BY <1>5, <1>7
  <2>3. ~ SkGood(lines, n) /\ ~ SkGood(lines, k)
    BY <1>3, <1>6, <2>2, Zenon DEF SkGood
  <2>4. \E i \in 1 .. k : Stops(lines[i])
    BY <1>3, <2>2
  <2> QED
    BY <1>1, <1>5, <1>7, <2>1, <2>3, <2>4, Zenon DEF SkTold
<1>8. CASE ~ s.over /\ ~ Counts(l)
  <2>1. t = s
    BY <1>1, <1>8 DEF SkLine, Counts
  <2>2. ~ Stops(l)
    BY <1>1, <1>6, <1>8
  <2>3. (\E j \in 1 .. k : Stops(lines[j])) <=> (\E j \in 1 .. n : Stops(lines[j]))
    BY <1>2, <1>3, <2>2, Zenon
  <2>4. SkGood(lines, k) <=> SkGood(lines, n)
    BY <1>2, <1>3, <1>8, Zenon DEF SkGood
  <2> QED
    BY <1>1, <1>5, <2>1, <2>3, <2>4, Zenon DEF SkTold
<1>9. CASE ~ s.over /\ Counts(l)
  <2>1. \A j \in 1 .. n : ~ Stops(lines[j])
    BY <1>5, <1>9, Zenon
  <2>2. (\E j \in 1 .. k : Stops(lines[j])) <=> Stops(l)
    BY <1>2, <1>3, <2>1, Zenon
  <2>3. SkGood(lines, k) <=> ~ Stops(l) /\ l.verb \in SkVars
    <3>1. k <= k
      BY <1>2
    <3>2. \A j \in 1 .. k : j <= k
      BY <1>3, <1>4, <3>1
    <3>3. ASSUME SkGood(lines, k)
          PROVE  ~ Stops(l) /\ l.verb \in SkVars
      BY <1>2, <1>3, <1>9, <3>2, <3>3, Zenon DEF SkGood
    <3>4. ASSUME ~ Stops(l), l.verb \in SkVars
          PROVE  SkGood(lines, k)
      <4>1. ASSUME NEW j \in 1 .. k
            PROVE  ~ Stops(lines[j])
        BY <1>2, <1>3, <2>1, <3>4, <4>1, Zenon
      <4>2. ASSUME NEW j \in 1 .. k, \A i \in 1 .. k : Counts(lines[i]) => i <= j
            PROVE  lines[j].verb \in SkVars
        <5>1. k \in 1 .. k
          BY <1>3
        <5>2. k <= j
          BY <1>2, <1>9, <4>2, <5>1
        <5>3. j = k
          BY <1>3, <1>4, <4>2, <5>2
        <5> QED
          BY <1>2, <3>4, <5>3
      <4> QED
        BY <4>1, <4>2, Zenon DEF SkGood
    <3> QED
      BY <3>3, <3>4, Zenon
  <2>4. (t.over <=> Stops(l)) /\ (t.err = "E_NOERR" <=> ~ Stops(l) /\ l.verb \in SkVars)
    <3>1. l.verb \in SkVars \cup {"h d:", "z", "value", "text"}
      BY <1>1, <1>9, LineIs DEF Counts, SkVars
    <3>2. CASE l.verb \in SkVars /\ l.num # BadNum
      <4>1. t = [s EXCEPT !.key[l.verb] = l.num, !.err = "E_NOERR"]
        BY <1>1, <1>9, <3>2 DEF SkLine, Counts
      <4>2. t.over = s.over /\ t.err = "E_NOERR"
        BY <4>1 DEF SkStates
      <4>3. ~ Stops(l)
        BY <3>2 DEF Stops, SkVars
      <4> QED
        BY <1>9, <3>2, <4>2, <4>3
    <3>3. CASE ~ (l.verb \in SkVars /\ l.num # BadNum)
      <4>1. t = [s EXCEPT !.err = "E_FILE_FORMAT", !.over = l.verb \notin {"z", "h d:"}]
        BY <1>1, <1>9, <3>3 DEF SkLine, Counts
      <4>2. t.over = (l.verb \notin {"z", "h d:"}) /\ t.err = "E_FILE_FORMAT"
        BY <4>1 DEF SkStates
      <4>3. l.verb \notin {"z", "h d:"} <=> Stops(l)
        BY <3>1, <3>3 DEF Stops, SkVars
      <4>4. ~ (~ Stops(l) /\ l.verb \in SkVars)
        BY <3>3 DEF Stops
      <4> QED
        BY <4>2, <4>3, <4>4
    <3> QED
      BY <3>2, <3>3
  <2> QED
    BY <1>1, <2>2, <2>3, <2>4, Zenon DEF SkTold
<1> QED
  BY <1>7, <1>8, <1>9

\* The secret keys that are accepted.
LEMMA SkAccepted ==
  ASSUME NEW lines \in Seq(Lines)
  PROVE  ReadSk(lines).err = "E_NOERR" <=> IsSk(lines)
<1>1. PICK f, N : SkAfter(f, lines) /\ N = Len(lines)
  BY SkReads
<1>2. /\ f \in [0 .. N -> SkStates] /\ f[0] = NoSk /\ N \in Nat
      /\ \A n \in 1 .. N : f[n] = SkLine(f[n - 1], lines[n])
      /\ ReadSk(lines) = f[N] /\ DOMAIN lines = 1 .. N
      /\ \A n \in 1 .. N : lines[n] \in Lines
  BY <1>1 DEF SkAfter
<1>3. PICK P : P = {n \in 0 .. N : SkTold(f[n], lines, n)}
  OBVIOUS
<1>4. 0 \in P
  <2>1. SkTold(NoSk, lines, 0)
    BY DEF SkTold, SkGood, NoSk
  <2> QED
    BY <1>2, <1>3, <2>1
<1>5. \A n \in 1 .. N : n - 1 \in P => n \in P
  <2> SUFFICES ASSUME NEW n \in 1 .. N, n - 1 \in P
               PROVE  n \in P
    OBVIOUS
  <2>1. PICK j, s : j = n - 1 /\ s = f[j]
    OBVIOUS
  <2>2. j \in Nat /\ j \in 0 .. N /\ j + 1 = n /\ n \in 0 .. N
    BY <1>2, <2>1
  <2>3. s \in SkStates /\ f[n] = SkLine(s, lines[n]) /\ lines[j + 1] \in Lines
    BY <1>2, <2>1, <2>2
  <2>4. SkTold(s, lines, j)
    BY <1>3, <2>1
  <2>5. SkTold(SkLine(s, lines[j + 1]), lines, j + 1)
    BY ONLY <2>2, <2>3, <2>4, SkTells
  <2> QED
    BY <1>3, <2>2, <2>3, <2>5
<1>6. \A n \in 0 .. N : n \in P
  BY ONLY <1>2, <1>4, <1>5, UpTo
<1>7. SkTold(f[N], lines, N)
  BY <1>2, <1>3, <1>6
<1>8. f[N].err = "E_NOERR" <=> SkGood(lines, N)
  BY <1>7 DEF SkTold
<1>9. SkGood(lines, N) <=> IsSk(lines)
  BY <1>2, Zenon DEF SkGood, IsSk, Counts
<1> QED
  BY <1>2, <1>8, <1>9

GoodVar(l) == IsVar(l) /\ (l.verb = "p" => l.num # BadNum)
GoodHeader(l) == l.verb = "h d:" /\ l.num \notin {BadNum, NoNum, 0}
GoodValue(l) == l.verb = "value" /\ l.num # BadNum

\* The first n lines of an evaluation key without powers, or with a header as line h.
EkVars(lines, n) == \A j \in 1 .. n : lines[j].verb = "#" \/ GoodVar(lines[j])

After(lines, n, h) == {j \in 1 .. n : j > h /\ lines[j].verb # "#"}

EkSection(lines, n, h) ==
  /\ h \in 1 .. n /\ GoodHeader(lines[h]) /\ EkVars(lines, h - 1)
  /\ \A j \in After(lines, n, h) : GoodValue(lines[j])
  /\ Cardinality(After(lines, n, h)) <= lines[h].num

EkGood(lines, n) == EkVars(lines, n) \/ \E h \in 1 .. n : EkSection(lines, n, h)

EkTold(s, lines, n) ==
  /\ s.status = "reading" <=> EkGood(lines, n)
  /\ EkVars(lines, n) => ~ s.reading_h /\ s.d = 0 /\ s.d_written = 0
  /\ \A h \in 1 .. n : EkSection(lines, n, h) =>
       s.reading_h /\ s.d = lines[h].num /\ s.d_written = Cardinality(After(lines, n, h))

\* The lines of an evaluation key are of three kinds, and comments of a fourth.
LEMMA LineKinds ==
  ASSUME NEW l
  PROVE  /\ GoodVar(l) => ~ GoodHeader(l) /\ ~ GoodValue(l) /\ l.verb # "#"
         /\ GoodHeader(l) => ~ GoodValue(l) /\ l.verb # "#"
         /\ GoodValue(l) => l.verb # "#"
BY DEF GoodVar, GoodHeader, GoodValue, IsVar, SkVars

\* What is after line h, with one more line.
LEMMA AfterGrows ==
  ASSUME NEW lines, NEW n \in Nat, NEW h \in 1 .. n
  PROVE  /\ Cardinality(After(lines, n, h)) \in Nat
         /\ lines[n + 1].verb = "#" => After(lines, n + 1, h) = After(lines, n, h)
         /\ lines[n + 1].verb # "#" =>
              /\ After(lines, n + 1, h) = After(lines, n, h) \cup {n + 1}
              /\ Cardinality(After(lines, n + 1, h)) = Cardinality(After(lines, n, h)) + 1
<1>1. PICK A, B, k : A = After(lines, n, h) /\ B = After(lines, n + 1, h) /\ k = n + 1
  OBVIOUS
<1>2. IsFiniteSet(A) /\ Cardinality(A) \in Nat /\ k \notin A
  <2>1. IsFiniteSet(1 .. n)
    BY FS_Interval
  <2>2. A \in SUBSET (1 .. n)
    BY <1>1 DEF After
  <2>3. IsFiniteSet(A)
    BY ONLY <2>1, <2>2, FS_Subset
  <2>4. k \notin 1 .. n
    BY <1>1
  <2> QED
    BY <2>2, <2>3, <2>4, FS_CardinalityType
<1>3. \A j : j \in 1 .. k <=> (j \in 1 .. n \/ j = k)
  BY <1>1
<1>4. k > h
  BY <1>1
<1>5. CASE lines[k].verb = "#"
  <2>1. B = A
    BY <1>1, <1>3, <1>5 DEF After
  <2> QED
    BY <1>1, <1>2, <1>5, <2>1
<1>6. CASE lines[k].verb # "#"
  <2>1. B = A \cup {k}
    BY <1>1, <1>3, <1>4, <1>6 DEF After
  <2>2. Cardinality(A \cup {k}) = Cardinality(A) + 1
    BY ONLY <1>2, FS_AddElement
  <2> QED
    BY <1>1, <1>2, <1>6, <2>1, <2>2
<1> QED
  BY <1>1, <1>5, <1>6

\* One more line is good if those before it are and it fits them.
LEMMA EkGrows ==
  ASSUME NEW lines, NEW n \in Nat, \A j \in 1 .. n + 1 : lines[j] \in Lines
  PROVE  /\ EkVars(lines, n + 1) <=>
              EkVars(lines, n) /\ (lines[n + 1].verb = "#" \/ GoodVar(lines[n + 1]))
         /\ EkSection(lines, n + 1, n + 1) <=> EkVars(lines, n) /\ GoodHeader(lines[n + 1])
         /\ \A h \in 1 .. n :
              EkSection(lines, n + 1, h) <=>
                /\ EkSection(lines, n, h)
                /\ \/ lines[n + 1].verb = "#"
                   \/ /\ GoodValue(lines[n + 1])
                      /\ Cardinality(After(lines, n, h)) # lines[h].num
         /\ \A h \in 1 .. n : EkSection(lines, n, h) => ~ EkVars(lines, n)
<1>1. PICK k, l : k = n + 1 /\ l = lines[k]
  OBVIOUS
<1>2. /\ k \in Nat /\ k - 1 = n
      /\ \A j : j \in 1 .. k <=> (j \in 1 .. n \/ j = k)
      /\ \A j \in 1 .. n : j < k /\ j \in 1 .. k
      /\ k \in 1 .. k /\ k \notin 1 .. n
  BY <1>1
<1>3. EkVars(lines, k) <=> EkVars(lines, n) /\ (l.verb = "#" \/ GoodVar(l))
  BY <1>1, <1>2, Zenon DEF EkVars
<1>4. \A j \in 1 .. k : GoodHeader(lines[j]) => lines[j].num \in Nat
  BY <1>1, LineIs DEF GoodHeader
<1>5. EkSection(lines, k, k) <=> EkVars(lines, n) /\ GoodHeader(l)
  <2>1. After(lines, k, k) = {}
    BY <1>2 DEF After
  <2>2. Cardinality(After(lines, k, k)) = 0
    BY <2>1, FS_EmptySet
  <2>3. GoodHeader(l) => 0 <= l.num
    BY <1>1, <1>2, <1>4
  <2> QED
    BY <1>1, <1>2, <2>1, <2>2, <2>3 DEF EkSection
<1>6. ASSUME NEW h \in 1 .. n
      PROVE  EkSection(lines, k, h) <=>
               /\ EkSection(lines, n, h)
               /\ l.verb = "#" \/ (GoodValue(l) /\ Cardinality(After(lines, n, h)) # lines[h].num)
  <2>1. PICK A, c, m : A = After(lines, n, h) /\ c = Cardinality(A) /\ m = lines[h].num
    OBVIOUS
  <2>2. /\ c \in Nat
        /\ l.verb = "#" => After(lines, k, h) = A
        /\ l.verb # "#" => After(lines, k, h) = A \cup {k} /\ Cardinality(After(lines, k, h)) = c + 1
    BY <1>1, <2>1, AfterGrows
  <2>3. h \in 1 .. k /\ (GoodHeader(lines[h]) => m \in Nat)
    BY <1>2, <1>4, <2>1
  <2>4. CASE l.verb = "#"
    BY <2>1, <2>2, <2>3, <2>4, Zenon DEF EkSection
  <2>5. CASE l.verb # "#"
    <3>1. GoodHeader(lines[h]) => (c + 1 <= m <=> c <= m /\ c # m)
      BY <2>2, <2>3
    <3>2. (\A j \in A \cup {k} : GoodValue(lines[j])) <=> (\A j \in A : GoodValue(lines[j])) /\ GoodValue(l)
      BY <1>1, Zenon
    <3>3. EkSection(lines, k, h) <=>
            /\ GoodHeader(lines[h]) /\ EkVars(lines, h - 1)
            /\ \A j \in A \cup {k} : GoodValue(lines[j])
            /\ c + 1 <= m
      BY <2>1, <2>2, <2>3, <2>5, Zenon DEF EkSection
    <3>4. EkSection(lines, n, h) <=>
            /\ GoodHeader(lines[h]) /\ EkVars(lines, h - 1)
            /\ \A j \in A : GoodValue(lines[j])
            /\ c <= m
      BY <1>6, <2>1, Zenon DEF EkSection
    <3> QED
      BY <2>1, <2>5, <3>1, <3>2, <3>3, <3>4, Zenon
  <2> QED
    BY <2>4, <2>5
<1>7. ASSUME NEW h \in 1 .. n, EkSection(lines, n, h)
      PROVE  ~ EkVars(lines, n)
  BY <1>7, LineKinds, Zenon DEF EkSection, EkVars
<1> QED
  BY <1>1, <1>3, <1>5, <1>6, <1>7

\* One more line of an evaluation key.
LEMMA EkTells ==
  ASSUME NEW lines, NEW n \in Nat, NEW s \in EkStates, \A j \in 1 .. n + 1 : lines[j] \in Lines,
         EkTold(s, lines, n)
  PROVE  EkTold(EkLine(s, lines[n + 1]), lines, n + 1)
<1>1. PICK k, l, t : k = n + 1 /\ l = lines[k] /\ t = EkLine(s, l)
  OBVIOUS
<1>2. /\ EkVars(lines, k) <=> EkVars(lines, n) /\ (l.verb = "#" \/ GoodVar(l))
      /\ EkSection(lines, k, k) <=> EkVars(lines, n) /\ GoodHeader(l)
      /\ \A h \in 1 .. n :
           EkSection(lines, k, h) <=>
             /\ EkSection(lines, n, h)
             /\ \/ l.verb = "#"
                \/ GoodValue(l) /\ Cardinality(After(lines, n, h)) # lines[h].num
      /\ \A h \in 1 .. n : EkSection(lines, n, h) => ~ EkVars(lines, n)
  BY <1>1, EkGrows
<1>3. \A h : h \in 1 .. k <=> (h \in 1 .. n \/ h = k)
  BY <1>1
<1>4. \A h \in 1 .. n :
        /\ Cardinality(After(lines, n, h)) \in Nat
        /\ l.verb = "#" => After(lines, k, h) = After(lines, n, h)
        /\ l.verb # "#" => Cardinality(After(lines, k, h)) = Cardinality(After(lines, n, h)) + 1
  BY <1>1, AfterGrows
<1>5. /\ s.status = "reading" <=> EkGood(lines, n)
      /\ EkVars(lines, n) => ~ s.reading_h /\ s.d = 0 /\ s.d_written = 0
      /\ \A h \in 1 .. n : EkSection(lines, n, h) =>
           s.reading_h /\ s.d = lines[h].num /\ s.d_written = Cardinality(After(lines, n, h))
  BY DEF EkTold
<1>6. /\ GoodVar(l) => ~ GoodHeader(l) /\ ~ GoodValue(l) /\ l.verb # "#"
      /\ GoodHeader(l) => ~ GoodValue(l) /\ l.verb # "#"
      /\ GoodValue(l) => l.verb # "#"
  BY LineKinds
<1>7. s \in EkRecords
  BY DEF EkStates
<1>8. ASSUME t.status # "reading", ~ EkVars(lines, k), \A h \in 1 .. k : ~ EkSection(lines, k, h)
      PROVE  EkTold(t, lines, k)
  BY <1>8, Zenon DEF EkTold, EkGood
<1>9. CASE s.status # "reading"
  <2>1. t = s
    BY <1>1, <1>9 DEF EkLine
  <2>2. ~ EkVars(lines, n) /\ \A h \in 1 .. n : ~ EkSection(lines, n, h)
    BY <1>5, <1>9, Zenon DEF EkGood
  <2>3. ~ EkVars(lines, k) /\ \A h \in 1 .. k : ~ EkSection(lines, k, h)
    BY <1>2, <1>3, <2>2, Zenon
  <2> QED
    BY <1>1, <1>8, <1>9, <2>1, <2>3
<1>10. CASE l.verb = "#"
  <2>1. t = s
    BY <1>1, <1>10 DEF EkLine
  <2>2. ~ GoodHeader(l)
    BY <1>6, <1>10, Zenon
  <2>3. EkVars(lines, k) <=> EkVars(lines, n)
    BY <1>2, <1>10, Zenon
  <2>4. ~ EkSection(lines, k, k)
    BY <1>2, <2>2, Zenon
  <2>5. \A h \in 1 .. n : /\ EkSection(lines, k, h) <=> EkSection(lines, n, h)
                          /\ After(lines, k, h) = After(lines, n, h)
    BY <1>2, <1>4, <1>10, Zenon
  <2>6. EkGood(lines, k) <=> EkGood(lines, n)
    BY <1>3, <2>3, <2>4, <2>5, Zenon DEF EkGood
  <2>7. ASSUME NEW h \in 1 .. k, EkSection(lines, k, h)
        PROVE  t.reading_h /\ t.d = lines[h].num /\ t.d_written = Cardinality(After(lines, k, h))
    <3>1. h \in 1 .. n /\ EkSection(lines, n, h) /\ After(lines, k, h) = After(lines, n, h)
      BY <1>3, <2>4, <2>5, <2>7, Zenon
    <3> QED
      BY <1>5, <2>1, <3>1
  <2>8. t.status = "reading" <=> EkGood(lines, k)
    BY <1>5, <2>1, <2>6
  <2>9. EkVars(lines, k) => ~ t.reading_h /\ t.d = 0 /\ t.d_written = 0
    BY <1>5, <2>1, <2>3
  <2>10. EkTold(t, lines, k)
    BY <2>7, <2>8, <2>9 DEF EkTold
  <2> QED
    BY <1>1, <2>10
<1>11. CASE s.status = "reading" /\ l.verb # "#" /\ EkVars(lines, n)
  <2>1. ~ s.reading_h /\ s.d = 0 /\ s.d_written = 0
    BY <1>5, <1>11
  <2>2. \A h \in 1 .. n : ~ EkSection(lines, k, h)
    BY <1>2, <1>11, Zenon
  <2>3. (EkSection(lines, k, k) <=> GoodHeader(l)) /\ (EkVars(lines, k) <=> GoodVar(l))
    BY <1>2, <1>11, Zenon
  <2>4. CASE GoodVar(l)
    <3>1. t = EkVar(s, l)
      BY <1>1, <1>11, <2>1, <2>4 DEF EkLine, GoodVar, IsVar, SkVars
    <3>2. /\ t.status = "reading" /\ t.reading_h = s.reading_h /\ t.d = s.d
          /\ t.d_written = s.d_written
      BY <1>7, <1>11, <2>4, <3>1 DEF EkVar, GoodVar, EkRecords
    <3>3. EkVars(lines, k) /\ \A h \in 1 .. k : ~ EkSection(lines, k, h)
      BY <1>3, <1>6, <2>2, <2>3, <2>4, Zenon
    <3>4. EkTold(t, lines, k)
      BY <2>1, <3>2, <3>3 DEF EkTold, EkGood
    <3> QED
      BY <1>1, <3>4
  <2>5. CASE GoodHeader(l)
    <3>1. PICK h : h = [i \in 1 .. l.num |-> NULL]
      OBVIOUS
    <3>2. t = [s EXCEPT !.h = h, !.d = l.num, !.d_written = 0, !.reading_h = TRUE]
      BY <1>1, <1>11, <2>1, <2>5, <3>1 DEF EkLine, EkHeader, GoodHeader
    <3>3. t.status = "reading" /\ t.reading_h /\ t.d = l.num /\ t.d_written = 0
      BY <1>7, <1>11, <3>2 DEF EkRecords
    <3>4. ~ EkVars(lines, k) /\ EkSection(lines, k, k) /\ k \in 1 .. k
      BY <1>3, <1>6, <2>3, <2>5, Zenon
    <3>5. Cardinality(After(lines, k, k)) = 0
      <4>1. After(lines, k, k) = {}
        BY <1>1 DEF After
      <4> QED
        BY <4>1, FS_EmptySet
    <3>6. ASSUME NEW j \in 1 .. k, EkSection(lines, k, j)
          PROVE  t.reading_h /\ t.d = lines[j].num /\ t.d_written = Cardinality(After(lines, k, j))
      <4>1. j = k
        BY <1>3, <2>2, <3>6, Zenon
      <4> QED
        BY <1>1, <3>3, <3>5, <4>1
    <3>7. EkGood(lines, k)
      BY <3>4, Zenon DEF EkGood
    <3>8. EkTold(t, lines, k)
      BY <3>3, <3>4, <3>6, <3>7, Zenon DEF EkTold
    <3> QED
      BY <1>1, <3>8
  <2>6. CASE ~ GoodVar(l) /\ ~ GoodHeader(l)
    <3>1. t.status # "reading"
      <4>1. CASE l.verb = "h d:"
        <5>1. t = EkHeader(s, l)
          BY <1>1, <1>11, <4>1 DEF EkLine
        <5>2. l.num = BadNum \/ l.num = NoNum \/ l.num = 0
          BY <2>6, <4>1 DEF GoodHeader
        <5>3. \/ t = Refuse(s) \/ t = [s EXCEPT !.status = "aborted"]
              \/ t = [s EXCEPT !.status = "crashed"]
          BY <5>1, <5>2 DEF EkHeader
        <5> QED
          BY <1>7, <5>3 DEF Refuse, EkRecords
      <4>2. CASE l.verb # "h d:"
        <5>1. t = EkVar(s, l)
          BY <1>1, <1>11, <2>1, <4>2 DEF EkLine
        <5>2. t = Refuse(s)
          BY <2>6, <5>1 DEF EkVar, GoodVar
        <5> QED
          BY <1>7, <5>2 DEF Refuse, EkRecords
      <4> QED
        BY <4>1, <4>2
    <3>2. ~ EkVars(lines, k) /\ \A h \in 1 .. k : ~ EkSection(lines, k, h)
      BY <1>3, <2>2, <2>3, <2>6, Zenon
    <3> QED
      BY <1>1, <1>8, <3>1, <3>2
  <2> QED
    BY <2>4, <2>5, <2>6
<1>12. CASE s.status = "reading" /\ l.verb # "#" /\ ~ EkVars(lines, n)
  <2>1. PICK h \in 1 .. n : EkSection(lines, n, h)
    BY <1>5, <1>12, Zenon DEF EkGood
  <2>2. s.reading_h
    BY <1>5, <2>1
  <2>3. ~ EkVars(lines, k) /\ ~ EkSection(lines, k, k)
    BY <1>2, <1>12, Zenon
  <2>4. ASSUME NEW j \in 1 .. n
        PROVE  EkSection(lines, k, j) <=> EkSection(lines, n, j) /\ GoodValue(l) /\ s.d_written # s.d
    BY <1>2, <1>5, <1>12, Zenon
  <2>5. CASE GoodValue(l) /\ s.d_written # s.d
    <3>1. t = [s EXCEPT !.h[s.d_written + 1] = l.num, !.d_written = @ + 1]
      BY <1>1, <1>12, <2>2, <2>5 DEF EkLine, EkPower, GoodValue
    <3>2. /\ t.status = "reading" /\ t.reading_h = s.reading_h /\ t.d = s.d
          /\ t.d_written = s.d_written + 1
      BY <1>7, <1>12, <3>1 DEF EkRecords
    <3>3. EkGood(lines, k)
      BY <1>3, <2>1, <2>4, <2>5, Zenon DEF EkGood
    <3>4. ASSUME NEW j \in 1 .. k, EkSection(lines, k, j)
          PROVE  t.reading_h /\ t.d = lines[j].num /\ t.d_written = Cardinality(After(lines, k, j))
      <4>1. j \in 1 .. n /\ EkSection(lines, n, j)
        BY <1>3, <2>3, <2>4, <3>4, Zenon
      <4>2. s.d = lines[j].num /\ s.d_written = Cardinality(After(lines, n, j))
        BY <1>5, <4>1
      <4> QED
        BY <1>4, <1>12, <2>2, <3>2, <4>1, <4>2
    <3>5. EkTold(t, lines, k)
      BY <2>3, <3>2, <3>3, <3>4, Zenon DEF EkTold
    <3> QED
      BY <1>1, <3>5
  <2>6. CASE ~ (GoodValue(l) /\ s.d_written # s.d)
    <3>1. t.status # "reading"
      <4>1. t = Refuse(s) \/ t = [s EXCEPT !.status = "corrupted"]
        <5>1. CASE l.verb = "h d:"
          BY <1>1, <1>12, <2>2, <5>1 DEF EkLine, EkHeader
        <5>2. CASE l.verb # "h d:"
          <6>1. t = EkPower(s, l)
            BY <1>1, <1>12, <2>2, <5>2 DEF EkLine
          <6> QED
            BY <2>6, <6>1 DEF EkPower, GoodValue
        <5> QED
          BY <5>1, <5>2
      <4> QED
        BY <1>7, <4>1 DEF Refuse, EkRecords
    <3>2. \A j \in 1 .. k : ~ EkSection(lines, k, j)
      BY <1>3, <2>3, <2>4, <2>6, Zenon
    <3> QED
      BY <1>1, <1>8, <2>3, <3>1, <3>2
  <2> QED
    BY <2>5, <2>6
<1> QED
  BY <1>9, <1>10, <1>11, <1>12

\* The evaluation keys that are accepted.
LEMMA EkAccepted ==
  ASSUME NEW lines \in Seq(Lines)
  PROVE  Accepted(ReadEk(lines)) <=> IsEk(lines)
<1>1. PICK f, N : EkAfter(f, lines) /\ N = Len(lines)
  BY EkReads
<1>2. /\ f \in [0 .. N -> EkStates] /\ f[0] = NoEk /\ N \in Nat
      /\ \A n \in 1 .. N : f[n] = EkLine(f[n - 1], lines[n])
      /\ ReadEk(lines) = f[N] /\ DOMAIN lines = 1 .. N
      /\ \A n \in 1 .. N : lines[n] \in Lines
  BY <1>1 DEF EkAfter
<1>3. PICK P : P = {n \in 0 .. N : EkTold(f[n], lines, n)}
  OBVIOUS
<1>4. 0 \in P
  <2>1. EkTold(NoEk, lines, 0)
    BY DEF EkTold, EkGood, EkVars, NoEk
  <2> QED
    BY <1>2, <1>3, <2>1
<1>5. \A n \in 1 .. N : n - 1 \in P => n \in P
  <2> SUFFICES ASSUME NEW n \in 1 .. N, n - 1 \in P
               PROVE  n \in P
    OBVIOUS
  <2>1. PICK j, s : j = n - 1 /\ s = f[j]
    OBVIOUS
  <2>2. j \in Nat /\ j \in 0 .. N /\ j + 1 = n /\ n \in 0 .. N
    BY <1>2, <2>1
  <2>3. s \in EkStates /\ f[n] = EkLine(s, lines[n])
    BY <1>2, <2>1, <2>2
  <2>4. EkTold(s, lines, j)
    BY <1>3, <2>1
  <2>5. \A i \in 1 .. j + 1 : lines[i] \in Lines
    BY <1>2, <2>2
  <2>6. EkTold(EkLine(s, lines[j + 1]), lines, j + 1)
    BY ONLY <2>2, <2>3, <2>4, <2>5, EkTells
  <2> QED
    BY <1>3, <2>2, <2>3, <2>6
<1>6. \A n \in 0 .. N : n \in P
  BY ONLY <1>2, <1>4, <1>5, UpTo
<1>7. EkTold(f[N], lines, N)
  BY <1>2, <1>3, <1>6
<1>8. Accepted(f[N]) <=> EkGood(lines, N)
  BY <1>7 DEF EkTold, Accepted
<1>9. PICK C, H, after :
        /\ C = {n \in DOMAIN lines : lines[n].verb # "#"}
        /\ H = {n \in C : lines[n].verb = "h d:"}
        /\ after = [h \in H |-> {n \in C : n > h}]
  OBVIOUS
<1>10. IsEk(lines) <=>
         /\ \A n \in C : (\A h \in H : n < h) => GoodVar(lines[n])
         /\ \A h \in H : \A n \in after[h] : GoodValue(lines[n])
         /\ \A h \in H : GoodHeader(lines[h]) /\ Cardinality(after[h]) <= lines[h].num
  BY <1>9 DEF IsEk, GoodVar, GoodValue, GoodHeader
<1>11. \A h \in H : after[h] = After(lines, N, h) /\ h \in 1 .. N
  BY <1>2, <1>9 DEF After
<1>12. ASSUME IsEk(lines)
       PROVE  EkGood(lines, N)
  <2>1. CASE H = {}
    <3>1. EkVars(lines, N)
      BY <1>2, <1>9, <1>10, <1>12, <2>1 DEF EkVars
    <3> QED
      BY <3>1 DEF EkGood
  <2>2. CASE H # {}
    <3>1. H \subseteq Nat
      <4>1. \A h \in H : h \in 1 .. N
        BY <1>11
      <4> QED
        BY ONLY <1>2, <4>1
    <3>2. PICK h \in H : \A j \in H : h <= j
      BY ONLY <2>2, <3>1, Least
    <3>3. h \in 1 .. N /\ lines[h].verb = "h d:"
      BY <1>9, <1>11, <3>2
    <3>4. EkVars(lines, h - 1)
      <4>1. ASSUME NEW n \in 1 .. (h - 1), lines[n].verb # "#"
            PROVE  GoodVar(lines[n])
        <5>1. n \in C /\ n < h /\ n \in Nat /\ h \in Nat
          <6>1. h \in Nat /\ n \in 1 .. N /\ n < h /\ n \in Nat
            <7>1. h \in 1 .. N /\ N \in Nat
              BY <1>2, <3>3
            <7>2. n \in 1 .. (h - 1)
              OBVIOUS
            <7> QED
              BY ONLY <7>1, <7>2
          <6>2. n \in C
            BY <1>2, <1>9, <4>1, <6>1, Zenon
          <6> QED
            BY <6>1, <6>2
        <5>2. \A j \in H : n < j
          BY <3>1, <3>2, <5>1
        <5> QED
          BY <1>10, <1>12, <5>1, <5>2, Zenon
      <4> QED
        BY <4>1, Zenon DEF EkVars
    <3>5. EkSection(lines, N, h)
      BY <1>10, <1>11, <1>12, <3>2, <3>3, <3>4, Zenon DEF EkSection
    <3> QED
      BY <3>3, <3>5, Zenon DEF EkGood
  <2> QED
    BY <2>1, <2>2
<1>13. ASSUME EkVars(lines, N)
       PROVE  IsEk(lines)
  <2>1. \A n \in C : GoodVar(lines[n])
    BY <1>2, <1>9, <1>13 DEF EkVars
  <2>2. H = {}
    BY <1>9, <2>1 DEF GoodVar, IsVar, SkVars
  <2> QED
    BY <1>10, <2>1, <2>2, Zenon
<1>14. ASSUME NEW h \in 1 .. N, EkSection(lines, N, h)
       PROVE  IsEk(lines)
  <2>1. /\ GoodHeader(lines[h]) /\ EkVars(lines, h - 1)
        /\ \A j \in After(lines, N, h) : GoodValue(lines[j])
        /\ Cardinality(After(lines, N, h)) <= lines[h].num
    BY <1>14 DEF EkSection
  <2>2. h \in C /\ h \in H
    BY <1>2, <1>9, <2>1 DEF GoodHeader
  <2>3. ASSUME NEW n \in C, n # h
        PROVE  \/ n < h /\ GoodVar(lines[n])
               \/ n \in After(lines, N, h)
    <3>1. n \in 1 .. N /\ lines[n].verb # "#"
      BY <1>2, <1>9
    <3>2. CASE n \in 1 .. (h - 1)
      BY <2>1, <3>1, <3>2 DEF EkVars
    <3>3. CASE n > h
      BY <3>1, <3>3 DEF After
    <3> QED
      BY <2>3, <3>1, <3>2, <3>3
  <2>4. H = {h}
    <3>1. ASSUME NEW n \in H
          PROVE  n = h
      BY <1>9, <2>1, <2>3, LineKinds DEF GoodVar, GoodValue, IsVar, SkVars
    <3> QED
      BY <2>2, <3>1, Zenon
  <2>5. ASSUME NEW n \in C, \A j \in H : n < j
        PROVE  GoodVar(lines[n])
    <3>1. n < h /\ n \in 1 .. N
      BY <1>2, <1>9, <2>4, <2>5
    <3>2. n # h /\ n \notin After(lines, N, h)
      BY <3>1 DEF After
    <3> QED
      BY <2>3, <3>2
  <2> QED
    BY <1>10, <1>11, <2>1, <2>2, <2>4, <2>5, Zenon
<1> QED
  BY <1>2, <1>8, <1>12, <1>13, <1>14, Zenon DEF EkGood

\* The readers accept the files with lines of the form and in the order that
\* IsSk and IsEk say, and no others, for any number of lines.
THEOREM FilesAccepted == Spec => []AcceptedFiles
<1>1. KInv => AcceptedFiles
  BY SkAccepted, EkAccepted DEF KInv, AcceptedFiles
<1> QED
  BY <1>1, PairInductive, PTL


=============================================================================
