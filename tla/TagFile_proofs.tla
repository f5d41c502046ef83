--------------------------- MODULE TagFile_proofs ----------------------------
(***************************************************************************)
(* Proofs about TagFile: whatever the file, of whatever length, whether    *)
(* the program wrote it or not, the reader stores in bounds, its assertion *)
(* on the last tag holds, and it touches freed memory only after a tag;    *)
(* and of what the program wrote it reads all tags back, or, when the      *)
(* writer was killed, the first ones and nothing else.                     *)
(***************************************************************************)
EXTENDS TagFile, Recursion

(***************************************************************************)
(* The lines of a file: those the writer writes, whole or cut, and those   *)
(* of a hand.                                                              *)
(***************************************************************************)
AllLines ==
  ForeignLines \cup [verb : {"tag d:"}, num : Nat \cup Tokens]
               \cup [verb : {"value"}, num : Nat \cup {BadNum}]

\* The lines a writer writes, while nobody kills it.
OutLines == [verb : {"tag d:", "value"}, num : Nat]

Vectors == UNION {[0 .. n -> Nat] : n \in Nat}

WriterInv ==
  /\ writer \in {"call", "open", "closed", "killed", "foreign"}
  /\ file \in Seq(AllLines)
  /\ at \in Nat \X Nat /\ at[1] >= 1
  /\ writer = "call" => at = <<1, 1>>
  /\ writer = "open" =>
       /\ reader = "call" /\ batch \in Batches
       /\ ~ AllOut => at[2] \in 1 .. Len(Lines(batch[at[1]]))

\* Between two tags nothing or a complete tag was read; within one, the first
\* d_written coefficients are stored.
ReaderInv ==
  /\ reader = "call" =>
       pos = 0 /\ d = 0 /\ d_written = 0 /\ ~ reading_tag /\ tags = <<>>
         /\ tmp_tag.memory = "null"
  /\ reader = "reading" /\ reading_tag =>
       /\ tmp_tag.memory = "live" /\ d_written <= d /\ DOMAIN tmp_tag.y = 0 .. d
       /\ \A k \in 0 .. d : /\ k < d_written => tmp_tag.y[k] \in Numbers
                            /\ k >= d_written => tmp_tag.y[k] = NULL
  /\ reader = "reading" /\ ~ reading_tag =>
       (d_written = d + 1 /\ tags # <<>>) \/ (d = 0 /\ d_written = 0)
  /\ reader = "reading" /\ tmp_tag.memory = "freed" => tags # <<>>
  /\ reader = "corrupted" => tags # <<>>

IInv ==
  /\ WriterInv /\ ReaderInv /\ TypeOK
  /\ d_written <= pos /\ tags \in Seq(Vectors) /\ DOMAIN tmp_tag = {"memory", "y"}

-----------------------------------------------------------------------------
\* What a line of a file can be.
LEMMA LineIs ==
  ASSUME NEW l \in AllLines
  PROVE  \/ l.verb = "tag d:" /\ l.num \in Nat \cup Tokens
         \/ l.verb = "value" /\ l.num \in Nat \cup {BadNum}
         \/ l.verb = "blank"
BY ForeignLinesAssumption DEF AllLines

\* A batch is a sequence of vectors, each with its coefficients from 0 on.
LEMMA BatchShape ==
  ASSUME NEW b \in Batches
  PROVE  /\ Len(b) \in Nat /\ b \in Seq(Vectors) /\ DOMAIN b = 1 .. Len(b)
         /\ \A n \in 1 .. Len(b) :
              /\ Degree(b[n]) \in Nat /\ b[n] \in [0 .. Degree(b[n]) -> Nat]
              /\ \A k \in 0 .. Degree(b[n]) : b[n][k] \in Nat
<1>1. PICK S : S = {b[n] : n \in DOMAIN b}
  OBVIOUS
<1>2. b \in Seq(S) /\ \A n \in DOMAIN b : Degree(b[n]) \in Nat /\ b[n] \in [0 .. Degree(b[n]) -> Nat]
  BY <1>1, BatchesAssumption
<1>3. Len(b) \in Nat /\ DOMAIN b = 1 .. Len(b)
  BY <1>2
<1>4. \A n \in DOMAIN b : b[n] \in Vectors
  BY <1>2 DEF Vectors
<1>5. b = [n \in 1 .. Len(b) |-> b[n]]
  BY <1>2
<1>6. b \in [1 .. Len(b) -> Vectors]
  BY <1>3, <1>4, <1>5
<1>7. b \in Seq(Vectors)
  BY <1>3, <1>6
<1> QED
  BY <1>2, <1>3, <1>7

\* A tag has a line for its degree, and one for each coefficient.
LEMMA LinesAre ==
  ASSUME NEW y, Degree(y) \in Nat, \A k \in 0 .. Degree(y) : y[k] \in Nat
  PROVE  /\ Len(Lines(y)) \in Nat /\ Len(Lines(y)) >= 1
         /\ \A k \in 1 .. Len(Lines(y)) : Lines(y)[k] \in OutLines
<1>1. PICK n, S : n = Degree(y) /\ S = OutLines
  OBVIOUS
<1>2. PICK head, values :
        /\ head = <<[verb |-> "tag d:", num |-> n]>>
        /\ values = [k \in 1 .. (n + 1) |-> [verb |-> "value", num |-> y[k - 1]]]
  OBVIOUS
<1>3. \A m \in Nat : [verb |-> "tag d:", num |-> m] \in S /\ [verb |-> "value", num |-> m] \in S
  BY <1>1 DEF OutLines
<1>4. n \in Nat /\ \A k \in 1 .. (n + 1) : y[k - 1] \in Nat
  <2>1. \A k \in 1 .. (n + 1) : k - 1 \in 0 .. n
    BY <1>1
  <2> QED
    BY <1>1, <2>1
<1>5. head \in Seq(S) /\ Len(head) = 1
  <2>1. PICK x : x = [verb |-> "tag d:", num |-> n]
    OBVIOUS
  <2>2. x \in S /\ head = <<x>>
    BY <1>2, <1>3, <1>4, <2>1
  <2> QED
    BY ONLY <2>2
<1>6. values \in Seq(S) /\ Len(values) = n + 1
  <2>1. values \in [1 .. (n + 1) -> S]
    BY <1>2, <1>3, <1>4
  <2> QED
    BY ONLY <1>4, <2>1
<1>7. PICK lines : lines = Lines(y)
  OBVIOUS
<1>8. lines = head \o values
  BY <1>1, <1>2, <1>7 DEF Lines
<1>9. lines \in Seq(S) /\ Len(lines) = 1 + (n + 1)
  <2>1. head \in Seq(S) /\ values \in Seq(S)
    BY <1>5, <1>6
  <2>2. head \o values \in Seq(S) /\ Len(head \o values) = Len(head) + Len(values)
    BY ONLY <2>1
  <2> QED
    BY ONLY <1>5, <1>6, <1>8, <2>2
<1>10. /\ Len(lines) \in Nat /\ Len(lines) >= 1
       /\ \A k \in 1 .. Len(lines) : lines[k] \in S
  BY ONLY <1>4, <1>9
<1> QED
  BY <1>1, <1>7, <1>10

\* What is left of a line is a line.
LEMMA CutIs ==
  ASSUME NEW k \in OutLines, NEW l \in Cut(k)
  PROVE  l \in AllLines
<1>1. PICK n, S : n = k.num /\ S = Shorter(n)
  OBVIOUS
<1>2. n \in Nat
  BY <1>1 DEF OutLines
<1>3. S \subseteq 1 .. n
  BY <1>1, Zenon DEF Shorter
<1>4. S \subseteq Nat
  BY <1>2, <1>3
<1>5. Cut(k) = IF k.verb = "value" THEN [verb : {"value"}, num : S \cup {0, BadNum}]
               ELSE [verb : {"value"}, num : {BadNum}] \cup
                    [verb : {"tag d:"}, num : S \cup {NoNum}]
  BY <1>1 DEF Cut
<1>6. CASE k.verb = "value"
  <2>1. l \in [verb : {"value"}, num : S \cup {0, BadNum}]
    BY <1>5, <1>6
  <2>2. l \in [verb : {"value"}, num : Nat \cup {BadNum}]
    <3>1. S \cup {0, BadNum} \subseteq Nat \cup {BadNum}
      <4>1. 0 \in Nat
        OBVIOUS
      <4> QED
        BY <1>4, <4>1, Zenon
    <3>2. PICK T, U : T = S \cup {0, BadNum} /\ U = Nat \cup {BadNum}
      OBVIOUS
    <3>3. l \in [verb : {"value"}, num : T] /\ T \subseteq U
      BY <2>1, <3>1, <3>2
    <3>4. l \in [verb : {"value"}, num : U]
      BY ONLY <3>3
    <3> QED
      BY <3>2, <3>4
  <2> QED
    BY <2>2 DEF AllLines
<1>7. CASE k.verb # "value"
  <2>1. \/ l \in [verb : {"value"}, num : {BadNum}]
        \/ l \in [verb : {"tag d:"}, num : S \cup {NoNum}]
    BY <1>5, <1>7
  <2>2. \/ l \in [verb : {"value"}, num : Nat \cup {BadNum}]
        \/ l \in [verb : {"tag d:"}, num : Nat \cup Tokens]
    BY <1>4, <2>1 DEF Tokens
  <2> QED
    BY <2>2 DEF AllLines
<1> QED
  BY <1>6, <1>7

-----------------------------------------------------------------------------
\* The invariant holds of the file a writer has not begun, or a hand wrote.
LEMMA InitInv == Init => IInv
<1> SUFFICES ASSUME Init PROVE IInv
  OBVIOUS
<1>1. file \in Seq(AllLines) /\ Len(file) = 0 /\ tags \in Seq(Vectors) /\ DOMAIN tags = {}
  BY DEF Init
<1>2. WriterInv
  BY <1>1 DEF Init, WriterInv
<1>3. ReaderInv
  BY DEF Init, ReaderInv
<1>4. TypeOK
  <2>1. pos \in 0 .. Len(file) /\ d \in Numbers \cup {0} /\ d_written \in 0 .. (d + 1)
    BY <1>1 DEF Init
  <2>2. /\ tmp_tag.memory \in {"null", "live", "freed"} /\ reading_tag \in BOOLEAN
        /\ writer = "call" /\ reader = "call" /\ err = "E_NOERR"
    BY DEF Init
  <2> QED
    BY <1>1, <2>1, <2>2 DEF TypeOK
<1>5. d_written <= pos /\ DOMAIN tmp_tag = {"memory", "y"}
  BY DEF Init
<1> QED
  BY <1>1, <1>2, <1>3, <1>4, <1>5 DEF IInv

\* While lines are added to the file, the reader has not been called.
LEMMA FileGrows ==
  ASSUME IInv, reader = "call", NEW l \in AllLines, file' = Append(file, l),
         UNCHANGED <<reader, pos, d, d_written, reading_tag, tmp_tag, tags, err>>,
         writer' \in {"open", "killed", "foreign"}
  PROVE  /\ file' \in Seq(AllLines) /\ ReaderInv' /\ TypeOK'
         /\ (d_written <= pos /\ tags \in Seq(Vectors) /\ DOMAIN tmp_tag = {"memory", "y"})'
<1>1. file' \in Seq(AllLines) /\ Len(file') = Len(file) + 1 /\ Len(file) \in Nat
  BY DEF IInv, WriterInv
<1>2. ReaderInv'
  BY DEF IInv, ReaderInv
<1>3. TypeOK'
  BY <1>1 DEF IInv, ReaderInv, TypeOK, IsTag
<1> QED
  BY <1>1, <1>2, <1>3 DEF IInv

\* What each step of the writer does, and that it leaves the reader alone.
LEMMA WriterStep ==
  ASSUME IInv, Open \/ Flush \/ Close \/ Kill \/ \E l \in ForeignLines : WriteByHand(l)
  PROVE  IInv'
<1>1. ASSUME NEW b, writer = "open", b = batch[at[1]], ~ AllOut
      PROVE  /\ Len(Lines(b)) \in Nat /\ Len(Lines(b)) >= 1
             /\ at[2] \in 1 .. Len(Lines(b)) /\ NextOut \in OutLines /\ NextOut \in AllLines
             /\ at[1] \in 1 .. Len(batch) /\ Len(batch) \in Nat
  <2>1. at[1] \in 1 .. Len(batch) /\ Len(batch) \in Nat /\ batch \in Batches
    BY <1>1, BatchShape DEF IInv, WriterInv, AllOut
  <2>2. Degree(b) \in Nat /\ \A k \in 0 .. Degree(b) : b[k] \in Nat
    BY <1>1, <2>1, BatchShape
  <2>3. /\ Len(Lines(b)) \in Nat /\ Len(Lines(b)) >= 1
        /\ \A k \in 1 .. Len(Lines(b)) : Lines(b)[k] \in OutLines
    BY ONLY <2>2, LinesAre
  <2>4. at[2] \in 1 .. Len(Lines(b))
    BY <1>1 DEF IInv, WriterInv
  <2>5. NextOut \in OutLines
    BY <1>1, <2>3, <2>4 DEF NextOut
  <2>6. OutLines \subseteq AllLines
    BY DEF OutLines, AllLines
  <2> QED
    BY <2>1, <2>3, <2>4, <2>5, <2>6
<1>2. CASE Open
  <2>1. batch' \in Batches /\ at' = <<1, 1>>
    BY <1>2 DEF Open, IInv, WriterInv
  <2>2. ~ AllOut' => 1 \in 1 .. Len(Lines(batch'[1]))
    <3> SUFFICES ASSUME ~ AllOut' PROVE 1 \in 1 .. Len(Lines(batch'[1]))
      OBVIOUS
    <3>1. 1 \in 1 .. Len(batch')
      BY <2>1, BatchShape DEF AllOut
    <3>2. PICK y : y = batch'[1]
      OBVIOUS
    <3>3. Degree(y) \in Nat /\ \A k \in 0 .. Degree(y) : y[k] \in Nat
      BY <2>1, <3>1, <3>2, BatchShape
    <3>4. Len(Lines(y)) \in Nat /\ Len(Lines(y)) >= 1
      BY ONLY <3>3, LinesAre
    <3> QED
      BY <3>2, <3>4
  <2>3. WriterInv'
    BY <1>2, <2>1, <2>2 DEF Open, IInv, WriterInv
  <2> QED
    BY <1>2, <2>3 DEF Open, IInv, ReaderInv, TypeOK, IsTag, Numbers
<1>3. CASE Flush
  <2>1. PICK b : b = batch[at[1]]
    OBVIOUS
  <2>2. /\ writer = "open" /\ ~ AllOut /\ file' = Append(file, NextOut)
        /\ at' = IF at[2] = Len(Lines(b)) THEN <<at[1] + 1, 1>> ELSE <<at[1], at[2] + 1>>
        /\ UNCHANGED <<writer, batch, reader, pos, d, d_written, reading_tag, tmp_tag,
                       tags, err>>
        /\ reader = "call" /\ batch \in Batches /\ at \in Nat \X Nat
    BY <1>3, <2>1 DEF Flush, IInv, WriterInv
  <2>3. /\ Len(Lines(b)) \in Nat /\ Len(Lines(b)) >= 1
        /\ at[2] \in 1 .. Len(Lines(b)) /\ NextOut \in OutLines /\ NextOut \in AllLines
        /\ at[1] \in 1 .. Len(batch) /\ Len(batch) \in Nat
    BY <1>1, <2>1, <2>2
  <2>4. /\ file' \in Seq(AllLines) /\ ReaderInv' /\ TypeOK'
        /\ (d_written <= pos /\ tags \in Seq(Vectors) /\ DOMAIN tmp_tag = {"memory", "y"})'
    BY <2>2, <2>3, FileGrows
  <2>5. at' \in Nat \X Nat /\ at'[1] >= 1
    BY <2>2, <2>3
  <2>6. ~ AllOut' => at'[2] \in 1 .. Len(Lines(batch[at'[1]]))
    <3>1. CASE at[2] = Len(Lines(b))
      <4> SUFFICES ASSUME ~ AllOut' PROVE at'[2] \in 1 .. Len(Lines(batch[at'[1]]))
        OBVIOUS
      <4>1. PICK y : y = batch[at[1] + 1]
        OBVIOUS
      <4>2. at' = <<at[1] + 1, 1>> /\ at[1] + 1 \in 1 .. Len(batch)
        BY <2>2, <2>3, <3>1 DEF AllOut
      <4>3. Degree(y) \in Nat /\ \A k \in 0 .. Degree(y) : y[k] \in Nat
        BY <2>2, <4>1, <4>2, BatchShape
      <4>4. Len(Lines(y)) \in Nat /\ Len(Lines(y)) >= 1
        BY ONLY <4>3, LinesAre
      <4> QED
        BY <4>1, <4>2, <4>4
    <3>2. CASE at[2] # Len(Lines(b))
      <4>1. at' = <<at[1], at[2] + 1>> /\ at[2] + 1 \in 1 .. Len(Lines(b))
        BY <2>2, <2>3, <3>2
      <4> QED
        BY <2>1, <4>1
    <3> QED
      BY <3>1, <3>2
  <2>7. WriterInv'
    BY <2>2, <2>4, <2>5, <2>6 DEF WriterInv
  <2> QED
    BY <2>4, <2>7 DEF IInv
<1>4. CASE Close
  BY <1>4 DEF Close, IInv, WriterInv, ReaderInv, TypeOK, IsTag, Numbers
<1>5. CASE Kill /\ UNCHANGED file
  BY <1>5 DEF Kill, IInv, WriterInv, ReaderInv, TypeOK, IsTag, Numbers
<1>6. CASE Kill /\ ~ UNCHANGED file
  <2>1. PICK b : b = batch[at[1]]
    OBVIOUS
  <2>2. writer = "open" /\ ~ AllOut /\ reader = "call" /\ writer' = "killed"
        /\ UNCHANGED <<at, reader, pos, d, d_written, reading_tag, tmp_tag, tags, err>>
    BY <1>6 DEF Kill, IInv, WriterInv
  <2>3. PICK l \in Cut(NextOut) : file' = Append(file, l)
    BY <1>6 DEF Kill
  <2>4. NextOut \in OutLines /\ NextOut \in AllLines
    BY <1>1, <2>1, <2>2
  <2>5. l \in AllLines
    BY <2>3, <2>4, CutIs
  <2>6. /\ file' \in Seq(AllLines) /\ ReaderInv' /\ TypeOK'
        /\ (d_written <= pos /\ tags \in Seq(Vectors) /\ DOMAIN tmp_tag = {"memory", "y"})'
    BY <2>2, <2>3, <2>5, FileGrows
  <2> QED
    BY <2>2, <2>6 DEF IInv, WriterInv
<1>7. ASSUME NEW l \in ForeignLines, WriteByHand(l)
      PROVE  IInv'
  <2>1. /\ reader = "call" /\ writer' = "foreign" /\ file' = Append(file, l)
        /\ UNCHANGED <<at, reader, pos, d, d_written, reading_tag, tmp_tag, tags, err>>
        /\ l \in AllLines
    BY <1>7 DEF WriteByHand, AllLines
  <2>2. /\ file' \in Seq(AllLines) /\ ReaderInv' /\ TypeOK'
        /\ (d_written <= pos /\ tags \in Seq(Vectors) /\ DOMAIN tmp_tag = {"memory", "y"})'
    BY <2>1, FileGrows
  <2> QED
    BY <2>1, <2>2 DEF IInv, WriterInv
<1> QED
  BY <1>2, <1>3, <1>4, <1>5, <1>6, <1>7

-----------------------------------------------------------------------------
\* The line the reader is at.
LEMMA NextLineIs ==
  ASSUME IInv, NextLine
  PROVE  /\ line \in AllLines /\ reader = "reading"
         /\ line.num \in Nat => line.num \in Numbers
         /\ pos \in Nat /\ pos' = pos + 1 /\ pos' \in 0 .. Len(file)
<1>1. /\ file \in Seq(AllLines) /\ pos \in 0 .. Len(file) /\ pos < Len(file)
      /\ pos' = pos + 1 /\ reader = "reading"
  BY DEF IInv, WriterInv, TypeOK, NextLine
<1>2. pos + 1 \in DOMAIN file /\ pos' \in 0 .. Len(file)
  BY <1>1
<1>3. file[pos + 1] \in AllLines
  BY <1>1, <1>2
<1> QED
  BY <1>1, <1>2, <1>3 DEF line, Numbers

\* Tags that are kept stay tags.
LEMMA Kept ==
  ASSUME IInv, UNCHANGED <<file, tags>>
  PROVE  /\ Numbers' = Numbers /\ Len(file') = Len(file)
         /\ (\A n \in DOMAIN tags : IsTag(tags[n], Numbers))'
<1>1. Numbers' = Numbers
  BY DEF Numbers
<1>2. \A n \in DOMAIN tags : IsTag(tags[n], Numbers)
  BY DEF IInv, TypeOK
<1> QED
  BY <1>1, <1>2 DEF IsTag

\* A step of the reader leaves the file and its writer as they are.
LEMMA ReaderStep ==
  ASSUME IInv,
         \/ NoFile \/ StartReading \/ SkipLine \/ Header \/ HeaderCut \/ RefuseHeader
         \/ Value \/ ValueAsserted \/ SaveFreed \/ EndOfFile \/ UNCHANGED vars
  PROVE  IInv'
<1>0. /\ d \in Nat /\ d_written \in Nat /\ d_written <= d + 1 /\ Numbers \subseteq Nat
      /\ d_written <= pos /\ pos \in 0 .. Len(file) /\ Len(file) \in Nat
  BY DEF IInv, WriterInv, TypeOK, Numbers
<1>1. CASE NoFile \/ StartReading
  <2>1. WriterInv'
    BY <1>1 DEF NoFile, StartReading, written, IInv, WriterInv, AllOut
  <2>2. ReaderInv'
    BY <1>1 DEF NoFile, StartReading, IInv, ReaderInv
  <2>3. TypeOK'
    <3>1. /\ UNCHANGED <<writer, file, pos, d, d_written, reading_tag, tmp_tag, tags>>
          /\ reader' \in {"returned", "reading"} /\ err' \in {err, "E_ERRNO_ERROR"}
      BY <1>1 DEF NoFile, StartReading, written
    <3> QED
      BY <3>1, Kept DEF IInv, TypeOK
  <2> QED
    BY <1>1, <2>1, <2>2, <2>3 DEF NoFile, StartReading, IInv
<1>2. CASE SkipLine
  <2>1. /\ UNCHANGED <<writer, batch, at, file, reader, d, d_written, reading_tag,
                       tmp_tag, tags, err>>
        /\ pos' \in 0 .. Len(file) /\ pos' = pos + 1 /\ reader = "reading"
    BY <1>2, NextLineIs DEF SkipLine, written
  <2>2. WriterInv'
    BY <2>1 DEF IInv, WriterInv, AllOut
  <2>3. ReaderInv'
    BY <2>1 DEF IInv, ReaderInv, Numbers
  <2>4. TypeOK'
    BY <2>1, Kept DEF IInv, TypeOK
  <2> QED
    BY <1>0, <2>1, <2>2, <2>3, <2>4 DEF IInv
<1>3. ASSUME NEW how, Die(how), NextLine, how \in {"aborted", "crashed", "corrupted"},
             how = "corrupted" => tags # <<>>
      PROVE  IInv'
  <2>1. /\ UNCHANGED <<writer, batch, at, file, d, d_written, reading_tag, tmp_tag, tags, err>>
        /\ pos' \in 0 .. Len(file) /\ pos' = pos + 1 /\ reader' = how /\ reader = "reading"
    BY <1>3, NextLineIs DEF Die, written
  <2>2. WriterInv'
    BY <2>1 DEF IInv, WriterInv, AllOut
  <2>3. ReaderInv'
    BY <1>3, <2>1 DEF IInv, ReaderInv
  <2>4. TypeOK'
    BY <1>3, <2>1, Kept DEF IInv, TypeOK
  <2> QED
    BY <1>0, <2>1, <2>2, <2>3, <2>4 DEF IInv
<1>4. CASE Header
  <2>1. PICK n : n = line.num
    OBVIOUS
  <2>2. /\ UNCHANGED <<writer, batch, at, file, reader, tags, err>>
        /\ d' = n /\ d_written' = 0 /\ reading_tag' = TRUE /\ n \in Nat
        /\ tmp_tag' = [memory |-> "live", y |-> [k \in 0 .. n |-> NULL]]
        /\ pos' \in 0 .. Len(file) /\ n \in Numbers /\ reader = "reading"
    BY <1>4, <2>1, NextLineIs DEF Header, IsHeader, written
  <2>3. WriterInv'
    BY <2>2 DEF IInv, WriterInv, AllOut
  <2>4. ReaderInv'
    BY <2>2 DEF IInv, ReaderInv, Numbers
  <2>5. TypeOK'
    <3>1. d' \in Numbers' /\ d_written' \in 0 .. (d' + 1)
      BY <2>2, Kept
    <3> QED
      BY <2>2, <3>1, Kept DEF IInv, TypeOK
  <2> QED
    BY <2>2, <2>3, <2>4, <2>5 DEF IInv
<1>5. CASE HeaderCut
  BY <1>3, <1>5 DEF HeaderCut, IsHeader
<1>6. CASE RefuseHeader
  <2>1. CASE tmp_tag.memory = "freed"
    <3>1. NextLine /\ Die("corrupted")
      BY <1>6, <2>1 DEF RefuseHeader, IsHeader
    <3>2. tags # <<>>
      BY <2>1, <3>1 DEF NextLine, IInv, ReaderInv
    <3> QED
      BY <1>3, <3>1, <3>2
  <2>2. CASE tmp_tag.memory # "freed"
    <3>1. /\ UNCHANGED <<writer, batch, at, file, d, d_written, reading_tag>>
          /\ reader' = "returned" /\ tags' = <<>>
          /\ err' \in {"E_FILE_FORMAT", "E_INVAL_NUM", "E_RANGE"}
          /\ tmp_tag' = [memory |-> "freed", y |-> <<>>]
          /\ pos' \in 0 .. Len(file) /\ pos' = pos + 1 /\ reader = "reading"
      BY <1>6, <2>2, NextLineIs DEF RefuseHeader, IsHeader, written
    <3>2. WriterInv'
      BY <3>1 DEF IInv, WriterInv, AllOut
    <3>3. ReaderInv'
      BY <3>1 DEF ReaderInv
    <3>4. TypeOK'
      BY <3>1 DEF IInv, TypeOK, IsTag, Numbers
    <3>5. tags' \in Seq(Vectors)
      BY <3>1
    <3> QED
      BY <1>0, <3>1, <3>2, <3>3, <3>4, <3>5 DEF IInv
  <2> QED
    BY <2>1, <2>2
<1>7. CASE Value
  <2>1. PICK n, y : n = line.num /\ y = [tmp_tag.y EXCEPT ![d_written] = n]
    OBVIOUS
  <2>2. /\ UNCHANGED <<writer, batch, at, file, reader, d, err>> /\ d_written' = d_written + 1
        /\ reading_tag /\ reader = "reading" /\ pos' \in 0 .. Len(file) /\ pos' = pos + 1
    BY <1>7, NextLineIs DEF Value, written
  <2>3. n \in Numbers
    BY <1>7, <2>1, NextLineIs, LineIs, TokensAssumption DEF Value, Tokens
  <2>4. /\ tmp_tag.memory = "live" /\ d_written <= d /\ DOMAIN tmp_tag.y = 0 .. d
        /\ \A k \in 0 .. d : /\ k < d_written => tmp_tag.y[k] \in Numbers
                             /\ k >= d_written => tmp_tag.y[k] = NULL
    BY <2>2 DEF IInv, ReaderInv
  <2>5. /\ DOMAIN y = 0 .. d
        /\ \A k \in 0 .. d : /\ k < d_written + 1 => y[k] \in Numbers
                             /\ k >= d_written + 1 => y[k] = NULL
    BY <1>0, <2>1, <2>3, <2>4
  <2>6. WriterInv'
    BY <2>2 DEF IInv, WriterInv, AllOut
  <2>7. CASE d_written = d
    <3>1. /\ reading_tag' = FALSE /\ tags' = Append(tags, y)
          /\ tmp_tag' = [memory |-> "freed", y |-> <<>>]
      BY <1>0, <1>7, <2>1, <2>7 DEF Value, Full
    <3>2. y \in [0 .. d -> Numbers]
      <4>1. \A k \in 0 .. d : y[k] \in Numbers
        BY <1>0, <2>5, <2>7
      <4>2. y = [k \in 0 .. d |-> y[k]]
        BY <2>1, <2>4
      <4> QED
        BY <4>1, <4>2
    <3>3. IsTag(y, Numbers)
      BY <1>0, <2>2, <2>7, <3>2 DEF IsTag
    <3>4. y \in Vectors
      <4>1. y \in [0 .. d -> Nat]
        BY <1>0, <3>2
      <4> QED
        BY <1>0, <4>1 DEF Vectors
    <3>5. tags \in Seq(Vectors) /\ \A m \in DOMAIN tags : IsTag(tags[m], Numbers)
      BY DEF IInv, TypeOK
    <3>6. tags' \in Seq(Vectors) /\ tags' # <<>>
      BY <3>1, <3>4, <3>5
    <3>7. \A m \in DOMAIN tags' : IsTag(tags'[m], Numbers)
      BY <3>1, <3>3, <3>4, <3>5
    <3>8. \A m \in DOMAIN tags' : IsTag(tags[m], Numbers)'
      BY <2>2, <3>7 DEF IsTag, Numbers
    <3>9. ReaderInv'
      BY <1>0, <2>2, <2>7, <3>1, <3>6 DEF ReaderInv
    <3>10. TypeOK'
      <4>1. Numbers' = Numbers /\ Len(file') = Len(file)
        BY <2>2 DEF Numbers
      <4>2. d' = d /\ d \in Numbers \cup {0} /\ d_written' \in 0 .. (d + 1)
        BY <1>0, <2>2, <2>7 DEF IInv, TypeOK
      <4>3. (\A m \in DOMAIN tags : IsTag(tags[m], Numbers))'
        BY <3>8
      <4>4. pos' \in 0 .. Len(file')
        BY <2>2, <4>1
      <4> QED
        BY <2>2, <3>1, <4>1, <4>2, <4>3, <4>4 DEF IInv, TypeOK
    <3> QED
      BY <1>0, <2>2, <2>6, <3>1, <3>6, <3>9, <3>10 DEF IInv
  <2>8. CASE d_written # d
    <3>0. ~ Full(d_written + 1)
      BY <1>0, <2>8 DEF Full
    <3>1. UNCHANGED <<reading_tag, tags>> /\ tmp_tag' = [tmp_tag EXCEPT !.y = y]
      BY <1>7, <2>1, <3>0 DEF Value
    <3>2. tmp_tag'.y = y /\ tmp_tag'.memory = "live" /\ DOMAIN tmp_tag' = {"memory", "y"}
      BY <2>4, <3>1 DEF IInv
    <3>3. ReaderInv'
      BY <1>0, <2>2, <2>4, <2>5, <2>8, <3>1, <3>2 DEF ReaderInv, Numbers
    <3>4. TypeOK'
      <4>1. d' = d /\ d_written' \in 0 .. (d + 1)
        BY <1>0, <2>2, <2>4, <2>8
      <4> QED
        BY <2>2, <3>1, <3>2, <4>1, Kept DEF IInv, TypeOK
    <3> QED
      BY <1>0, <2>2, <2>6, <3>1, <3>2, <3>3, <3>4 DEF IInv
  <2> QED
    BY <2>7, <2>8
<1>8. CASE ValueAsserted
  BY <1>3, <1>8 DEF ValueAsserted
<1>9. CASE SaveFreed
  <2>1. tags # <<>>
    BY <1>0, <1>9 DEF SaveFreed, NextLine, IInv, ReaderInv
  <2> QED
    BY <1>3, <1>9, <2>1 DEF SaveFreed
<1>10. CASE EndOfFile \/ UNCHANGED vars
  <2>1. /\ UNCHANGED <<writer, batch, at, file, pos, d, d_written, reading_tag, tmp_tag,
                       tags, err>>
        /\ reader' = reader \/ (reader = "reading" /\ reader' = "returned")
    BY <1>10 DEF EndOfFile, written, vars
  <2>2. WriterInv'
    BY <2>1 DEF IInv, WriterInv, AllOut
  <2>3. ReaderInv'
    BY <2>1 DEF IInv, ReaderInv, Numbers
  <2>4. TypeOK'
    BY <2>1, Kept DEF IInv, TypeOK
  <2> QED
    BY <2>1, <2>2, <2>3, <2>4 DEF IInv
<1> QED
  BY <1>1, <1>2, <1>4, <1>5, <1>6, <1>7, <1>8, <1>9, <1>10

-----------------------------------------------------------------------------
(***************************************************************************)
(* The invariant: what a line of a file can be, what is stored of the tag  *)
(* that is being read, and what the memory of the last one is.             *)
(***************************************************************************)
THEOREM Inductive == Spec => []IInv
<1>1. IInv /\ [Next]_vars => IInv'
  BY WriterStep, ReaderStep DEF Next, Over
<1> QED
  BY InitInv, <1>1, PTL DEF Spec

(***************************************************************************)
(* Whatever is read, the reader knows where it is in the file and in a     *)
(* tag, and returns tags of numbers that are in the file.                  *)
(***************************************************************************)
THEOREM TypeCorrect == Spec => []TypeOK
<1>1. IInv => TypeOK
  BY DEF IInv
<1> QED
  BY <1>1, Inductive, PTL

(***************************************************************************)
(* For files of any length and content, a coefficient is stored in memory  *)
(* that is allocated, within its bounds, next to those before.             *)
(***************************************************************************)
THEOREM StoresAreInBounds == Spec => []StoresInBounds
<1>1. IInv => StoresInBounds
  <2> SUFFICES ASSUME IInv, reader = "reading", reading_tag
               PROVE  /\ tmp_tag.memory = "live" /\ d_written \in DOMAIN tmp_tag.y
                      /\ \A k \in DOMAIN tmp_tag.y :
                           (k < d_written) <=> (tmp_tag.y[k] # NULL)
    BY DEF StoresInBounds
  <2>1. /\ d \in Nat /\ d_written \in Nat /\ d_written <= d /\ DOMAIN tmp_tag.y = 0 .. d
        /\ tmp_tag.memory = "live"
        /\ \A k \in 0 .. d : /\ k < d_written => tmp_tag.y[k] \in Numbers
                             /\ k >= d_written => tmp_tag.y[k] = NULL
    BY DEF IInv, ReaderInv, TypeOK, Numbers
  <2>2. NULL \notin Numbers
    BY TokensAssumption DEF Numbers
  <2> QED
    BY <2>1, <2>2
<1> QED
  BY <1>1, Inductive, PTL

(***************************************************************************)
(* For files of any length and content, memory that was freed is touched   *)
(* only after a complete tag.                                              *)
(***************************************************************************)
THEOREM CorruptionNeedsTag == Spec => []CorruptedAfterTag
<1>1. IInv => CorruptedAfterTag
  BY DEF IInv, ReaderInv, CorruptedAfterTag
<1> QED
  BY <1>1, Inductive, PTL

(***************************************************************************)
(* assert(d+1 == d_written || d == 0) holds at every header, whatever the  *)
(* file.                                                                   *)
(***************************************************************************)
THEOREM AssertionHolds == Spec => [](reader = "reading" /\ ~ reading_tag => AssertTagRead)
<1>1. IInv => (reader = "reading" /\ ~ reading_tag => AssertTagRead)
  BY DEF IInv, ReaderInv, AssertTagRead
<1> QED
  BY <1>1, Inductive, PTL
-----------------------------------------------------------------------------
(***************************************************************************)
(* What is written is read                                                 *)
(***************************************************************************)
\* What FlattenSeq computes, step by step.
LEMMA Flattening ==
  ASSUME NEW S, NEW n \in Nat \ {0}, NEW seqs \in [1 .. n -> Seq(S)]
  PROVE  \E f \in [0 .. n -> Seq(S)] :
           /\ f[0] = <<>> /\ \A i \in 1 .. n : f[i] = f[i - 1] \o seqs[i]
           /\ FlattenSeq(seqs) = f[n]
<1>1. PICK Q : Q = Seq(S)
  OBVIOUS
<1>2. PICK F : F = [i \in 1 .. n |-> [s \in Q |-> s \o seqs[i]]]
  OBVIOUS
<1>3. PICK a : a = <<>>
  OBVIOUS
<1>4. a \in Q /\ F \in [1 .. n -> [Q -> Q]]
  <2>1. \A s \in Q, i \in 1 .. n : s \o seqs[i] \in Q
    BY <1>1
  <2> QED
    BY <1>1, <1>2, <1>3, <2>1
<1>5. PICK f \in [0 .. n -> Q] : f[0] = a /\ \A i \in 1 .. n : f[i] = F[i][f[i - 1]]
  <2>1. n \in Nat
    OBVIOUS
  <2>2. F \in StepsIn(n, Q)
    BY <1>4 DEF StepsIn
  <2>3. \E f : Recurs(f, n, Q, a, F)
    BY <1>4, <2>1, <2>2, Recursive
  <2> QED
    BY <2>3, Zenon DEF Recurs
<1>6. \A i \in 1 .. n : f[i] = f[i - 1] \o seqs[i]
  <2> TAKE i \in 1 .. n
  <2>1. i - 1 \in 0 .. n
    OBVIOUS
  <2>2. f[i - 1] \in Q
    BY <2>1
  <2>3. F[i][f[i - 1]] = f[i - 1] \o seqs[i]
    BY <1>2, <2>2
  <2> QED
    BY <1>5, <2>3
<1>7. f[1] = seqs[1]
  <2>1. 1 \in 1 .. n /\ 1 - 1 = 0 /\ seqs[1] \in Seq(S)
    OBVIOUS
  <2>2. f[1] = a \o seqs[1]
    BY <1>5, <1>6, <2>1
  <2>3. <<>> \o seqs[1] = seqs[1]
    BY <2>1
  <2> QED
    BY <1>3, <2>2, <2>3
<1> DEFINE flatten[i \in 1 .. Len(seqs)] == IF i = 1 THEN seqs[i] ELSE flatten[i - 1] \o seqs[i]
<1>8. Len(seqs) = n /\ seqs \in Seq(Seq(S))
  OBVIOUS
<1>9. FlattenSeq(seqs) = flatten[n]
  BY <1>8, Zenon DEF FlattenSeq
<1>10. flatten = [i \in 1 .. Len(seqs) |-> IF i = 1 THEN seqs[i] ELSE flatten[i - 1] \o seqs[i]]
  <2>1. PICK g : g = [i \in 1 .. n |-> f[i]]
    OBVIOUS
  <2>2. g = [i \in 1 .. Len(seqs) |-> IF i = 1 THEN seqs[i] ELSE g[i - 1] \o seqs[i]]
    <3>1. \A i \in 1 .. n : g[i] = IF i = 1 THEN seqs[i] ELSE g[i - 1] \o seqs[i]
      <4> TAKE i \in 1 .. n
      <4>1. CASE i = 1
        BY <1>7, <2>1, <4>1
      <4>2. CASE i # 1
        <5>1. i - 1 \in 1 .. n /\ g[i - 1] = f[i - 1] /\ g[i] = f[i]
          BY <2>1, <4>2
        <5>2. f[i] = f[i - 1] \o seqs[i]
          BY <1>6
        <5> QED
          BY <4>2, <5>1, <5>2, Zenon
      <4> QED
        BY <4>1, <4>2
    <3> QED
      BY <1>8, <2>1, <3>1
  <2> QED
    BY <2>2
<1>11. \E h : /\ h = flatten
             /\ h = [i \in 1 .. Len(seqs) |-> IF i = 1 THEN seqs[i] ELSE h[i - 1] \o seqs[i]]
  BY <1>10, Zenon
<1>12. PICK h : /\ h = flatten
               /\ h = [i \in 1 .. Len(seqs) |-> IF i = 1 THEN seqs[i] ELSE h[i - 1] \o seqs[i]]
  BY <1>11, Zenon
<1>13. h = [i \in 1 .. n |-> IF i = 1 THEN seqs[i] ELSE h[i - 1] \o seqs[i]]
  BY ONLY <1>8, <1>12
<1>14. PICK P : P = {i \in 0 .. n : i = 0 \/ h[i] = f[i]}
  OBVIOUS
<1>15. ASSUME NEW i \in 1 .. n, i - 1 \in P
       PROVE  i \in P
  <2>1. h[i] = IF i = 1 THEN seqs[i] ELSE h[i - 1] \o seqs[i]
    BY <1>13
  <2>2. CASE i = 1
    BY <1>7, <1>14, <2>1, <2>2
  <2>3. CASE i # 1
    <3>1. h[i - 1] = f[i - 1]
      BY <1>14, <1>15, <2>3
    <3>2. h[i] = f[i]
      BY <1>6, <2>1, <2>3, <3>1
    <3> QED
      BY <1>14, <3>2
  <2> QED
    BY <2>2, <2>3
<1>16. n \in P
  <2>1. n \in Nat /\ 0 \in P
    BY <1>14
  <2>2. \A i \in 0 .. n : i \in P
    BY <2>1, <1>15, UpTo
  <2> QED
    BY <2>1, <2>2
<1>17. FlattenSeq(seqs) = f[n]
  BY <1>9, <1>12, <1>14, <1>16
<1> QED
  BY <1>1, <1>3, <1>5, <1>6, <1>17

\* In w the n sequences follow each other: the i-th after the first L[i - 1] elements.
Laid(w, seqs, n, L) ==
  /\ L \in [0 .. n -> Nat] /\ L[0] = 0 /\ Len(w) = L[n]
  /\ \A i \in 1 .. n : L[i] = L[i - 1] + Len(seqs[i])
  /\ \A i \in 1 .. n : \A k \in 1 .. Len(seqs[i]) :
       L[i - 1] + k <= L[n] /\ w[L[i - 1] + k] = seqs[i][k]

\* So they do in what FlattenSeq makes of them.
LEMMA Flattened ==
  ASSUME NEW S, NEW n \in Nat, NEW seqs \in [1 .. n -> Seq(S)]
  PROVE  \E L : Laid(FlattenSeq(seqs), seqs, n, L)
<1>1. CASE n = 0
  <2>1. PICK L : L = [i \in 0 .. n |-> 0]
    OBVIOUS
  <2>2. Len(seqs) = 0 /\ seqs \in Seq(S)
    BY <1>1
  <2>3. FlattenSeq(seqs) = seqs
    BY <2>2, Zenon DEF FlattenSeq
  <2>4. /\ L \in [0 .. n -> Nat] /\ L[0] = 0 /\ L[n] = 0
        /\ \A i \in 1 .. n : FALSE
    BY <1>1, <2>1
  <2>5. Laid(FlattenSeq(seqs), seqs, n, L)
    BY <2>2, <2>3, <2>4 DEF Laid
  <2> QED
    BY <2>5
<1>2. CASE n # 0
  <2>1. n \in Nat \ {0}
    BY <1>2
  <2>2. \E f \in [0 .. n -> Seq(S)] :
          /\ f[0] = <<>> /\ \A i \in 1 .. n : f[i] = f[i - 1] \o seqs[i]
          /\ FlattenSeq(seqs) = f[n]
    BY <2>1, Flattening, Zenon
  <2>3. PICK f \in [0 .. n -> Seq(S)] :
          /\ f[0] = <<>> /\ \A i \in 1 .. n : f[i] = f[i - 1] \o seqs[i]
          /\ FlattenSeq(seqs) = f[n]
    BY <2>2
  <2>4. PICK L : L = [i \in 0 .. n |-> Len(f[i])]
    OBVIOUS
  <2>5. ASSUME NEW i \in 1 .. n
        PROVE  /\ i - 1 \in 0 .. n /\ i \in 0 .. n /\ f[i - 1] \in Seq(S) /\ seqs[i] \in Seq(S)
               /\ L[i] = L[i - 1] + Len(seqs[i]) /\ L[i - 1] \in Nat /\ Len(seqs[i]) \in Nat
               /\ \A x \in 1 .. L[i - 1] : f[i][x] = f[i - 1][x]
               /\ \A k \in 1 .. Len(seqs[i]) : f[i][L[i - 1] + k] = seqs[i][k]
    <3>1. i - 1 \in 0 .. n /\ i \in 0 .. n /\ f[i] = f[i - 1] \o seqs[i]
      <4>1. f[i] = f[i - 1] \o seqs[i]
        BY <2>3, Zenon
      <4> QED
        BY <4>1
    <3>2. f[i - 1] \in Seq(S) /\ seqs[i] \in Seq(S) /\ L[i] = Len(f[i]) /\ L[i - 1] = Len(f[i - 1])
      BY <2>4, <3>1
    <3>3. PICK u, v : u = f[i - 1] /\ v = seqs[i]
      OBVIOUS
    <3>4. u \in Seq(S) /\ v \in Seq(S)
      BY <3>2, <3>3
    <3>5. /\ Len(u \o v) = Len(u) + Len(v) /\ Len(u) \in Nat /\ Len(v) \in Nat
          /\ \A x \in 1 .. Len(u) : (u \o v)[x] = u[x]
          /\ \A k \in 1 .. Len(v) : (u \o v)[Len(u) + k] = v[k]
      BY ONLY <3>4
    <3> QED
      BY <3>1, <3>2, <3>3, <3>5
  <2>6. L \in [0 .. n -> Nat]
    <3>1. \A i \in 0 .. n : Len(f[i]) \in Nat
      BY <2>3
    <3> QED
      BY <2>4, <3>1
  <2>7. L[0] = 0
    BY <2>3, <2>4
  <2>8. PICK P : P = {j \in 0 .. n : \A i \in 1 .. j : \A k \in 1 .. Len(seqs[i]) :
                        L[i - 1] + k <= L[j] /\ f[j][L[i - 1] + k] = seqs[i][k]}
    OBVIOUS
  <2>9. 0 \in P
    BY <2>8
  <2>10. ASSUME NEW j \in 1 .. n, j - 1 \in P
         PROVE  j \in P
    <3>1. SUFFICES ASSUME NEW i \in 1 .. j, NEW k \in 1 .. Len(seqs[i])
                   PROVE  L[i - 1] + k <= L[j] /\ f[j][L[i - 1] + k] = seqs[i][k]
      BY <2>8
    <3>2. /\ L[j] = L[j - 1] + Len(seqs[j]) /\ L[j - 1] \in Nat /\ Len(seqs[j]) \in Nat
          /\ \A x \in 1 .. L[j - 1] : f[j][x] = f[j - 1][x]
          /\ \A m \in 1 .. Len(seqs[j]) : f[j][L[j - 1] + m] = seqs[j][m]
      BY <2>5
    <3>3. CASE i = j
      BY <3>2, <3>3
    <3>4. CASE i # j
      <4>1. i \in 1 .. (j - 1) /\ i \in 1 .. n
        BY <3>4
      <4>2. L[i - 1] + k <= L[j - 1] /\ f[j - 1][L[i - 1] + k] = seqs[i][k]
        BY <2>8, <2>10, <4>1
      <4>3. L[i - 1] \in Nat /\ k \in Nat /\ k >= 1
        BY <2>5, <4>1
      <4>4. PICK x, a, b, c, l : x = L[i - 1] + k /\ a = L[i - 1] /\ b = L[j - 1]
                                 /\ c = Len(seqs[j]) /\ l = L[j]
        OBVIOUS
      <4>5. a \in Nat /\ k \in Nat /\ k >= 1 /\ x = a + k /\ x <= b /\ l = b + c
            /\ b \in Nat /\ c \in Nat
        BY <3>2, <4>2, <4>3, <4>4
      <4>6. x \in 1 .. b /\ x <= l
        BY ONLY <4>5
      <4>7. f[j][x] = f[j - 1][x]
        BY <3>2, <4>4, <4>6
      <4>8. f[j - 1][x] = seqs[i][k]
        BY <4>2, <4>4
      <4>9. x <= l /\ f[j][x] = seqs[i][k]
        BY <4>6, <4>7, <4>8
      <4> QED
        BY <4>4, <4>9
    <3> QED
      BY <3>3, <3>4
  <2>11. n \in P
    <3>1. n \in Nat /\ \A j \in 1 .. n : j - 1 \in P => j \in P
      BY <2>10
    <3>2. \A j \in 0 .. n : j \in P
      BY ONLY <2>9, <3>1, UpTo
    <3> QED
      BY ONLY <3>1, <3>2
  <2>12. \A i \in 1 .. n : \A k \in 1 .. Len(seqs[i]) :
           L[i - 1] + k <= L[n] /\ f[n][L[i - 1] + k] = seqs[i][k]
    BY <2>8, <2>11
  <2>13. L[n] = Len(f[n]) /\ f[n] \in Seq(S) /\ FlattenSeq(seqs) = f[n]
    BY <2>3, <2>4
  <2>14. \A i \in 1 .. n : L[i] = L[i - 1] + Len(seqs[i])
    BY <2>5
  <2>15. Laid(f[n], seqs, n, L)
    BY <2>6, <2>7, <2>12, <2>13, <2>14, Zenon DEF Laid
  <2> QED
    BY <2>13, <2>15
<1> QED
  BY <1>1, <1>2

\* Where the lines of each tag lie in the file of a batch: the lines of tag i
\* follow the first L[i - 1].
Layout(L) ==
  /\ L \in [0 .. Len(batch) -> Nat] /\ L[0] = 0 /\ Len(Whole) = L[Len(batch)]
  /\ \A i \in 1 .. Len(batch) : L[i] = L[i - 1] + Degree(batch[i]) + 2
  /\ \A i \in 1 .. Len(batch) : \A k \in 1 .. (Degree(batch[i]) + 2) :
       /\ L[i - 1] + k <= Len(Whole)
       /\ Whole[L[i - 1] + k] = IF k = 1 THEN [verb |-> "tag d:", num |-> Degree(batch[i])]
                                ELSE [verb |-> "value", num |-> batch[i][k - 2]]

\* The first n lines on disk are those of the batch.
SameUpTo(n) == n \in Nat /\ n <= Len(Whole) /\ \A m \in 1 .. n : file[m] = Whole[m]

\* A line was cut, and no longer is the line it was.
Torn == writer = "killed" /\ ~ SameUpTo(Len(file))

\* What is on disk are the first lines of the batch, but for one that was cut.
FileInv(L) ==
  LET out == L[at[1] - 1] + at[2] - 1
  IN  /\ batch \in Batches
      /\ at[1] \in 1 .. (Len(batch) + 1)
      /\ AllOut => at[2] = 1
      /\ ~ AllOut => at[2] \in 1 .. (Degree(batch[at[1]]) + 2)
      /\ SameUpTo(out)
      /\ \/ Len(file) = out
         \/ /\ writer = "killed" /\ ~ AllOut
            /\ Len(file) = out + 1 /\ file[out + 1] \in Cut(NextOut)
      /\ writer = "closed" => AllOut

\* The reader is where the writer was, and has read what it wrote.
InStep(L) ==
  /\ Len(tags) <= Len(batch) /\ \A n \in 1 .. Len(tags) : tags[n] = batch[n]
  /\ pos = L[Len(tags)] + (IF reading_tag THEN d_written + 1 ELSE 0)
  /\ reading_tag =>
       /\ Len(tags) < Len(batch) /\ d = Degree(batch[Len(tags) + 1]) /\ d_written <= d
       /\ \A k \in 0 .. (d_written - 1) : tmp_tag.y[k] = batch[Len(tags) + 1][k]
  /\ SameUpTo(pos)

\* The tags are the first of the batch, but for the last coefficient.
Nearly ==
  /\ Len(tags) <= Len(batch)
  /\ \A n \in DOMAIN tags :
       /\ DOMAIN tags[n] = DOMAIN batch[n]
       /\ \A k \in DOMAIN tags[n] :
            tags[n][k] # batch[n][k] => n = Len(tags) /\ k = Degree(batch[n])

SyncInv(L) ==
  /\ err = "E_NOERR"
  /\ reader \in {"aborted", "crashed", "corrupted"} => Torn
  /\ reader = "returned" => pos = Len(file)
  /\ reader \in {"call", "reading", "returned"} =>
       InStep(L) \/ (Torn /\ pos = Len(file) /\ Nearly)

Written == writer \in {"open", "closed", "killed"}

FilesInv ==
  /\ IInv
  /\ writer = "call" => file = <<>>
  /\ reader = "call" => err = "E_NOERR"
  /\ Written => \E L : Layout(L) /\ FileInv(L) /\ SyncInv(L)

\* The lines of a tag, one by one.
LEMMA LinesOf ==
  ASSUME NEW y, Degree(y) \in Nat, y \in [0 .. Degree(y) -> Nat]
  PROVE  /\ Lines(y) \in Seq(OutLines) /\ Len(Lines(y)) = Degree(y) + 2
         /\ \A k \in 1 .. (Degree(y) + 2) :
              Lines(y)[k] = IF k = 1 THEN [verb |-> "tag d:", num |-> Degree(y)]
                            ELSE [verb |-> "value", num |-> y[k - 2]]
<1>1. PICK n, S, x, v, head :
        /\ n = Degree(y) /\ S = OutLines
        /\ x = [verb |-> "tag d:", num |-> n] /\ head = <<x>>
        /\ v = [k \in 1 .. (n + 1) |-> [verb |-> "value", num |-> y[k - 1]]]
  OBVIOUS
<1>2. n \in Nat /\ x \in S /\ \A m \in Nat : [verb |-> "value", num |-> m] \in S
  BY <1>1 DEF OutLines
<1>3. \A k \in 1 .. (n + 1) : y[k - 1] \in Nat
  <2>1. \A k \in 1 .. (n + 1) : k - 1 \in 0 .. n
    BY <1>2
  <2>2. \A m \in 0 .. n : y[m] \in Nat
    BY <1>1
  <2> QED
    BY <2>1, <2>2
<1>4. v \in [1 .. (n + 1) -> S]
  BY <1>1, <1>2, <1>3
<1>5. v \in Seq(S) /\ Len(v) = n + 1 /\ head \in Seq(S) /\ Len(head) = 1 /\ head[1] = x
  <2>1. v \in Seq(S) /\ Len(v) = n + 1
    BY ONLY <1>2, <1>4
  <2>2. head = <<x>>
    BY <1>1
  <2> QED
    BY ONLY <1>2, <2>1, <2>2
<1>6. Lines(y) = head \o v
  BY <1>1 DEF Lines
<1>7. /\ head \o v \in Seq(S) /\ Len(head \o v) = n + 2
      /\ (head \o v)[1] = x /\ \A k \in 2 .. (n + 2) : (head \o v)[k] = v[k - 1]
  <2>1. head \in Seq(S) /\ v \in Seq(S)
    BY <1>5
  <2>2. PICK u : u = head \o v
    OBVIOUS
  <2>3. /\ u \in Seq(S) /\ Len(u) = Len(head) + Len(v)
        /\ \A k \in 1 .. Len(head) : u[k] = head[k]
        /\ \A k \in 1 .. Len(v) : u[Len(head) + k] = v[k]
    BY ONLY <2>1, <2>2
  <2>4. Len(head) = 1 /\ Len(v) = n + 1 /\ n \in Nat /\ head[1] = x
    BY <1>2, <1>5
  <2>5. u \in Seq(S) /\ Len(u) = n + 2 /\ u[1] = x
    BY ONLY <2>3, <2>4
  <2>6. \A k \in 2 .. (n + 2) : u[k] = v[k - 1]
    <3> TAKE k \in 2 .. (n + 2)
    <3>1. k - 1 \in 1 .. Len(v) /\ Len(head) + (k - 1) = k
      BY ONLY <2>4
    <3>2. u[Len(head) + (k - 1)] = v[k - 1]
      BY ONLY <2>3, <3>1
    <3> QED
      BY ONLY <3>1, <3>2
  <2> QED
    BY <2>2, <2>5, <2>6
<1>8. PICK lines : lines = Lines(y)
  OBVIOUS
<1>9. /\ lines \in Seq(S) /\ Len(lines) = n + 2
      /\ lines[1] = x /\ \A k \in 2 .. (n + 2) : lines[k] = v[k - 1]
  BY ONLY <1>6, <1>7, <1>8
<1>10. ASSUME NEW k \in 1 .. (n + 2)
       PROVE  lines[k] = IF k = 1 THEN [verb |-> "tag d:", num |-> n]
                         ELSE [verb |-> "value", num |-> y[k - 2]]
  <2>1. CASE k = 1
    BY <1>1, <1>9, <2>1
  <2>2. CASE k # 1
    <3>1. k - 1 \in 1 .. (n + 1) /\ k \in 2 .. (n + 2) /\ (k - 1) - 1 = k - 2
      BY <1>2, <2>2
    <3>2. v[k - 1] = [verb |-> "value", num |-> y[k - 2]]
      BY <1>1, <3>1
    <3> QED
      BY <1>9, <2>2, <3>1, <3>2
  <2> QED
    BY <2>1, <2>2
<1> QED
  BY <1>1, <1>8, <1>9, <1>10

\* Every batch has a layout.
LEMMA LaidOut ==
  ASSUME batch \in Batches
  PROVE  \E L : Layout(L)
<1>1. PICK n, S, seqs : /\ n = Len(batch) /\ S = OutLines
                        /\ seqs = [i \in DOMAIN batch |-> Lines(batch[i])]
  OBVIOUS
<1>2. n \in Nat /\ DOMAIN batch = 1 .. n
  BY <1>1, BatchShape
<1>3. ASSUME NEW i \in 1 .. n
      PROVE  /\ seqs[i] \in Seq(S) /\ Len(seqs[i]) = Degree(batch[i]) + 2
             /\ Degree(batch[i]) \in Nat
             /\ \A k \in 1 .. (Degree(batch[i]) + 2) :
                  seqs[i][k] = IF k = 1 THEN [verb |-> "tag d:", num |-> Degree(batch[i])]
                               ELSE [verb |-> "value", num |-> batch[i][k - 2]]
  <2>1. PICK y : y = batch[i]
    OBVIOUS
  <2>2. Degree(y) \in Nat /\ y \in [0 .. Degree(y) -> Nat]
    BY <1>1, <2>1, BatchShape
  <2>3. seqs[i] = Lines(y)
    BY <1>1, <1>2, <2>1
  <2>4. /\ Lines(y) \in Seq(OutLines) /\ Len(Lines(y)) = Degree(y) + 2
        /\ \A k \in 1 .. (Degree(y) + 2) :
             Lines(y)[k] = IF k = 1 THEN [verb |-> "tag d:", num |-> Degree(y)]
                           ELSE [verb |-> "value", num |-> y[k - 2]]
    BY ONLY <2>2, LinesOf
  <2> QED
    BY <1>1, <2>1, <2>2, <2>3, <2>4
<1>4. seqs \in [1 .. n -> Seq(S)]
  BY <1>1, <1>2, <1>3
<1>5. PICK w, L : w = FlattenSeq(seqs) /\ Laid(w, seqs, n, L)
  BY <1>2, <1>4, Flattened
<1>6. Whole = w
  BY <1>1, <1>5, Zenon DEF Whole
<1>7. L \in [0 .. n -> Nat] /\ L[0] = 0 /\ Len(w) = L[n]
  BY <1>5 DEF Laid
<1>8. \A i \in 1 .. n : L[i] = L[i - 1] + Degree(batch[i]) + 2
  <2> TAKE i \in 1 .. n
  <2>1. L[i] = L[i - 1] + Len(seqs[i]) /\ i - 1 \in 0 .. n
    <3>1. L[i] = L[i - 1] + Len(seqs[i])
      BY <1>5, Zenon DEF Laid
    <3> QED
      BY <1>2, <3>1
  <2>2. Len(seqs[i]) = Degree(batch[i]) + 2 /\ Degree(batch[i]) \in Nat /\ L[i - 1] \in Nat
    BY <1>3, <1>7, <2>1
  <2> QED
    BY <2>1, <2>2
<1>9. \A i \in 1 .. n : \A k \in 1 .. (Degree(batch[i]) + 2) :
        /\ L[i - 1] + k <= Len(w)
        /\ w[L[i - 1] + k] = IF k = 1 THEN [verb |-> "tag d:", num |-> Degree(batch[i])]
                             ELSE [verb |-> "value", num |-> batch[i][k - 2]]
  <2> TAKE i \in 1 .. n
  <2> TAKE k \in 1 .. (Degree(batch[i]) + 2)
  <2>1. k \in 1 .. Len(seqs[i])
    BY <1>3
  <2>2. L[i - 1] + k <= L[n] /\ w[L[i - 1] + k] = seqs[i][k]
    BY <1>5, <2>1 DEF Laid
  <2>3. seqs[i][k] = IF k = 1 THEN [verb |-> "tag d:", num |-> Degree(batch[i])]
                     ELSE [verb |-> "value", num |-> batch[i][k - 2]]
    BY <1>3
  <2> QED
    BY <1>7, <2>2, <2>3
<1>10. Layout(L)
  BY <1>1, <1>6, <1>7, <1>8, <1>9, Zenon DEF Layout
<1> QED
  BY <1>10

\* A step that leaves the batch alone leaves its layout alone.
LEMMA LayoutStays ==
  ASSUME batch' = batch
  PROVE  Whole' = Whole /\ \A L : Layout(L)' = Layout(L)
<1>1. Whole' = Whole
  BY DEF Whole
<1> QED
  BY <1>1 DEF Layout

\* What the writer brings to disk next is the line of the batch at that place.
LEMMA NextOutIs ==
  ASSUME NEW L, Layout(L), FileInv(L), ~ AllOut
  PROVE  /\ L[at[1] - 1] + at[2] <= Len(Whole)
         /\ NextOut = Whole[L[at[1] - 1] + at[2]]
         /\ Len(Lines(batch[at[1]])) = Degree(batch[at[1]]) + 2
         /\ Degree(batch[at[1]]) \in Nat /\ at[1] \in 1 .. Len(batch) /\ Len(batch) \in Nat
         /\ L[at[1] - 1] \in Nat /\ at[2] \in 1 .. (Degree(batch[at[1]]) + 2)
<1>1. /\ batch \in Batches /\ at[1] \in 1 .. (Len(batch) + 1)
      /\ at[2] \in 1 .. (Degree(batch[at[1]]) + 2)
  BY DEF FileInv
<1>2. Len(batch) \in Nat /\ at[1] \in 1 .. Len(batch)
  BY <1>1, BatchShape DEF AllOut
<1>3. PICK i, y, k : i = at[1] /\ y = batch[i] /\ k = at[2]
  OBVIOUS
<1>4. Degree(y) \in Nat /\ y \in [0 .. Degree(y) -> Nat]
  BY <1>1, <1>2, <1>3, BatchShape
<1>5. /\ Len(Lines(y)) = Degree(y) + 2
      /\ \A m \in 1 .. (Degree(y) + 2) :
           Lines(y)[m] = IF m = 1 THEN [verb |-> "tag d:", num |-> Degree(y)]
                         ELSE [verb |-> "value", num |-> y[m - 2]]
  BY ONLY <1>4, LinesOf
<1>6. NextOut = Lines(y)[k]
  BY <1>3 DEF NextOut
<1>7. /\ L[i - 1] + k <= Len(Whole)
      /\ Whole[L[i - 1] + k] = IF k = 1 THEN [verb |-> "tag d:", num |-> Degree(y)]
                               ELSE [verb |-> "value", num |-> y[k - 2]]
  BY <1>1, <1>2, <1>3, Zenon DEF Layout
<1>8. k \in 1 .. (Degree(y) + 2)
  BY <1>1, <1>3
<1>9. NextOut = Whole[L[i - 1] + k]
  BY <1>5, <1>6, <1>7, <1>8
<1>10. L[i - 1] \in Nat
  <2>1. i - 1 \in 0 .. Len(batch)
    BY <1>2, <1>3
  <2> QED
    BY <2>1 DEF Layout
<1> QED
  BY <1>2, <1>3, <1>4, <1>5, <1>7, <1>8, <1>9, <1>10

\* While the reader was not called, it is in step.
LEMMA NotCalled ==
  ASSUME IInv, batch \in Batches, NEW L, Layout(L), reader = "call", err = "E_NOERR"
  PROVE  SyncInv(L)
<1>1. /\ pos = 0 /\ ~ reading_tag /\ tags = <<>>
  BY DEF IInv, ReaderInv
<1>2. L[0] = 0 /\ Len(Whole) \in Nat /\ Len(batch) \in Nat
  <2>1. L \in [0 .. Len(batch) -> Nat] /\ L[0] = 0 /\ Len(Whole) = L[Len(batch)]
    BY DEF Layout
  <2>2. Len(batch) \in Nat
    BY BatchShape
  <2> QED
    BY <2>1, <2>2
<1>3. InStep(L)
  BY <1>1, <1>2 DEF InStep, SameUpTo
<1> QED
  BY <1>3 DEF SyncInv

\* A step of the writer keeps what the file is known to hold of the batch.
LEMMA WriterKeeps ==
  ASSUME FilesInv, Open \/ Flush \/ Close \/ Kill \/ \E l \in ForeignLines : WriteByHand(l)
  PROVE  FilesInv'
<1>0. IInv'
  BY WriterStep DEF FilesInv
<1>1. CASE Open
  <2>1. /\ batch' \in Batches /\ at' = <<1, 1>> /\ file' = <<>> /\ reader' = "call"
        /\ err' = "E_NOERR" /\ writer' = "open"
    BY <1>1 DEF Open, FilesInv, IInv, WriterInv
  <2>2. (\E L : Layout(L))'
    <3>1. (batch \in Batches)'
      BY <2>1
    <3> QED
      BY <3>1, LaidOut, PTL
  <2>3. PICK L : Layout(L)'
    BY <2>2
  <2>4. FileInv(L)'
    <3>1. L[0] = 0 /\ L \in [0 .. Len(batch') -> Nat] /\ Len(Whole') = L[Len(batch')]
      BY <2>3 DEF Layout
    <3>2. Len(batch') \in Nat /\ \A i \in 1 .. Len(batch') : Degree(batch'[i]) \in Nat
      BY <2>1, BatchShape
    <3>3. Len(file') = 0 /\ Len(Whole') \in Nat
      BY <2>1, <3>1, <3>2
    <3>4. at'[1] = 1 /\ at'[2] = 1
      BY <2>1
    <3>5. at'[1] \in 1 .. (Len(batch') + 1)
      BY <3>2, <3>4
    <3>6. ~ AllOut' => 1 \in 1 .. (Degree(batch'[1]) + 2)
      BY <3>2, <3>4 DEF AllOut
    <3>7. SameUpTo(0)'
      BY <3>3 DEF SameUpTo
    <3>8. L[at'[1] - 1] + at'[2] - 1 = 0
      BY <3>1, <3>4
    <3> QED
      BY <2>1, <3>3, <3>4, <3>5, <3>6, <3>7, <3>8 DEF FileInv
  <2>5. SyncInv(L)'
    <3>1. (IInv /\ batch \in Batches /\ Layout(L) /\ reader = "call" /\ err = "E_NOERR")'
      BY <1>0, <2>1, <2>3
    <3> QED
      BY <3>1, NotCalled, PTL
  <2> QED
    BY <1>0, <2>1, <2>3, <2>4, <2>5 DEF FilesInv
<1>2. ASSUME NEW l \in ForeignLines, WriteByHand(l)
      PROVE  FilesInv'
  BY <1>0, <1>2 DEF FilesInv, WriteByHand, Written
<1>3. ASSUME writer = "open", batch' = batch,
             UNCHANGED <<reader, pos, d, d_written, reading_tag, tmp_tag, tags, err>>,
             writer' # "call", \A L : Layout(L) /\ FileInv(L) => FileInv(L)'
      PROVE  FilesInv'
  <2>1. PICK L : Layout(L) /\ FileInv(L)
    BY <1>3 DEF FilesInv, Written
  <2>2. Layout(L)'
    BY <1>3, <2>1, LayoutStays
  <2>3. reader' = "call" /\ err' = "E_NOERR" /\ batch' \in Batches
    BY <1>3 DEF FilesInv, IInv, WriterInv
  <2>4. SyncInv(L)'
    <3>1. (IInv /\ batch \in Batches /\ Layout(L) /\ reader = "call" /\ err = "E_NOERR")'
      BY <1>0, <2>2, <2>3
    <3> QED
      BY <3>1, NotCalled, PTL
  <2>5. FileInv(L)'
    BY <1>3, <2>1
  <2> QED
    BY <1>0, <1>3, <2>2, <2>3, <2>4, <2>5 DEF FilesInv
<1>4. CASE Flush
  <2>1. ASSUME NEW L, Layout(L), FileInv(L)
        PROVE  FileInv(L)'
    <3>1. /\ writer = "open" /\ ~ AllOut /\ file' = Append(file, NextOut) /\ batch' = batch
          /\ at' = IF at[2] = Len(Lines(batch[at[1]])) THEN <<at[1] + 1, 1>>
                   ELSE <<at[1], at[2] + 1>>
          /\ writer' = "open"
      BY <1>4 DEF Flush
    <3>2. PICK i, k, y, b, w : /\ i = at[1] /\ k = at[2] /\ y = batch[at[1]] /\ b = L[at[1] - 1]
                               /\ w = Whole
      OBVIOUS
    <3>3. /\ b + k <= Len(w) /\ NextOut = w[b + k] /\ Len(Lines(y)) = Degree(y) + 2
          /\ Degree(y) \in Nat /\ i \in 1 .. Len(batch) /\ Len(batch) \in Nat
          /\ b \in Nat /\ k \in 1 .. (Degree(y) + 2)
      BY <2>1, <3>1, <3>2, NextOutIs
    <3>4. /\ batch \in Batches /\ Len(file) = b + k - 1 /\ \A m \in 1 .. (b + k - 1) : file[m] = w[m]
      BY <2>1, <3>1, <3>2 DEF FileInv, SameUpTo
    <3>5. file \in Seq(AllLines)
      BY DEF FilesInv, IInv, WriterInv
    <3>6. /\ Len(file') = b + k
          /\ \A m \in 1 .. (b + k) : file'[m] = w[m]
      BY <3>1, <3>3, <3>4, <3>5
    <3>7. SameUpTo(b + k)'
      <4>1. Whole' = w /\ b + k \in Nat
        BY <3>1, <3>2, <3>3, LayoutStays
      <4> QED
        BY <3>3, <3>6, <4>1 DEF SameUpTo
    <3>8. CASE k = Degree(y) + 2
      <4>1. at' = <<i + 1, 1>>
        BY <3>1, <3>2, <3>3, <3>8
      <4>2. L[i] = b + Degree(y) + 2
        BY <2>1, <3>2, <3>3 DEF Layout
      <4>3. L[at'[1] - 1] + at'[2] - 1 = b + k
        <5>1. at'[1] - 1 = i /\ at'[2] = 1
          BY <3>3, <4>1
        <5>2. L[at'[1] - 1] = b + k
          BY <3>3, <3>8, <4>2, <5>1
        <5> QED
          BY <3>3, <5>1, <5>2
      <4>4. at'[1] \in 1 .. (Len(batch') + 1) /\ at'[2] = 1
        BY <3>1, <3>3, <4>1
      <4>5. ~ AllOut' => at'[2] \in 1 .. (Degree(batch'[at'[1]]) + 2)
        <5> SUFFICES ASSUME ~ AllOut' PROVE at'[2] \in 1 .. (Degree(batch'[at'[1]]) + 2)
          OBVIOUS
        <5>1. at'[1] \in 1 .. Len(batch)
          BY <3>1, <3>3, <4>1 DEF AllOut
        <5>2. Degree(batch[at'[1]]) \in Nat
          BY <3>4, <5>1, BatchShape
        <5> QED
          BY <3>1, <4>4, <5>2
      <4> QED
        BY <3>1, <3>4, <3>6, <3>7, <4>3, <4>4, <4>5 DEF FileInv
    <3>9. CASE k # Degree(y) + 2
      <4>1. at' = <<i, k + 1>>
        BY <3>1, <3>2, <3>3, <3>9
      <4>2. at'[1] = i /\ at'[2] = k + 1
        BY <4>1
      <4>3. L[at'[1] - 1] + at'[2] - 1 = b + k
        <5>1. L[at'[1] - 1] = b
          BY <3>2, <4>2
        <5> QED
          BY <3>3, <4>2, <5>1
      <4>4. at'[1] \in 1 .. (Len(batch') + 1) /\ ~ AllOut'
        BY <3>1, <3>3, <4>2 DEF AllOut
      <4>5. at'[2] \in 1 .. (Degree(batch'[at'[1]]) + 2)
        BY <3>1, <3>2, <3>3, <3>9, <4>2
      <4> QED
        BY <3>1, <3>4, <3>6, <3>7, <4>3, <4>4, <4>5 DEF FileInv
    <3> QED
      BY <3>8, <3>9
  <2>2. /\ writer = "open" /\ batch' = batch /\ writer' # "call"
        /\ UNCHANGED <<reader, pos, d, d_written, reading_tag, tmp_tag, tags, err>>
    BY <1>4 DEF Flush
  <2> QED
    BY <1>3, <2>1, <2>2
<1>5. CASE Close \/ Kill
  <2>1. /\ UNCHANGED <<batch, at>> /\ writer = "open" /\ writer' \in {"closed", "killed"}
        /\ UNCHANGED <<reader, pos, d, d_written, reading_tag, tmp_tag, tags, err>>
    BY <1>5 DEF Close, Kill
  <2>2. ASSUME NEW L, Layout(L), FileInv(L)
        PROVE  FileInv(L)'
    <3>1. /\ Whole' = Whole /\ AllOut' = AllOut /\ NextOut' = NextOut
      BY <2>1, LayoutStays DEF AllOut, NextOut
    <3>2. CASE UNCHANGED file
      <4>1. \A n : SameUpTo(n)' = SameUpTo(n)
        BY <3>1, <3>2 DEF SameUpTo
      <4>2. writer' = "closed" => AllOut
        BY <1>5, <2>1 DEF Close, Kill
      <4> QED
        BY <2>1, <2>2, <3>1, <3>2, <4>1, <4>2 DEF FileInv
    <3>3. CASE ~ UNCHANGED file
      <4>1. /\ writer' = "killed" /\ ~ AllOut
            /\ \E l \in Cut(NextOut) : file' = Append(file, l)
        BY <1>5, <3>3 DEF Close, Kill
      <4>2. PICK l \in Cut(NextOut) : file' = Append(file, l)
        BY <4>1
      <4>3. PICK out, w : out = L[at[1] - 1] + at[2] - 1 /\ w = Whole
        OBVIOUS
      <4>4. Len(file) = out /\ out \in Nat /\ out <= Len(w) /\ \A m \in 1 .. out : file[m] = w[m]
        BY <2>1, <2>2, <4>3 DEF FileInv, SameUpTo
      <4>5. file \in Seq(AllLines)
        BY DEF FilesInv, IInv, WriterInv
      <4>6. /\ Len(file') = out + 1 /\ file'[out + 1] = l /\ \A m \in 1 .. out : file'[m] = w[m]
        BY <4>2, <4>4, <4>5
      <4>7. SameUpTo(out)'
        BY <3>1, <4>3, <4>4, <4>6 DEF SameUpTo
      <4>8. /\ (batch \in Batches /\ at[1] \in 1 .. (Len(batch) + 1))'
            /\ (AllOut => at[2] = 1)' /\ (~ AllOut => at[2] \in 1 .. (Degree(batch[at[1]]) + 2))'
        BY <2>1, <2>2, <3>1 DEF FileInv
      <4>9. out = L[at'[1] - 1] + at'[2] - 1
        BY <2>1, <4>3
      <4> QED
        BY <3>1, <4>1, <4>2, <4>6, <4>7, <4>8, <4>9 DEF FileInv
    <3> QED
      BY <3>2, <3>3
  <2> QED
    BY <1>3, <2>1, <2>2
<1> QED
  BY <1>1, <1>2, <1>4, <1>5

\* The tags a reader has after one more line are those it had, or one more of the batch.
LEMMA OneMore ==
  ASSUME NEW n \in Nat, SameUpTo(n), n + 1 <= Len(Whole), file[n + 1] = Whole[n + 1]
  PROVE  SameUpTo(n + 1)
<1>1. \A m \in 1 .. n : file[m] = Whole[m]
  BY DEF SameUpTo
<1>2. PICK w : w = Whole
  OBVIOUS
<1>3. \A m \in 1 .. (n + 1) : file[m] = w[m]
  <2> TAKE m \in 1 .. (n + 1)
  <2>1. m \in 1 .. n \/ m = n + 1
    OBVIOUS
  <2> QED
    BY <1>1, <1>2, <2>1
<1> QED
  BY <1>2, <1>3 DEF SameUpTo

\* The line of the batch the reader comes to when it is in step: the one it
\* finds, unless it is the last and was cut.
LEMMA ComesTo ==
  ASSUME IInv, NEW L, Layout(L), FileInv(L), InStep(L), NextLine,
         writer \in {"closed", "killed"}
  PROVE  \E l : /\ line = l \/ (Torn /\ pos + 1 = Len(file) /\ line \in Cut(l))
                /\ line = l => SameUpTo(pos + 1)
                /\ Len(tags) < Len(batch) /\ Degree(batch[Len(tags) + 1]) \in Nat
                /\ ~ reading_tag => /\ l.verb = "tag d:" /\ l.num = Degree(batch[Len(tags) + 1])
                                    /\ pos = L[Len(tags)]
                /\ reading_tag => /\ l.verb = "value" /\ l.num = batch[Len(tags) + 1][d_written]
                                  /\ d_written \in 0 .. d /\ d = Degree(batch[Len(tags) + 1])
                                  /\ pos = L[Len(tags)] + d_written + 1
                /\ l.num \in Nat /\ pos \in Nat
                /\ L[Len(tags) + 1] = L[Len(tags)] + Degree(batch[Len(tags) + 1]) + 2
                /\ L[Len(tags)] \in Nat /\ Len(tags) \in Nat
<1>1. /\ batch \in Batches /\ Len(batch) \in Nat /\ tags \in Seq(Vectors) /\ Len(tags) \in Nat
      /\ reader = "reading" /\ pos \in Nat /\ pos < Len(file) /\ Len(file) \in Nat
  <2>1. tags \in Seq(Vectors) /\ pos \in 0 .. Len(file) /\ file \in Seq(AllLines)
    BY DEF IInv, TypeOK, WriterInv
  <2>2. batch \in Batches
    BY DEF FileInv
  <2> QED
    BY <2>1, <2>2, BatchShape DEF NextLine
<1>2. PICK t, n, w, out : t = Len(tags) /\ n = Len(batch) /\ w = Whole
                          /\ out = L[at[1] - 1] + at[2] - 1
  OBVIOUS
<1>3. L \in [0 .. n -> Nat] /\ Len(w) = L[n]
  BY <1>2 DEF Layout
<1>4. /\ t \in Nat /\ t <= n /\ pos = L[t] + (IF reading_tag THEN d_written + 1 ELSE 0)
      /\ SameUpTo(pos)
      /\ reading_tag => t < n /\ d = Degree(batch[t + 1])
  BY <1>1, <1>2 DEF InStep
<1>5. L[t] \in Nat
  BY <1>1, <1>2, <1>3, <1>4
<1>6. \* the line on disk
      \/ SameUpTo(pos + 1) /\ line = w[pos + 1] /\ pos + 1 <= Len(w)
      \/ /\ ~ SameUpTo(pos + 1) /\ Torn /\ pos + 1 = Len(file) /\ line \in Cut(w[pos + 1])
         /\ pos + 1 <= Len(w)
  <2>1. SameUpTo(out)
    BY <1>2 DEF FileInv
  <2>2. CASE pos + 1 <= out
    <3>1. SameUpTo(pos + 1) /\ line = w[pos + 1]
      BY <1>1, <1>2, <2>1, <2>2 DEF SameUpTo, line
    <3> QED
      BY <1>2, <3>1 DEF SameUpTo
  <2>3. CASE ~ (pos + 1 <= out)
    <3>1. out \in Nat /\ out <= Len(w)
      BY <1>2, <2>1 DEF SameUpTo
    <3>2. /\ writer = "killed" /\ ~ AllOut /\ Len(file) = out + 1 /\ file[out + 1] \in Cut(NextOut)
      BY <1>1, <1>2, <2>3, <3>1 DEF FileInv
    <3>3. pos = out
      BY <1>1, <2>3, <3>1, <3>2
    <3>4. L[at[1] - 1] + at[2] <= Len(Whole) /\ NextOut = Whole[L[at[1] - 1] + at[2]]
          /\ L[at[1] - 1] \in Nat /\ at[2] \in Nat
      BY <3>2, NextOutIs
    <3>5. out + 1 = L[at[1] - 1] + at[2]
      BY <1>2, <3>4
    <3>6. pos + 1 <= Len(w) /\ line \in Cut(w[pos + 1]) /\ line = file[pos + 1]
      BY <1>2, <3>2, <3>3, <3>4, <3>5 DEF line
    <3>7. CASE SameUpTo(pos + 1)
      <4>1. file[pos + 1] = w[pos + 1]
        BY <1>1, <1>2, <3>7 DEF SameUpTo
      <4> QED
        BY <3>6, <3>7, <4>1
    <3>8. CASE ~ SameUpTo(pos + 1)
      BY <3>2, <3>3, <3>6, <3>8 DEF Torn
    <3> QED
      BY <3>7, <3>8
  <2> QED
    BY <2>2, <2>3
<1>7. t < n
  <2>1. CASE t = n
    <3>1. ~ reading_tag /\ pos = Len(w) /\ Len(w) \in Nat
      BY <1>1, <1>2, <1>3, <1>4, <1>5, <2>1
    <3> QED
      BY <1>6, <3>1
  <2> QED
    BY <1>1, <1>2, <1>4, <2>1
<1>8. PICK y : y = batch[t + 1]
  OBVIOUS
<1>9. t + 1 \in 1 .. n /\ Degree(y) \in Nat /\ y \in [0 .. Degree(y) -> Nat]
  <2>1. t + 1 \in 1 .. Len(batch)
    BY <1>1, <1>2, <1>4, <1>7
  <2> QED
    BY <1>1, <1>2, <1>8, <2>1, BatchShape
<1>10. \A k \in 1 .. (Degree(y) + 2) :
         w[L[t] + k] = IF k = 1 THEN [verb |-> "tag d:", num |-> Degree(y)]
                       ELSE [verb |-> "value", num |-> y[k - 2]]
  <2>1. (t + 1) - 1 = t
    BY <1>4
  <2>2. \A i \in 1 .. Len(batch) : \A k \in 1 .. (Degree(batch[i]) + 2) :
          Whole[L[i - 1] + k] = IF k = 1 THEN [verb |-> "tag d:", num |-> Degree(batch[i])]
                                ELSE [verb |-> "value", num |-> batch[i][k - 2]]
    BY Zenon DEF Layout
  <2>3. \A k \in 1 .. (Degree(batch[t + 1]) + 2) :
          Whole[L[(t + 1) - 1] + k] = IF k = 1 THEN [verb |-> "tag d:", num |-> Degree(batch[t + 1])]
                                      ELSE [verb |-> "value", num |-> batch[t + 1][k - 2]]
    BY <1>2, <1>9, <2>2, Zenon
  <2> QED
    BY <1>2, <1>8, <2>1, <2>3, Zenon
<1>11. L[t + 1] = L[t] + Degree(y) + 2
  <2>1. (t + 1) - 1 = t
    BY <1>4
  <2>2. L[t + 1] = L[(t + 1) - 1] + Degree(batch[t + 1]) + 2
    BY <1>2, <1>9 DEF Layout
  <2> QED
    BY <1>8, <2>1, <2>2
<1>12. CASE ~ reading_tag
  <2>1. pos = L[t] /\ 1 \in 1 .. (Degree(y) + 2)
    BY <1>4, <1>5, <1>9, <1>12
  <2>2. w[pos + 1] = [verb |-> "tag d:", num |-> Degree(y)]
    BY <1>10, <2>1
  <2>3. PICK l : l = w[pos + 1]
    OBVIOUS
  <2>4. l.verb = "tag d:" /\ l.num = Degree(y)
    <3>1. l = [verb |-> "tag d:", num |-> Degree(y)]
      BY <2>2, <2>3, Zenon
    <3> QED
      BY ONLY <3>1
  <2>5. line = l \/ (Torn /\ pos + 1 = Len(file) /\ line \in Cut(l))
    BY <1>6, <2>3
  <2>6. line = l => SameUpTo(pos + 1)
    <3>1. ASSUME line = l, ~ SameUpTo(pos + 1) PROVE FALSE
      <4>1. line = file[pos + 1] /\ SameUpTo(pos) /\ pos + 1 <= Len(Whole)
        BY <1>2, <1>4, <1>6 DEF line
      <4>2. pos \in Nat /\ file[pos + 1] = Whole[pos + 1]
        BY <1>1, <1>2, <2>3, <3>1, <4>1
      <4> QED
        BY ONLY <3>1, <4>1, <4>2, OneMore
    <3> QED
      BY <3>1
  <2> QED
    BY <1>1, <1>2, <1>5, <1>7, <1>8, <1>9, <1>11, <1>12, <2>1, <2>4, <2>5, <2>6
<1>13. CASE reading_tag
  <2>1. d_written \in 0 .. d /\ d = Degree(y)
    <3>1. d_written \in Nat /\ d_written <= d /\ d \in Nat
      BY <1>1, <1>13 DEF IInv, ReaderInv, TypeOK, Numbers
    <3> QED
      BY <1>4, <1>8, <1>13, <3>1
  <2>2. pos = L[t] + d_written + 1 /\ d_written + 2 \in 1 .. (Degree(y) + 2) /\ d_written + 2 # 1
        /\ (d_written + 2) - 2 = d_written /\ pos + 1 = L[t] + (d_written + 2)
    BY <1>4, <1>5, <1>9, <1>13, <2>1
  <2>3. w[pos + 1] = [verb |-> "value", num |-> y[d_written]]
    BY <1>10, <2>2
  <2>4. PICK l : l = w[pos + 1]
    OBVIOUS
  <2>5. l.verb = "value" /\ l.num = y[d_written] /\ y[d_written] \in Nat
    BY <1>9, <2>1, <2>3, <2>4
  <2>6. line = l \/ (Torn /\ pos + 1 = Len(file) /\ line \in Cut(l))
    BY <1>6, <2>4
  <2>7. line = l => SameUpTo(pos + 1)
    <3>1. ASSUME line = l, ~ SameUpTo(pos + 1) PROVE FALSE
      <4>1. line = file[pos + 1] /\ SameUpTo(pos) /\ pos + 1 <= Len(Whole)
        BY <1>2, <1>4, <1>6 DEF line
      <4>2. pos \in Nat /\ file[pos + 1] = Whole[pos + 1]
        BY <1>1, <1>2, <2>4, <3>1, <4>1
      <4> QED
        BY ONLY <3>1, <4>1, <4>2, OneMore
    <3> QED
      BY <3>1
  <2> QED
    BY <1>1, <1>2, <1>5, <1>7, <1>8, <1>9, <1>11, <1>13, <2>1, <2>2, <2>5, <2>6, <2>7
<1> QED
  BY <1>12, <1>13

\* What is left of a header is a header or no number; of a coefficient, a coefficient.
LEMMA CutKeeps ==
  ASSUME NEW k, k.num \in Nat, NEW l \in Cut(k)
  PROVE  /\ k.verb = "value" => l.verb = "value" /\ l.num \in Nat \cup {BadNum}
         /\ k.verb = "tag d:" => \/ l.verb = "value" /\ l.num = BadNum
                                 \/ l.verb = "tag d:" /\ l.num \in Nat \cup {NoNum}
<1>1. PICK n, S : n = k.num /\ S = Shorter(n)
  OBVIOUS
<1>2. S \subseteq 1 .. n
  BY <1>1, Zenon DEF Shorter
<1>3. S \subseteq Nat
  BY <1>1, <1>2
<1>4. Cut(k) = IF k.verb = "value" THEN [verb : {"value"}, num : S \cup {0, BadNum}]
               ELSE [verb : {"value"}, num : {BadNum}] \cup
                    [verb : {"tag d:"}, num : S \cup {NoNum}]
  BY <1>1 DEF Cut
<1>5. k.verb = "value" => l.verb = "value" /\ l.num \in Nat \cup {BadNum}
  <2>1. k.verb = "value" => l \in [verb : {"value"}, num : S \cup {0, BadNum}]
    BY <1>4
  <2>2. l \in [verb : {"value"}, num : S \cup {0, BadNum}] =>
          l.verb = "value" /\ l.num \in S \cup {0, BadNum}
    OBVIOUS
  <2>3. S \cup {0, BadNum} \subseteq Nat \cup {BadNum}
    <3>1. 0 \in Nat
      OBVIOUS
    <3> QED
      BY <1>3, <3>1, Zenon
  <2> QED
    BY <2>1, <2>2, <2>3, Zenon
<1>6. k.verb = "tag d:" => \/ l.verb = "value" /\ l.num = BadNum
                           \/ l.verb = "tag d:" /\ l.num \in Nat \cup {NoNum}
  <2>1. k.verb = "tag d:" => \/ l \in [verb : {"value"}, num : {BadNum}]
                             \/ l \in [verb : {"tag d:"}, num : S \cup {NoNum}]
    BY <1>4
  <2> QED
    BY <1>3, <2>1
<1> QED
  BY <1>5, <1>6

\* A reader in step has tags of the batch.
LEMMA InStepNearly ==
  ASSUME NEW L, InStep(L), tags \in Seq(Vectors)
  PROVE  Nearly
BY DEF InStep, Nearly

\* A step of the reader keeps that the tags read are the first ones written.
LEMMA ReaderKeeps ==
  ASSUME FilesInv,
         \/ NoFile \/ StartReading \/ SkipLine \/ Header \/ HeaderCut \/ RefuseHeader
         \/ Value \/ ValueAsserted \/ SaveFreed \/ EndOfFile \/ UNCHANGED vars
  PROVE  FilesInv'
<1>0. IInv' /\ IInv
  BY ReaderStep DEF FilesInv
<1>1. UNCHANGED <<writer, batch, at, file>>
  BY DEF NoFile, StartReading, SkipLine, Header, HeaderCut, RefuseHeader, Value,
         ValueAsserted, SaveFreed, EndOfFile, vars, Die, written
<1>2. reader' = "call" => reader = "call" /\ err' = err
  BY DEF NoFile, StartReading, SkipLine, Header, HeaderCut, RefuseHeader, Value, NextLine,
         ValueAsserted, SaveFreed, EndOfFile, vars, Die, IsHeader
<1>3. CASE ~ Written
  BY <1>0, <1>1, <1>2, <1>3 DEF FilesInv, Written
<1>4. ASSUME NEW L, Layout(L), FileInv(L), SyncInv(L), Written
      PROVE  SyncInv(L)'
  <2>1. /\ Whole' = Whole /\ Torn' = Torn /\ AllOut' = AllOut
        /\ \A n : SameUpTo(n)' = SameUpTo(n)
    BY <1>1, LayoutStays DEF Torn, SameUpTo, AllOut
  <2>2. ASSUME UNCHANGED <<pos, d, d_written, reading_tag, tmp_tag, tags, err>>,
               reader' = reader \/ reader' = "reading"
                 \/ (reader = "reading" /\ reader' = "returned" /\ pos = Len(file)),
               reader' # reader => reader \in {"call", "reading"}
        PROVE  SyncInv(L)'
    <3>1. InStep(L)' = InStep(L) /\ Nearly' = Nearly
      BY <1>1, <2>1, <2>2 DEF InStep, Nearly
    <3> QED
      BY <1>1, <1>4, <2>1, <2>2, <3>1 DEF SyncInv
  <2>3. CASE StartReading \/ EndOfFile \/ UNCHANGED vars
    BY <2>2, <2>3 DEF StartReading, EndOfFile, vars
  <2>4. ~ NoFile
    BY <1>4 DEF NoFile, Written
  <2>5. ASSUME NextLine
        PROVE  /\ InStep(L) /\ err = "E_NOERR" /\ reader = "reading"
               /\ writer \in {"closed", "killed"} /\ pos' = pos + 1 /\ pos \in Nat
               /\ tags \in Seq(Vectors) /\ Nearly
    <3>1. /\ reader = "reading" /\ pos < Len(file) /\ pos' = pos + 1 /\ pos \in Nat
          /\ tags \in Seq(Vectors)
      BY <1>0, <2>5, NextLineIs DEF NextLine, IInv
    <3>2. InStep(L) /\ err = "E_NOERR"
      BY <1>4, <3>1 DEF SyncInv
    <3>3. writer \in {"closed", "killed"}
      BY <1>0, <1>4, <3>1 DEF Written, IInv, WriterInv
    <3> QED
      BY <3>1, <3>2, <3>3, InStepNearly
  <2>6. ASSUME NEW l, l.num \in Nat, NextLine,
               line = l \/ (Torn /\ pos + 1 = Len(file) /\ line \in Cut(l)),
               l.verb = IF reading_tag THEN "value" ELSE "tag d:",
               \/ SkipLine \/ HeaderCut \/ ValueAsserted \/ SaveFreed \/ RefuseHeader
        PROVE  ~ RefuseHeader /\ Torn /\ pos + 1 = Len(file)
    <3>1. BadNum \notin Nat /\ HugeNum \notin Nat /\ NoNum \notin Nat
          /\ NoNum # BadNum /\ NoNum # HugeNum
      BY TokensAssumption DEF Tokens
    <3>2. CASE line = l
      BY <2>6, <3>1, <3>2 DEF SkipLine, HeaderCut, ValueAsserted, SaveFreed, RefuseHeader, IsHeader
    <3>3. CASE line # l
      <4>1. Torn /\ pos + 1 = Len(file) /\ line \in Cut(l)
        BY <2>6, <3>3
      <4>2. /\ l.verb = "value" => line.verb = "value"
            /\ l.verb = "tag d:" => line.verb = "value" \/ line.num \in Nat \cup {NoNum}
        BY <2>6, <4>1, CutKeeps
      <4> QED
        BY <2>6, <3>1, <4>1, <4>2 DEF RefuseHeader, IsHeader
    <3> QED
      BY <3>2, <3>3
  <2>7. CASE SkipLine \/ Header \/ HeaderCut \/ RefuseHeader \/ Value \/ ValueAsserted \/ SaveFreed
    <3>1. NextLine
      BY <2>7 DEF SkipLine, Header, HeaderCut, RefuseHeader, IsHeader, Value, ValueAsserted, SaveFreed
    <3>2. /\ InStep(L) /\ err = "E_NOERR" /\ reader = "reading"
          /\ writer \in {"closed", "killed"} /\ pos' = pos + 1 /\ pos \in Nat
          /\ tags \in Seq(Vectors) /\ Nearly
      BY <2>5, <3>1
    <3>3. PICK l :
           /\ line = l \/ (Torn /\ pos + 1 = Len(file) /\ line \in Cut(l))
           /\ line = l => SameUpTo(pos + 1)
           /\ Len(tags) < Len(batch) /\ Degree(batch[Len(tags) + 1]) \in Nat
           /\ ~ reading_tag => /\ l.verb = "tag d:" /\ l.num = Degree(batch[Len(tags) + 1])
                               /\ pos = L[Len(tags)]
           /\ reading_tag => /\ l.verb = "value" /\ l.num = batch[Len(tags) + 1][d_written]
                             /\ d_written \in 0 .. d /\ d = Degree(batch[Len(tags) + 1])
                             /\ pos = L[Len(tags)] + d_written + 1
           /\ l.num \in Nat /\ pos \in Nat
           /\ L[Len(tags) + 1] = L[Len(tags)] + Degree(batch[Len(tags) + 1]) + 2
           /\ L[Len(tags)] \in Nat /\ Len(tags) \in Nat
      BY <1>0, <1>4, <3>1, <3>2, ComesTo
    <3>4. PICK t, b, p : t = Len(tags) /\ b = batch[Len(tags) + 1] /\ p = L[Len(tags)]
      OBVIOUS
    <3>5. /\ t \in Nat /\ Len(batch) \in Nat /\ t + 1 <= Len(batch)
          /\ Degree(b) \in Nat /\ b \in [0 .. Degree(b) -> Nat]
          /\ p \in Nat /\ L[t + 1] = p + Degree(b) + 2
          /\ ~ reading_tag => pos = p /\ l.num = Degree(b)
          /\ reading_tag => /\ d_written \in 0 .. d /\ d = Degree(b) /\ pos = p + d_written + 1
                            /\ l.num = b[d_written]
      <4>1. batch \in Batches
        BY <1>4 DEF FileInv
      <4>2. Len(batch) \in Nat
        BY <4>1, BatchShape
      <4>3. t \in Nat /\ t < Len(batch)
        BY <3>3, <3>4
      <4>4. t + 1 \in 1 .. Len(batch)
        BY <4>2, <4>3
      <4>5. batch[t + 1] \in [0 .. Degree(batch[t + 1]) -> Nat]
        BY <4>1, <4>4, BatchShape
      <4>6. L[t + 1] = p + Degree(b) + 2 /\ p \in Nat /\ Degree(b) \in Nat
        BY <3>3, <3>4
      <4>7. ~ reading_tag => pos = p /\ l.num = Degree(b)
        BY <3>3, <3>4
      <4>8. reading_tag => /\ d_written \in 0 .. d /\ d = Degree(b) /\ pos = p + d_written + 1
                           /\ l.num = b[d_written]
        BY <3>3, <3>4
      <4>9. b \in [0 .. Degree(b) -> Nat]
        BY <3>4, <4>5
      <4> QED
        BY <4>2, <4>3, <4>4, <4>6, <4>7, <4>8, <4>9
    <3>6. line = l => SameUpTo(pos)'
      <4>1. line = l => SameUpTo(pos + 1)
        BY <3>3
      <4>2. Whole' = Whole /\ file' = file /\ pos' = pos + 1
        BY <1>1, <2>1, <3>2
      <4> QED
        BY <4>1, <4>2 DEF SameUpTo
    <3>7. CASE SkipLine \/ HeaderCut \/ ValueAsserted \/ SaveFreed \/ RefuseHeader
      <4>1. ~ RefuseHeader /\ Torn /\ pos + 1 = Len(file)
        BY <2>6, <3>1, <3>3, <3>7
      <4>2. /\ UNCHANGED <<tags, err>>
            /\ reader' \in {"reading", "aborted", "crashed", "corrupted"}
        BY <3>2, <3>7, <4>1 DEF SkipLine, HeaderCut, ValueAsserted, SaveFreed, Die
      <4>3. Nearly'
        BY <1>1, <3>2, <4>2 DEF Nearly
      <4> QED
        BY <1>1, <2>1, <3>2, <4>1, <4>2, <4>3 DEF SyncInv
    <3>8. CASE Header
      <4>1. /\ ~ reading_tag /\ line.verb = "tag d:" /\ line.num \in Nat /\ d' = line.num
            /\ d_written' = 0 /\ reading_tag' = TRUE /\ UNCHANGED <<reader, tags, err>>
        BY <3>8 DEF Header, IsHeader
      <4>2. CASE line = l
        <5>1. SameUpTo(pos)' /\ pos' = L[t] + 1 /\ d' = Degree(b)
          BY <3>2, <3>4, <3>5, <3>6, <4>1, <4>2
        <5>2. Len(tags) <= Len(batch) /\ \A n \in 1 .. Len(tags) : tags[n] = batch[n]
          BY <3>2 DEF InStep
        <5>3. t < Len(batch)
          BY <3>5
        <5>4. pos' = L[t] + (d_written' + 1) /\ \A k \in 0 .. (d_written' - 1) : FALSE
          <6>1. d_written' = 0 /\ pos' = L[t] + 1
            BY <4>1, <5>1
          <6> QED
            BY ONLY <6>1
        <5>5. batch' = batch /\ tags' = tags /\ reading_tag' /\ d_written' <= d'
          <6>1. d' = Degree(b) /\ Degree(b) \in Nat /\ d_written' = 0
            BY <3>5, <4>1, <5>1
          <6>2. d_written' <= d'
            BY ONLY <6>1
          <6> QED
            BY <1>1, <4>1, <6>2
        <5>6. InStep(L)'
          BY <3>4, <5>1, <5>2, <5>3, <5>4, <5>5 DEF InStep
        <5> QED
          BY <3>2, <4>1, <5>6 DEF SyncInv
      <4>3. CASE line # l
        <5>1. Torn' /\ pos' = Len(file')
          BY <1>1, <2>1, <3>2, <3>3, <4>3
        <5>2. Nearly'
          BY <1>1, <3>2, <4>1 DEF Nearly
        <5> QED
          BY <3>2, <4>1, <5>1, <5>2 DEF SyncInv
      <4> QED
        BY <4>2, <4>3
    <3>9. CASE Value
      <4>1. PICK y, n : y = [tmp_tag.y EXCEPT ![d_written] = line.num] /\ n = line.num
        OBVIOUS
      <4>2. /\ reading_tag /\ d_written' = d_written + 1 /\ UNCHANGED <<reader, d, err>>
            /\ IF Full(d_written + 1)
               THEN reading_tag' = FALSE /\ tags' = Append(tags, y)
               ELSE tmp_tag' = [tmp_tag EXCEPT !.y = y] /\ UNCHANGED <<reading_tag, tags>>
        BY <3>9, <4>1 DEF Value
      <4>3. /\ DOMAIN tmp_tag.y = 0 .. d /\ DOMAIN tmp_tag = {"memory", "y"}
            /\ d_written \in 0 .. d /\ d \in Nat /\ d = Degree(b)
        BY <1>0, <3>2, <3>5, <4>2 DEF IInv, ReaderInv
      <4>4. b \in [0 .. d -> Nat] /\ \A k \in 0 .. (d_written - 1) : tmp_tag.y[k] = b[k]
        BY <3>2, <3>4, <3>5, <4>2 DEF InStep
      <4>5. DOMAIN y = 0 .. d /\ y[d_written] = n /\ \A k \in 0 .. (d_written - 1) : y[k] = b[k]
        BY <4>1, <4>3, <4>4
      <4>6. line = l => n = b[d_written]
        BY <3>5, <4>1, <4>2
      <4>7. y = [k \in 0 .. d |-> y[k]]
        BY <4>1, <4>3
      <4>8. CASE d_written = d
        <5>1. reading_tag' = FALSE /\ tags' = Append(tags, y)
          BY <4>2, <4>3, <4>8 DEF Full
        <5>2. /\ Len(tags') = t + 1 /\ tags'[t + 1] = y /\ \A m \in 1 .. t : tags'[m] = tags[m]
              /\ t \in Nat /\ DOMAIN tags' = 1 .. (t + 1)
          BY <3>2, <3>4, <5>1
        <5>3. pos' = L[t + 1]
          BY <3>2, <3>5, <4>2, <4>3, <4>8
        <5>4. \A m \in 1 .. t : tags[m] = batch[m]
          BY <3>2, <3>4 DEF InStep
        <5>5. CASE line = l
          <6>1. y = b
            <7>1. \A k \in 0 .. d : y[k] = b[k]
              BY <4>3, <4>5, <4>6, <4>8, <5>5
            <7> QED
              BY <4>4, <4>7, <7>1
          <6>2. Len(tags') <= Len(batch') /\ \A m \in 1 .. Len(tags') : tags'[m] = batch'[m]
            <7>1. Len(tags') <= Len(batch')
              BY <1>1, <3>5, <5>2
            <7> QED
              BY <1>1, <3>4, <5>2, <5>4, <6>1, <7>1
          <6>3. SameUpTo(pos)'
            BY <3>6, <5>5
          <6>4. pos' = L[Len(tags')] + 0 /\ ~ reading_tag'
            <7>1. L[t + 1] = L[t + 1] + 0
              BY <3>5
            <7> QED
              BY <5>1, <5>2, <5>3, <7>1
          <6>5. InStep(L)'
            BY <6>2, <6>3, <6>4 DEF InStep
          <6> QED
            BY <3>2, <4>2, <6>5 DEF SyncInv
        <5>6. CASE line # l
          <6>1. Torn' /\ pos' = Len(file')
            BY <1>1, <2>1, <3>2, <3>3, <5>6
          <6>2. Nearly'
            <7>1. Len(tags') <= Len(batch')
              BY <1>1, <3>5, <5>2
            <7>2. ASSUME NEW m \in DOMAIN tags'
                  PROVE  /\ DOMAIN tags'[m] = DOMAIN batch[m]
                         /\ \A k \in DOMAIN tags'[m] :
                              tags'[m][k] # batch[m][k] => m = t + 1 /\ k = Degree(batch[m])
              <8>1. CASE m \in 1 .. t
                BY <5>2, <5>4, <8>1
              <8>2. CASE m \notin 1 .. t
                <9>1. m = t + 1 /\ tags'[m] = y /\ batch[m] = b
                  BY <3>4, <5>2, <8>2
                <9>2. DOMAIN y = DOMAIN b
                  BY <4>4, <4>5
                <9>3. \A k \in 0 .. d : y[k] # b[k] => k = Degree(b)
                  BY <4>3, <4>5, <4>8
                <9> QED
                  BY <4>5, <9>1, <9>2, <9>3
              <8> QED
                BY <8>1, <8>2
            <7> QED
              BY <1>1, <5>2, <7>1, <7>2 DEF Nearly
          <6> QED
            BY <3>2, <4>2, <6>1, <6>2 DEF SyncInv
        <5> QED
          BY <5>5, <5>6
      <4>9. CASE d_written # d
        <5>1. tmp_tag' = [tmp_tag EXCEPT !.y = y] /\ UNCHANGED <<reading_tag, tags>>
          BY <4>2, <4>3, <4>9 DEF Full
        <5>2. tmp_tag'.y = y
          BY <4>3, <5>1
        <5>3. CASE line = l
          <6>1. \A k \in 0 .. (d_written' - 1) : tmp_tag'.y[k] = b[k]
            <7> TAKE k \in 0 .. (d_written' - 1)
            <7>1. k \in 0 .. (d_written - 1) \/ k = d_written
              BY <4>2, <4>3
            <7> QED
              BY <4>5, <4>6, <5>2, <5>3, <7>1
          <6>2. SameUpTo(pos)' /\ pos' = L[t] + (d_written' + 1)
            <7>1. pos' = pos + 1 /\ pos = p + d_written + 1 /\ d_written' = d_written + 1
                  /\ d_written \in Nat /\ p \in Nat /\ L[t] = p
              BY <3>2, <3>4, <3>5, <4>2, <4>3
            <7>2. pos' = L[t] + (d_written' + 1)
              BY ONLY <7>1
            <7> QED
              BY <3>6, <5>3, <7>2
          <6>3. Len(tags) <= Len(batch) /\ \A m \in 1 .. Len(tags) : tags[m] = batch[m]
            BY <3>2 DEF InStep
          <6>4. batch' = batch /\ tags' = tags /\ reading_tag' /\ d' = Degree(b) /\ t < Len(batch)
                /\ d_written' <= d'
            BY <1>1, <3>5, <4>2, <4>3, <4>9, <5>1
          <6>5. InStep(L)'
            BY <3>4, <6>1, <6>2, <6>3, <6>4 DEF InStep
          <6> QED
            BY <3>2, <4>2, <6>5 DEF SyncInv
        <5>4. CASE line # l
          <6>1. Torn' /\ pos' = Len(file')
            BY <1>1, <2>1, <3>2, <3>3, <5>4
          <6>2. Nearly'
            BY <1>1, <3>2, <5>1 DEF Nearly
          <6> QED
            BY <3>2, <4>2, <6>1, <6>2 DEF SyncInv
        <5> QED
          BY <5>3, <5>4
      <4> QED
        BY <4>8, <4>9
    <3> QED
      BY <2>7, <3>7, <3>8, <3>9
  <2> QED
    BY <2>3, <2>4, <2>7
<1>5. CASE Written
  <2>1. PICK L : Layout(L) /\ FileInv(L) /\ SyncInv(L)
    BY <1>5 DEF FilesInv
  <2>2. SyncInv(L)'
    BY <1>4, <1>5, <2>1
  <2>3. Layout(L)'
    BY <1>1, <2>1, LayoutStays
  <2>4. FileInv(L)'
    <3>1. Whole' = Whole /\ AllOut' = AllOut /\ NextOut' = NextOut
      BY <1>1, LayoutStays DEF AllOut, NextOut
    <3>2. \A n : SameUpTo(n)' = SameUpTo(n)
      BY <1>1, <3>1 DEF SameUpTo
    <3> QED
      BY <1>1, <2>1, <3>1, <3>2 DEF FileInv
  <2> QED
    BY <1>0, <1>1, <1>2, <1>5, <2>2, <2>3, <2>4 DEF FilesInv, Written
<1> QED
  BY <1>3, <1>5

(***************************************************************************)
(* The invariant of written files: what is on disk are the first lines of  *)
(* the batch, except one that was cut, and a reader that came to line pos  *)
(* has read what the writer had out after pos lines.                       *)
(***************************************************************************)
THEOREM FilesInductive == Spec => []FilesInv
<1>1. Init => FilesInv
  BY InitInv DEF Init, FilesInv, Written
<1>2. FilesInv /\ [Next]_vars => FilesInv'
  BY WriterKeeps, ReaderKeeps DEF Next, Over
<1> QED
  BY <1>1, <1>2, PTL DEF Spec

(***************************************************************************)
(* Whatever the number of tags and their degrees, a file that was closed   *)
(* is read without an error, and the tags read are those written.          *)
(***************************************************************************)
THEOREM WrittenIsRead == Spec => []RoundTrip
<1>1. FilesInv => RoundTrip
  <2> SUFFICES ASSUME FilesInv, writer = "closed"
               PROVE  /\ reader \in {"call", "reading", "returned"}
                      /\ reader = "returned" => tags = batch /\ err = "E_NOERR"
    BY DEF RoundTrip
  <2>1. PICK L : Layout(L) /\ FileInv(L) /\ SyncInv(L)
    BY DEF FilesInv, Written
  <2>2. ~ Torn
    BY DEF Torn
  <2>3. reader \in {"call", "reading", "returned"} /\ InStep(L) /\ err = "E_NOERR"
    BY <2>1, <2>2 DEF SyncInv, FilesInv, IInv, TypeOK
  <2>4. ASSUME reader = "returned"
        PROVE  tags = batch
    <3>1. PICK t, n, w : t = Len(tags) /\ n = Len(batch) /\ w = Whole
      OBVIOUS
    <3>2. /\ batch \in Batches /\ AllOut /\ Len(file) = L[at[1] - 1] + at[2] - 1
          /\ at[1] \in 1 .. (Len(batch) + 1) /\ at[2] = 1
      BY <2>1 DEF FileInv
    <3>3. n \in Nat /\ batch \in Seq(Vectors) /\ tags \in Seq(Vectors) /\ t \in Nat
      BY <3>1, <3>2, BatchShape DEF FilesInv, IInv
    <3>4. L \in [0 .. n -> Nat] /\ Len(w) = L[n]
      BY <2>1, <3>1 DEF Layout
    <3>5. at[1] - 1 = n
      BY <3>1, <3>2, <3>3 DEF AllOut
    <3>6. Len(file) = Len(w) /\ Len(w) \in Nat
      BY <3>2, <3>3, <3>4, <3>5
    <3>7. /\ t <= n /\ \A m \in 1 .. t : tags[m] = batch[m]
          /\ pos = L[t] + (IF reading_tag THEN d_written + 1 ELSE 0)
          /\ reading_tag => d = Degree(batch[t + 1]) /\ d_written <= d
      BY <2>3, <3>1 DEF InStep
    <3>8. pos = Len(w)
      BY <2>1, <2>4, <3>6 DEF SyncInv
    <3>9. t = n
      <4> SUFFICES ASSUME t < n PROVE FALSE
        BY <3>3, <3>7
      <4>1. t + 1 \in 1 .. n /\ (t + 1) - 1 = t
        BY <3>3
      <4>2. PICK y, p : y = batch[t + 1] /\ p = L[t]
        OBVIOUS
      <4>3. Degree(y) \in Nat /\ p \in Nat
        <5>1. \A i \in 1 .. Len(batch) : Degree(batch[i]) \in Nat
          BY <3>2, BatchShape
        <5>2. t \in 0 .. n
          BY <3>3, <3>7
        <5> QED
          BY <3>1, <3>4, <4>1, <4>2, <5>1, <5>2
      <4>4. \A k \in 1 .. (Degree(y) + 2) : p + k <= Len(w)
        <5>1. \A i \in 1 .. n : \A k \in 1 .. (Degree(batch[i]) + 2) : L[i - 1] + k <= Len(w)
          BY <2>1, <3>1, Zenon DEF Layout
        <5> QED
          BY <4>1, <4>2, <5>1
      <4>5. p + (Degree(y) + 2) <= Len(w)
        BY <4>3, <4>4
      <4>6. d_written \in Nat
        BY DEF FilesInv, IInv, TypeOK, Numbers
      <4> QED
        BY <3>6, <3>7, <3>8, <4>2, <4>3, <4>5, <4>6
    <3>10. PICK a, b : a = tags /\ b = batch
      OBVIOUS
    <3>11. /\ a \in Seq(Vectors) /\ b \in Seq(Vectors) /\ Len(a) = Len(b)
           /\ \A m \in 1 .. Len(a) : a[m] = b[m]
      BY <3>1, <3>3, <3>7, <3>9, <3>10
    <3>12. a = b
      BY ONLY <3>11
    <3> QED
      BY <3>10, <3>12
  <2> QED
    BY <2>3, <2>4
<1> QED
  BY <1>1, FilesInductive, PTL

(***************************************************************************)
(* Wherever the writer is killed, and whatever is left of the line it was  *)
(* at: cut between two lines, the file is read without an error as the     *)
(* first tags of the batch; cut within one, only the coefficient the file  *)
(* ends with can differ, if it is read at all.                             *)
(***************************************************************************)
THEOREM TornIsNearlyPrefix == Spec => []TornIsPrefix
<1>1. FilesInv => TornIsPrefix
  <2> SUFFICES ASSUME FilesInv, writer = "killed"
               PROVE  TornIsPrefix
    BY DEF TornIsPrefix
  <2>1. PICK L : Layout(L) /\ FileInv(L) /\ SyncInv(L)
    BY DEF FilesInv, Written
  <2>2. /\ tags \in Seq(Vectors) /\ batch \in Seq(Vectors) /\ file \in Seq(AllLines)
        /\ Len(batch) \in Nat /\ Len(file) \in Nat
    <3>1. batch \in Batches
      BY <2>1 DEF FileInv
    <3> QED
      BY <3>1, BatchShape DEF FilesInv, IInv, WriterInv
  <2>3. ASSUME file = SubSeq(Whole, 1, Len(file))
        PROVE  /\ reader \in {"call", "reading", "returned"}
               /\ reader = "returned" => err = "E_NOERR" /\ IsPrefix(tags, batch)
    <3>1. PICK w, out : w = Whole /\ out = L[at[1] - 1] + at[2] - 1
      OBVIOUS
    <3>2. Len(file) <= Len(w)
      <4>1. out \in Nat /\ out <= Len(w)
        BY <2>1, <3>1 DEF FileInv, SameUpTo
      <4>2. CASE Len(file) = out
        BY <4>1, <4>2
      <4>3. CASE ~ AllOut /\ Len(file) = out + 1
        <5>1. L[at[1] - 1] + at[2] <= Len(Whole) /\ L[at[1] - 1] \in Nat /\ at[2] \in Nat
          BY <2>1, <4>3, NextOutIs
        <5> QED
          BY <3>1, <4>3, <5>1
      <4> QED
        BY <2>1, <3>1, <4>2, <4>3 DEF FileInv
    <3>3. SameUpTo(Len(file))
      <4>1. PICK n : n = Len(file)
        OBVIOUS
      <4>2. \A m \in 1 .. n : SubSeq(w, 1, n)[m] = w[m]
        BY <2>2, <4>1
      <4> QED
        BY <2>2, <2>3, <3>1, <3>2, <4>1, <4>2 DEF SameUpTo
    <3>4. reader \in {"call", "reading", "returned"} /\ InStep(L) /\ err = "E_NOERR"
      BY <2>1, <3>3 DEF SyncInv, FilesInv, IInv, TypeOK, Torn
    <3>5. IsPrefix(tags, batch)
      <4>1. Len(tags) \in Nat /\ Len(tags) <= Len(batch) /\ \A n \in 1 .. Len(tags) : tags[n] = batch[n]
        BY <2>2, <3>4 DEF InStep
      <4>2. SubSeq(tags, 1, Len(tags)) = SubSeq(batch, 1, Len(tags))
        BY <2>2, <4>1
      <4> QED
        BY <4>1, <4>2 DEF IsPrefix
    <3> QED
      BY <3>4, <3>5
  <2>4. ASSUME reader = "returned"
        PROVE  Nearly
    BY <2>1, <2>2, <2>4, InStepNearly DEF SyncInv
  <2> QED
    BY <2>3, <2>4 DEF TornIsPrefix, Nearly
<1> QED
  BY <1>1, FilesInductive, PTL

=============================================================================
