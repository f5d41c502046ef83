------------------------------ MODULE TagFile ------------------------------
(***************************************************************************)
(* Files of tags (io.c): cf_tags_write, as "auth" and "eval" run it, which *)
(* may be killed on the way, and cf_tags_read, as "eval" and "vrfy" run it *)
(* on the file afterwards, or on a file somebody wrote by hand.            *)
(*                                                                         *)
(* A line is a record [verb, num]: "tag d:" with a degree, "value" with a  *)
(* coefficient (BadNum is any text that is no number), or "blank".         *)
(***************************************************************************)
EXTENDS Integers, SequencesExt

CONSTANTS
  Batches,       \* arrays of tags to write, as sequences
  ForeignLines,  \* the lines a file written by hand is made of
  MaxLines,      \* bound: lines of such a file
  Base,          \* base of the digits of a number
  BadNum,        \* a number with a character that is no digit
  HugeNum,       \* a degree that is no size_t
  NoNum,         \* a header that ends after the colon
  NULL

ASSUME BaseAssumption == Base \in Nat \ {0, 1}
ASSUME MaxLinesAssumption == MaxLines \in Nat

Tokens == {BadNum, HugeNum, NoNum}
Degree(y) == Cardinality(DOMAIN y) - 1

ASSUME TokensAssumption ==
  /\ (Tokens \cup {NULL}) \cap Nat = {} /\ NULL \notin Tokens
  /\ NoNum \notin {BadNum, HugeNum}
ASSUME BatchesAssumption ==
  \A b \in Batches :
    /\ b \in Seq({b[n] : n \in DOMAIN b})
    /\ \A n \in DOMAIN b : Degree(b[n]) \in Nat /\ b[n] \in [0 .. Degree(b[n]) -> Nat]
ASSUME ForeignLinesAssumption ==
  \A l \in ForeignLines :
    \/ l.verb = "tag d:" /\ l.num \in Nat \cup Tokens
    \/ l.verb = "value" /\ l.num \in Nat \cup {BadNum}
    \/ l.verb = "blank"

VARIABLES
  writer,  \* "call", "open", "closed", "killed" or "foreign"
  batch,   \* tags of the writer
  at,      \* <<n, k>>: the next line to bring to disk is the k-th of tag n
  file,    \* its lines on disk
  reader,  \* "call", "reading", "returned", "aborted", "crashed", "corrupted"
  pos,     \* lines the reader has read
  d, d_written, reading_tag,
  tmp_tag, \* [memory, y]: memory is "null", "live" or "freed"
  tags, err
vars == <<writer, batch, at, file, reader, pos, d, d_written, reading_tag, tmp_tag,
          tags, err>>
written == <<writer, batch, at, file>>

Init ==
  /\ writer = "call"
  /\ batch = <<>>
  /\ at = <<1, 1>>
  /\ file = <<>>
  /\ reader = "call"
  /\ pos = 0
  /\ d = 0 /\ d_written = 0 /\ reading_tag = FALSE
  /\ tmp_tag = [memory |-> "null", y |-> <<>>]
  /\ tags = <<>>
  /\ err = "E_NOERR"

-----------------------------------------------------------------------------
(***************************************************************************)
(* cf_tags_write (and cf_tag_write, the array of one tag): stdio brings    *)
(* the lines to the disk some time before fclose returns.                  *)
(***************************************************************************)
\* Mutant of Lines: the header has the length of the vector.
LinesLong(y) ==
  <<[verb |-> "tag d:", num |-> Degree(y) + 1]>> \o
  [k \in 1 .. (Degree(y) + 1) |-> [verb |-> "value", num |-> y[k - 1]]]

Lines(y) ==
  <<[verb |-> "tag d:", num |-> Degree(y)]>> \o
  [k \in 1 .. (Degree(y) + 1) |-> [verb |-> "value", num |-> y[k - 1]]]

AllOut == at[1] > Len(batch)
NextOut == Lines(batch[at[1]])[at[2]]

Open ==
  /\ writer = "call" /\ reader = "call"
  /\ writer' = "open"
  /\ batch' \in Batches
  /\ UNCHANGED <<at, file, reader, pos, d, d_written, reading_tag, tmp_tag,
                 tags, err>>

Flush ==
  /\ writer = "open"
  /\ ~ AllOut
  /\ file' = Append(file, NextOut)
  /\ at' = IF at[2] = Len(Lines(batch[at[1]])) THEN <<at[1] + 1, 1>>
                                              ELSE <<at[1], at[2] + 1>>
  /\ UNCHANGED <<writer, batch, reader, pos, d, d_written, reading_tag, tmp_tag,
                 tags, err>>

Close ==
  /\ writer = "open"
  /\ AllOut
  /\ writer' = "closed"
  /\ UNCHANGED <<batch, at, file, reader, pos, d, d_written, reading_tag, tmp_tag,
                 tags, err>>

\* Numbers with the first digits of n.
Shorter(n) == {m \in 1 .. n : \E k \in 0 .. n : m = n \div Base ^ k}

\* What is left of a line that is cut: "0" and "0x" start every value.
Cut(l) ==
  IF l.verb = "value"
  THEN [verb : {"value"}, num : Shorter(l.num) \cup {0, BadNum}]
  ELSE [verb : {"value"}, num : {BadNum}] \cup
       [verb : {"tag d:"}, num : Shorter(l.num) \cup {NoNum}]

\* The writer dies, between two lines or within one.
Kill ==
  /\ writer = "open"
  /\ writer' = "killed"
  /\ \/ UNCHANGED file
     \/ /\ ~ AllOut
        /\ \E l \in Cut(NextOut) : file' = Append(file, l)
  /\ UNCHANGED <<batch, at, reader, pos, d, d_written, reading_tag, tmp_tag, tags, err>>

WriteByHand(l) ==
  /\ writer = "call" \/ writer = "foreign"
  /\ reader = "call"
  /\ Len(file) < MaxLines
  /\ writer' = "foreign"
  /\ file' = Append(file, l)
  /\ UNCHANGED <<batch, at, reader, pos, d, d_written, reading_tag, tmp_tag, tags, err>>

-----------------------------------------------------------------------------
(***************************************************************************)
(* cf_tags_read                                                            *)
(***************************************************************************)
NoFile ==
  /\ reader = "call" /\ writer = "call"
  /\ reader' = "returned"
  /\ err' = "E_ERRNO_ERROR"
  /\ UNCHANGED <<written, pos, d, d_written, reading_tag, tmp_tag, tags>>

StartReading ==
  /\ reader = "call"
  /\ writer \in {"closed", "killed", "foreign"}
  /\ reader' = "reading"
  /\ UNCHANGED <<written, pos, d, d_written, reading_tag, tmp_tag, tags, err>>

line == file[pos + 1]
NextLine == reader = "reading" /\ pos < Len(file) /\ pos' = pos + 1

Die(how) ==
  /\ reader' = how
  /\ UNCHANGED <<written, d, d_written, reading_tag, tmp_tag, tags, err>>

\* A blank line; or text before the first tag.
SkipLine ==
  /\ NextLine
  /\ \/ line.verb = "blank"
     \/ line.verb = "value" /\ ~ reading_tag /\ d_written # d + 1
  /\ UNCHANGED <<written, reader, d, d_written, reading_tag, tmp_tag, tags, err>>

IsHeader == NextLine /\ line.verb = "tag d:"

\* assert(d+1 == d_written || d == 0): were it ever to fail, no action would
\* be left for the header.
AssertTagRead == d + 1 = d_written \/ d = 0

Header ==
  /\ IsHeader
  /\ ~ reading_tag /\ AssertTagRead
  /\ line.num \in Nat
  /\ d' = line.num
  /\ d_written' = 0
  /\ reading_tag' = TRUE
  /\ tmp_tag' = [memory |-> "live", y |-> [k \in 0 .. line.num |-> NULL]]
  /\ UNCHANGED <<written, reader, tags, err>>

\* str_to_size(NULL)
HeaderCut ==
  /\ IsHeader
  /\ ~ reading_tag /\ AssertTagRead
  /\ line.num = NoNum
  /\ Die("crashed")

\* Mutant of RefuseHeader: the unfinished tag is freed before the cleanup.
RefuseHeaderTwice ==
  /\ IsHeader
  /\ reading_tag \/ (AssertTagRead /\ line.num \in {BadNum, HugeNum})
  /\ Die("corrupted")

\* Everything is freed, tmp_tag as well, which after a tag was freed before.
RefuseHeader ==
  /\ IsHeader
  /\ reading_tag \/ (AssertTagRead /\ line.num \in {BadNum, HugeNum})
  /\ IF tmp_tag.memory = "freed" THEN Die("corrupted")
     ELSE /\ reader' = "returned"
          /\ err' = IF reading_tag THEN "E_FILE_FORMAT"
                    ELSE IF line.num = BadNum THEN "E_INVAL_NUM" ELSE "E_RANGE"
          /\ tags' = <<>>
          /\ tmp_tag' = [memory |-> "freed", y |-> <<>>]
          /\ UNCHANGED <<written, d, d_written, reading_tag>>

\* Mutants of Full: one coefficient less; one more.
FullEarly(n) == n = d \/ n = d + 1
FullLate(n) == n = d + 2

Full(n) == n = d + 1

\* The last coefficient saves a copy of tmp_tag and frees it.
Value ==
  /\ NextLine
  /\ line.verb = "value" /\ line.num # BadNum
  /\ reading_tag
  /\ LET y == [tmp_tag.y EXCEPT ![d_written] = line.num]
     IN  IF Full(d_written + 1)
         THEN /\ reading_tag' = FALSE
              /\ tags' = Append(tags, y)
              /\ tmp_tag' = [memory |-> "freed", y |-> <<>>]
         ELSE /\ tmp_tag' = [tmp_tag EXCEPT !.y = y]
              /\ UNCHANGED <<reading_tag, tags>>
  /\ d_written' = d_written + 1
  /\ UNCHANGED <<written, reader, d, err>>

\* assert(cf_err == E_NOERR)
ValueAsserted ==
  /\ NextLine
  /\ line.verb = "value" /\ line.num = BadNum
  /\ reading_tag
  /\ Die("aborted")

\* d_written is still d + 1: the tag that was freed is saved once more.
SaveFreed ==
  /\ NextLine
  /\ line.verb = "value"
  /\ ~ reading_tag /\ d_written = d + 1
  /\ Die("corrupted")

\* Mutant of EndOfFile: the tag that was being read is saved too.
EndOfFileSaves ==
  /\ reader = "reading"
  /\ pos = Len(file)
  /\ reader' = "returned"
  /\ tags' = IF reading_tag THEN Append(tags, tmp_tag.y) ELSE tags
  /\ UNCHANGED <<written, pos, d, d_written, reading_tag, tmp_tag, err>>

\* A tag that is not complete is dropped.
EndOfFile ==
  /\ reader = "reading"
  /\ pos = Len(file)
  /\ reader' = "returned"
  /\ UNCHANGED <<written, pos, d, d_written, reading_tag, tmp_tag, tags, err>>

Over ==
  /\ reader \in {"returned", "aborted", "crashed", "corrupted"}
  /\ UNCHANGED vars

Next ==
  \/ Open \/ Flush \/ Close \/ Kill
  \/ \E l \in ForeignLines : WriteByHand(l)
  \/ NoFile \/ StartReading \/ SkipLine
  \/ Header \/ HeaderCut \/ RefuseHeader
  \/ Value \/ ValueAsserted \/ SaveFreed \/ EndOfFile
  \/ Over

Spec == Init /\ [][Next]_vars

-----------------------------------------------------------------------------
(***************************************************************************)
(* Properties                                                              *)
(***************************************************************************)
Whole == FlattenSeq([n \in DOMAIN batch |-> Lines(batch[n])])

IsTag(y, coefficients) ==
  \E n \in 0 .. Len(file) : y \in [0 .. n -> coefficients]

Numbers == {file[n].num : n \in DOMAIN file} \cap Nat

TypeOK ==
  /\ writer \in {"call", "open", "closed", "killed", "foreign"}
  /\ reader \in {"call", "reading", "returned", "aborted", "crashed", "corrupted"}
  /\ pos \in 0 .. Len(file)
  /\ d \in Numbers \cup {0}
  /\ d_written \in 0 .. (d + 1)
  /\ reading_tag \in BOOLEAN
  /\ tmp_tag.memory \in {"null", "live", "freed"}
  /\ \A n \in DOMAIN tags : IsTag(tags[n], Numbers)
  /\ err \in {"E_NOERR", "E_ERRNO_ERROR", "E_FILE_FORMAT", "E_INVAL_NUM", "E_RANGE"}

(***************************************************************************)
(* What was written is read: the same tags, of any degrees, in their order *)
(* and without an error, when the writer was allowed to finish and every   *)
(* number fits into a line of the reader.                                  *)
(***************************************************************************)
RoundTrip ==
  writer = "closed" =>
    /\ reader \in {"call", "reading", "returned"}
    /\ reader = "returned" => tags = batch /\ err = "E_NOERR"

(***************************************************************************)
(* A kill between two lines is never noticed, and harmless: the reader     *)
(* returns the first tags of the batch.  A kill within a line is noticed   *)
(* or changes the one coefficient the file ends with.                      *)
(***************************************************************************)
TornIsPrefix ==
  writer = "killed" =>
    /\ file = SubSeq(Whole, 1, Len(file)) =>
         /\ reader \in {"call", "reading", "returned"}
         /\ reader = "returned" => err = "E_NOERR" /\ IsPrefix(tags, batch)
    /\ reader = "returned" /\ err = "E_NOERR" =>
         /\ Len(tags) <= Len(batch)
         /\ \A n \in DOMAIN tags :
              /\ DOMAIN tags[n] = DOMAIN batch[n]
              /\ \A k \in DOMAIN tags[n] :
                   tags[n][k] # batch[n][k] => n = Len(tags) /\ k = Degree(batch[n])

(***************************************************************************)
(* Whatever the file: a coefficient is only ever stored in a vector that   *)
(* is allocated, within its bounds, and next to those stored before.       *)
(***************************************************************************)
StoresInBounds ==
  reader = "reading" /\ reading_tag =>
    /\ tmp_tag.memory = "live"
    /\ d_written \in DOMAIN tmp_tag.y
    /\ \A k \in DOMAIN tmp_tag.y : (k < d_written) <=> (tmp_tag.y[k] # NULL)

(***************************************************************************)
(* Memory that was freed is only touched after a complete tag.  A file     *)
(* whose first tag is not complete may still make the reader crash on a    *)
(* header without a number or fail an assertion, but touches none.         *)
(***************************************************************************)
CorruptedAfterTag == reader = "corrupted" => tags # <<>>
=============================================================================
