------------------------------ MODULE KeyFiles ------------------------------
(***************************************************************************)
(* The two files of a key pair (io.c).  cf_keys_write opens both, writes   *)
(* FN.ek and then FN.sk, and can be killed anywhere, or find the disk full *)
(* (nothing it writes is checked); "keygen" may be run again on the same   *)
(* name.  cf_key_sk_read and cf_key_ek_read take a file line by line, so   *)
(* they are operators on the lines of a file.                              *)
(*                                                                         *)
(* A line is a record [verb, num].  The verb of "v: number" is v; "h d:"   *)
(* has a degree, "value" is a number alone, "text" any other line, "#" a   *)
(* comment.  A number is a record [of, run, cut]: the field of the keys    *)
(* (<<v, 0>>, or <<"h", i>>) of the run it was written for, and whether    *)
(* digits are missing.                                                     *)
(***************************************************************************)
EXTENDS Integers, SequencesExt

CONSTANTS
  Degrees,       \* degree bounds of keygen; 0 stands for a CF_1 key
  MaxRuns,       \* bound: runs of keygen
  Faults,        \* "open", "kill", "full": what may go wrong
  ForeignLines,  \* the lines a file written by hand is made of
  MaxLines,      \* bound: lines of such a file
  Base,          \* base of the digits of a degree
  BadNum,        \* no number
  NoNum,         \* a header that ends after the colon
  NULL

ASSUME DegreesAssumption == Degrees \subseteq Nat
ASSUME BaseAssumption == Base \in Nat \ {0, 1}
ASSUME BoundsAssumption == MaxRuns \in Nat /\ MaxLines \in Nat
ASSUME FaultsAssumption == Faults \subseteq {"open", "kill", "full"}

Numbers == [of : {"p", "k", "x", "g", "h"} \X Nat, run : Nat, cut : BOOLEAN]
Lines ==
  [verb : {"h d:"}, num : Nat \cup {BadNum, NoNum}] \cup
  [verb : {"p", "k", "x", "g", "z", "value", "text", "#", "blank"},
   num : Numbers \cup {BadNum}]

ASSUME NumbersAssumption ==
  /\ BadNum \notin Nat \cup Numbers /\ NULL \notin Nat \cup Numbers \cup {BadNum}
  /\ NoNum \notin Nat \cup {BadNum}
ASSUME ForeignLinesAssumption == ForeignLines \subseteq Lines

VARIABLES
  pc,       \* "idle", "open", "write", "close", "crashed" or "foreign"
  run, d,   \* this run of keygen and its degree bound
  ek, sk,   \* content of the files
  faulty    \* history: what went wrong since the files were last emptied
vars == <<pc, run, d, ek, sk, faulty>>

Init ==
  /\ pc = "idle"
  /\ run = 0 /\ d = 0
  /\ ek = <<>> /\ sk = <<>>
  /\ faulty = {}

-----------------------------------------------------------------------------
(***************************************************************************)
(* The lines of the files                                                  *)
(***************************************************************************)
Number(v, i) == [of |-> <<v, i>>, run |-> run, cut |-> FALSE]
Field(v) == [verb |-> v, num |-> Number(v, 0)]

\* cf_key_ek_write
EkLines ==
  <<Field("p")>> \o
  IF d = 0 THEN <<>>
  ELSE <<[verb |-> "h d:", num |-> d]>> \o
       [i \in 1 .. d |-> [verb |-> "value", num |-> Number("h", i)]]

\* cf_key_sk_write
SkLines ==
  <<Field("k"), Field("x"), Field("p")>> \o
  IF d = 0 THEN <<>> ELSE <<Field("g")>>

\* A degree with its last digits missing.
FirstDigits(n) == {m \in 1 .. n : \E k \in 0 .. n : m = n \div Base ^ k}

(***************************************************************************)
(* What a line may look like when the file ends within it.  "h d" without  *)
(* its colon is a line "v: number" of an unknown v; a header may lack some *)
(* of its digits, or all of them.  The beginning of a power is a number.   *)
(***************************************************************************)
Cut(l) ==
  CASE l.verb = "h d:" ->
         [verb : {"h d:"}, num : FirstDigits(l.num) \cup {NoNum}] \cup
         [verb : {"text", "z"}, num : {BadNum}]
    [] l.verb = "value" -> {[l EXCEPT !.num.cut = TRUE]}
    [] OTHER -> {[l EXCEPT !.num.cut = TRUE], [verb |-> "text", num |-> BadNum]}

\* Beginnings of a file.
Beginnings(lines) ==
  {SubSeq(lines, 1, n) : n \in 0 .. Len(lines)} \cup
  UNION {{Append(SubSeq(lines, 1, n - 1), l) : l \in Cut(lines[n])} : n \in DOMAIN lines}

-----------------------------------------------------------------------------
(***************************************************************************)
(* keygen: cf_keys_write                                                   *)
(***************************************************************************)
Keygen ==
  /\ pc \in {"idle", "crashed"}
  /\ run < MaxRuns
  /\ run' = run + 1
  /\ d' \in Degrees
  /\ pc' = "open"
  /\ UNCHANGED <<ek, sk, faulty>>

\* Mutant of OpenBoth: a file is opened when it is written.
OpenEkOnly ==
  /\ pc = "open"
  /\ ek' = <<>>
  /\ faulty' = {}
  /\ pc' = "write"
  /\ UNCHANGED <<run, d, sk>>

\* fopen(fn, "w") empties a file.
OpenBoth ==
  /\ pc = "open"
  /\ ek' = <<>> /\ sk' = <<>>
  /\ faulty' = {}
  /\ pc' = "write"
  /\ UNCHANGED <<run, d>>

\* One of the files, or both, cannot be opened; fclose(NULL) ends the program.
OpenFails ==
  /\ pc = "open"
  /\ "open" \in Faults
  /\ \/ ek' = <<>> /\ UNCHANGED sk
     \/ sk' = <<>> /\ UNCHANGED ek
     \/ UNCHANGED <<ek, sk>>
  /\ faulty' = faulty \cup {"open"}
  /\ pc' = "crashed"
  /\ UNCHANGED <<run, d>>

\* With many powers FN.ek outgrows the buffer of stdio.
FlushEk ==
  /\ pc = "write"
  /\ ek' \in Beginnings(EkLines)
  /\ Len(ek') > Len(ek)
  /\ UNCHANGED <<pc, run, d, sk, faulty>>

\* What fclose leaves of a file: all of it, or what the disk had room for.
Written(lines) == IF "full" \in Faults THEN Beginnings(lines) ELSE {lines}

CloseEk ==
  /\ pc = "write"
  /\ ek' \in Written(EkLines)
  /\ Len(ek') >= Len(ek)
  /\ faulty' = IF ek' = EkLines THEN faulty ELSE faulty \cup {"full"}
  /\ pc' = "close"
  /\ UNCHANGED <<run, d, sk>>

\* Lines the readers can take are short: FN.sk never outgrows the buffer.
CloseSk ==
  /\ pc = "close"
  /\ sk' \in Written(SkLines)
  /\ faulty' = IF sk' = SkLines THEN faulty ELSE faulty \cup {"full"}
  /\ pc' = "idle"
  /\ UNCHANGED <<run, d, ek>>

Kill ==
  /\ pc \in {"open", "write", "close"}
  /\ "kill" \in Faults
  /\ faulty' = faulty \cup {"kill"}
  /\ pc' = "crashed"
  /\ UNCHANGED <<run, d, ek, sk>>

\* Both readers are shown the same lines.
WriteByHand(l) ==
  /\ pc = "foreign" \/ (pc = "idle" /\ run = 0)
  /\ Len(ek) < MaxLines
  /\ ek' = Append(ek, l)
  /\ sk' = ek'
  /\ pc' = "foreign"
  /\ UNCHANGED <<run, d, faulty>>

Rest == pc \in {"idle", "crashed", "foreign"} /\ UNCHANGED vars

Next ==
  \/ Keygen \/ OpenBoth \/ OpenFails \/ FlushEk \/ CloseEk \/ CloseSk \/ Kill
  \/ \E l \in ForeignLines : WriteByHand(l)
  \/ Rest

Spec == Init /\ [][Next]_vars

-----------------------------------------------------------------------------
(***************************************************************************)
(* cf_key_sk_read.  err is the error of the last line; a line that is not  *)
(* "v: number" ends the loop, an unknown v does not.                       *)
(***************************************************************************)
SkVars == {"k", "x", "p", "g"}
IsVar(l) == l.verb \in SkVars \cup {"z"}

NoSk == [key |-> [f \in SkVars |-> NULL], err |-> "E_NOERR", over |-> FALSE]

\* Mutant of SkLine: the number is not looked at.
SkLineUnchecked(s, l) ==
  IF s.over \/ l.verb \in {"#", "blank"} THEN s
  ELSE IF l.verb \in SkVars
       THEN [s EXCEPT !.key[l.verb] = l.num, !.err = "E_NOERR"]
  ELSE [s EXCEPT !.err = "E_FILE_FORMAT", !.over = l.verb \notin {"z", "h d:"}]

SkLine(s, l) ==
  IF s.over \/ l.verb \in {"#", "blank"} THEN s
  ELSE IF l.verb \in SkVars /\ l.num # BadNum
       THEN [s EXCEPT !.key[l.verb] = l.num, !.err = "E_NOERR"]
  ELSE [s EXCEPT !.err = "E_FILE_FORMAT", !.over = l.verb \notin {"z", "h d:"}]

ReadSk(lines) ==
  LET after[n \in 0 .. Len(lines)] == IF n = 0 THEN NoSk ELSE SkLine(after[n - 1], lines[n])
  IN  after[Len(lines)]

(***************************************************************************)
(* cf_key_ek_read.  reading_h only ends after d + 1 powers; h has d.       *)
(***************************************************************************)
NoEk == [p |-> NULL, h |-> <<>>, d |-> 0, d_written |-> 0, reading_h |-> FALSE,
         err |-> "E_NOERR", status |-> "reading"]

Refuse(s) == [s EXCEPT !.err = "E_FILE_FORMAT", !.status = "refused"]

\* Without a number strtok gives NULL, which str_to_size reads.
EkHeader(s, l) ==
  IF s.reading_h THEN Refuse(s)
  ELSE IF s.d # 0 /\ s.d + 1 # s.d_written THEN [s EXCEPT !.status = "aborted"]
  ELSE IF l.num = NoNum THEN [s EXCEPT !.status = "crashed"]
  ELSE IF l.num = BadNum THEN Refuse(s)
  ELSE IF l.num = 0 THEN [s EXCEPT !.status = "aborted"]
  ELSE [s EXCEPT !.h = [i \in 1 .. l.num |-> NULL], !.d = l.num,
                 !.d_written = 0, !.reading_h = TRUE]

\* Mutant of EkPower: the first power is skipped.
EkPowerShifted(s, l) ==
  IF s.d_written = s.d THEN [s EXCEPT !.status = "corrupted"]
  ELSE IF l.verb # "value" \/ l.num = BadNum THEN Refuse(s)
  ELSE [s EXCEPT !.h[s.d_written + 2] = l.num, !.d_written = @ + 1]

\* A line behind the last power is imported, number or not, into what lies behind h.
EkPower(s, l) ==
  IF s.d_written = s.d THEN [s EXCEPT !.status = "corrupted"]
  ELSE IF l.verb # "value" \/ l.num = BadNum THEN Refuse(s)
  ELSE [s EXCEPT !.h[s.d_written + 1] = l.num, !.d_written = @ + 1]

EkVar(s, l) ==
  IF ~ IsVar(l) \/ (l.verb = "p" /\ l.num = BadNum) THEN Refuse(s)
  ELSE IF l.verb = "p" THEN [s EXCEPT !.p = l.num] ELSE s

EkLine(s, l) ==
  IF s.status # "reading" \/ l.verb = "#" THEN s
  ELSE IF l.verb = "h d:" THEN EkHeader(s, l)
  ELSE IF s.reading_h THEN EkPower(s, l) ELSE EkVar(s, l)

ReadEk(lines) ==
  LET after[n \in 0 .. Len(lines)] == IF n = 0 THEN NoEk ELSE EkLine(after[n - 1], lines[n])
  IN  after[Len(lines)]

-----------------------------------------------------------------------------
(***************************************************************************)
(* Properties                                                              *)
(***************************************************************************)
TypeOK ==
  /\ pc \in {"idle", "open", "write", "close", "crashed", "foreign"}
  /\ run \in 0 .. MaxRuns
  /\ d \in Degrees \cup {0}
  /\ faulty \subseteq Faults
  /\ ReadSk(sk).err \in {"E_NOERR", "E_FILE_FORMAT"}
  /\ LET s == ReadEk(ek)
     IN  /\ DOMAIN s.h = 1 .. s.d
         /\ s.d_written \in 0 .. s.d
         /\ \A i \in 1 .. s.d : (i <= s.d_written) <=> (s.h[i] # NULL)

Accepted(s) == s.status = "reading"

\* Both keys are complete, have one scheme, and are of one run.
WholePair ==
  LET e == ReadEk(ek)
      s == ReadSk(sk)
      numbers == {e.p} \cup {e.h[i] : i \in DOMAIN e.h} \cup
                 {s.key[f] : f \in {"k", "x", "p"}} \cup
                 (IF e.h = <<>> THEN {} ELSE {s.key.g})
  IN  /\ s.err = "E_NOERR" /\ Accepted(e)
      /\ NULL \notin numbers
      /\ \A n \in numbers : ~ n.cut
      /\ Cardinality({n.run : n \in numbers}) = 1
      /\ e.h = <<>> => s.key.g = NULL

(***************************************************************************)
(* Wherever keygen is killed, and wherever it was killed before: either    *)
(* one of the files is empty, or the two are a complete pair, which they   *)
(* are after a keygen that met no fault.  Even when the disk is full they  *)
(* never hold keys of different runs, the secret key of one with the       *)
(* powers of the other.                                                    *)
(***************************************************************************)
RunsOf(lines) ==
  {lines[n].num.run : n \in {m \in DOMAIN lines :
                               lines[m].num # BadNum /\ lines[m].verb # "h d:"}}

PairWhole ==
  pc # "foreign" =>
    /\ ek # <<>> /\ sk # <<>> /\ "full" \notin faulty => WholePair
    /\ pc = "idle" /\ run > 0 /\ faulty = {} => ek # <<>> /\ sk # <<>>
    /\ \A m \in RunsOf(ek), n \in RunsOf(sk) : m = n

(***************************************************************************)
(* A file that is not complete is read without an error more often than    *)
(* not, but no number ends up in the place of another.                     *)
(***************************************************************************)
FieldsInPlace ==
  pc # "foreign" =>
  LET e == ReadEk(ek)
      s == ReadSk(sk)
  IN  /\ e.p # NULL => e.p.of = <<"p", 0>>
      /\ \A i \in DOMAIN e.h : e.h[i] # NULL => e.h[i].of = <<"h", i>>
      /\ \A f \in SkVars : s.key[f] # NULL => s.key[f].of = <<f, 0>>

(***************************************************************************)
(* Which files are accepted, line order and repetitions included.  Secret  *)
(* keys: those without a line that is no "v: number", and whose last line  *)
(* that counts has a known v.  Evaluation keys: "v: number"s first, then   *)
(* at most one section of powers, not more than its header says, to the    *)
(* end; so the assertion on a second section never fails, and a blank line *)
(* is refused, although the reader means to ignore it.                     *)
(***************************************************************************)
Stops(l) == l.verb \in {"text", "value"} \/ (l.verb \in SkVars /\ l.num = BadNum)

IsSk(lines) ==
  LET counting == {n \in DOMAIN lines : lines[n].verb \notin {"#", "blank"}}
  IN  \A n \in counting :
        /\ ~ Stops(lines[n])
        /\ (\A m \in counting : m <= n) => lines[n].verb \in SkVars

IsEk(lines) ==
  LET counting == {n \in DOMAIN lines : lines[n].verb # "#"}
      headers  == {n \in counting : lines[n].verb = "h d:"}
      after(h) == {n \in counting : n > h}
  IN  /\ \A n \in counting : (\A h \in headers : n < h) =>
           IsVar(lines[n]) /\ (lines[n].verb = "p" => lines[n].num # BadNum)
      /\ \A h \in headers : \A n \in after(h) :
           lines[n].verb = "value" /\ lines[n].num # BadNum
      /\ \A h \in headers :
           lines[h].num \notin {BadNum, NoNum, 0} /\ Cardinality(after(h)) <= lines[h].num

AcceptedFiles ==
  /\ ReadSk(sk).err = "E_NOERR" <=> IsSk(sk)
  /\ Accepted(ReadEk(ek)) <=> IsEk(ek)
=============================================================================
