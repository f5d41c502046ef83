------------------------------- MODULE CFTool -------------------------------
(***************************************************************************)
(* The command line (main.c): keygen, auth, eval, vrfy and msgeval, each a *)
(* process that reads some files and writes others, over one disk.  A      *)
(* session is several of them, and since they are programs somebody starts *)
(* from a shell, one may run while another does, be killed at any step, or *)
(* find that a file cannot be opened.                                      *)
(*                                                                         *)
(* The pure parts are those of MacOps.  A file is a sequence: of numbers,  *)
(* of tags, of the keys of one keygen; <<>> is an empty file.  What a kill *)
(* leaves of a file that is longer than a buffer is in TagFile and         *)
(* KeyFiles, here a beginning of it.  Circuit and label files are written  *)
(* by hand and part of a command line; message files msgeval writes too.   *)
(* The p of all keys is one number, and a label file repeats no label.     *)
(***************************************************************************)
EXTENDS MacOps, SequencesExt

CONSTANTS
  Procs,
  KeyNames, TagNames, MessageNames,
  Contents(_),  \* Contents(n): what is in message file n at first, or NULL
  HexValue(_),  \* the number the name of a missing message file is, or NULL
  Sessions,     \* bound: sequences of command lines, started in any order
  Faults,       \* "kill", "open": what may go wrong
  Stray,        \* what lies behind the last label in memory: labels, NULL
  BadArith,     \* a circuit file with an error
  BadNum        \* a line that is no number

(***************************************************************************)
(* A command line [verb, bits, cf, d, key, arith, labels, messages, tags,  *)
(* out]; what is not given is NULL.  The files key and out of keygen are   *)
(* KEY.ek and KEY.sk; others read them by these names.                     *)
(***************************************************************************)
Commands == UNION {Range(s) : s \in Sessions}

\* What is in a circuit file without an error.
IsCircuit(c) ==
  /\ WellFormed(c)
  /\ \A g \in Gates(c) : c.gates[g].type = "CONSTMUL" => c.gates[g].const_val \in Int

ASSUME NamesAssumption ==
  /\ KeyNames \cap TagNames = {} /\ KeyNames \cap MessageNames = {}
  /\ TagNames \cap MessageNames = {}
  /\ NULL \notin KeyNames \cup TagNames \cup MessageNames
ASSUME CommandsAssumption ==
  /\ Sessions \subseteq Seq(Commands) /\ NULL \notin Commands
  /\ \A c \in Commands :
       /\ c.verb \in {"keygen", "auth", "eval", "vrfy", "msgeval"}
       /\ c.cf \in Schemes /\ c.d \in Nat
       /\ c.key \in KeyNames \cup {NULL} /\ c.tags \in TagNames \cup {NULL}
       /\ c.messages \in MessageNames \cup {NULL}
       /\ c.out \in IF c.verb = "keygen" THEN KeyNames
                    ELSE IF c.verb = "msgeval" THEN MessageNames ELSE TagNames
       /\ c.arith \in {NULL, BadArith} \/ IsCircuit(c.arith)
       /\ c.labels = NULL \/ c.labels \in Seq(Int \cup {BadNum})
ASSUME NumbersAssumption ==
  /\ P \in Nat \ {0}
  /\ \A n \in MessageNames :
       /\ Contents(n) = NULL \/ Contents(n) \in Seq(Int \cup {BadNum})
       /\ HexValue(n) = NULL \/ HexValue(n) \in Int
ASSUME FaultsAssumption == Faults \subseteq {"kill", "open"}

\* What may be printed: the usage, or one of the codes of error.h.
Errors ==
  {"usage", "E_ERRNO_ERROR", "E_AC_FILE_FORMAT", "E_INVAL_NUM", "E_INVAL_SECPARAM",
   "E_INVAL_LBL", "E_INVAL_MSG", "E_NO_MSG", "E_INVAL_N_INPUTS", "E_INVAL_EK_KEY",
   "E_INVAL_DEGREE", "E_TAG_SIZE", "E_MSG_LBL_SIZE", "E_NO_VRFY", "E_VRFY"}
ASSUME ErrorsAssumption == NULL \notin Errors

VARIABLES
  disk,           \* content of each file; NULL: there is none
  runs,           \* keys made so far
  left,           \* the command lines that are still to be started
  pc, line,       \* where each process is, and its command line
  mem,            \* what it has read and computed
  said,           \* the code cf_perror printed, or NULL
  before,         \* history: the files it may write, as they were at its start
  stale,          \* history: files whose writer did not get to their end
  authenticated,  \* history: what auth has made tags for
  accepted        \* history: the claims vrfy has confirmed
files == <<disk, stale>>
history == <<authenticated, accepted>>
vars == <<disk, runs, left, pc, line, mem, said, before, stale, history>>

Files ==
  (KeyNames \X {".ek", ".sk"}) \cup (TagNames \X {"", ".loc"})
    \cup (MessageNames \X {""})

\* msg is <<>> until there is a message to verify.
Blank == [key |-> <<>>, messages |-> <<>>, tags |-> <<>>, out |-> <<>>,
          loc |-> <<>>, msg |-> <<>>]

\* The files a command writes.
Outputs(c) ==
  IF c.verb = "keygen" THEN {<<c.out, ".ek">>, <<c.out, ".sk">>}
  ELSE IF c.verb = "vrfy" THEN {}
  ELSE IF c.verb = "eval" /\ c.cf = "CF_2" THEN {<<c.out, "">>, <<c.out, ".loc">>}
  ELSE {<<c.out, "">>}

Idle(p) == pc[p] \in {"ended", "died", "killed"}

Init ==
  /\ disk = [f \in Files |-> IF f[1] \in MessageNames THEN Contents(f[1]) ELSE NULL]
  /\ runs = 0 /\ left \in Sessions
  /\ pc = [p \in Procs |-> "ended"]
  /\ line = [p \in Procs |-> NULL]
  /\ mem = [p \in Procs |-> Blank]
  /\ said = [p \in Procs |-> NULL]
  /\ before = [p \in Procs |-> <<>>]
  /\ stale = {}
  /\ authenticated = {} /\ accepted = {}

-----------------------------------------------------------------------------
(***************************************************************************)
(* Steps of a process                                                      *)
(***************************************************************************)
At(p, verbs, l) == pc[p] = l /\ line[p].verb \in verbs

Goto(p, l) == pc' = [pc EXCEPT ![p] = l] /\ UNCHANGED said

Die(p) == Goto(p, "died")

\* cf_perror; vrfy then frees what it has.
Report(p, err) ==
  /\ said' = [said EXCEPT ![p] = err]
  /\ pc' = [pc EXCEPT ![p] = IF line[p].verb = "vrfy" THEN "cleanup" ELSE "ended"]

Remember(p, field, v) == mem' = [mem EXCEPT ![p][field] = v]

Keep == UNCHANGED <<runs, left, line, before>>

-----------------------------------------------------------------------------
(***************************************************************************)
(* main and the parsing of arguments.                                      *)
(***************************************************************************)
\* Mutant of Required: eval does not ask for its tags.
RequiredButTags(c) ==
  IF c.verb = "auth" THEN {c.key, c.labels, c.messages}
  ELSE IF c.verb = "eval" THEN {c.key, c.arith}
  ELSE IF c.verb = "vrfy" THEN {c.key, c.arith, c.labels, c.messages, c.tags}
  ELSE IF c.verb = "msgeval" THEN {c.arith, c.messages}
  ELSE {}

Required(c) ==
  IF c.verb = "auth" THEN {c.key, c.labels, c.messages}
  ELSE IF c.verb = "eval" THEN {c.key, c.arith, c.tags}
  ELSE IF c.verb = "vrfy" THEN {c.key, c.arith, c.labels, c.messages, c.tags}
  ELSE IF c.verb = "msgeval" THEN {c.arith, c.messages}
  ELSE {}

\* argp_error prints and exits.
UsageError(c) ==
  NULL \in Required(c) \/ (c.verb = "keygen" /\ c.cf = "CF_2" /\ c.d = 0)

FirstStep(c) ==
  IF c.verb = "keygen" THEN "compute"
  ELSE IF c.verb = "msgeval" THEN "inputs" ELSE "key"

\* Two commands that write the same file are not run at once.
Start(p, i) ==
  LET c == left[i] IN
  /\ Idle(p)
  /\ \A q \in Procs : ~ Idle(q) => Outputs(line[q]) \cap Outputs(c) = {}
  /\ left' = RemoveAt(left, i)
  /\ line' = [line EXCEPT ![p] = c]
  /\ mem' = [mem EXCEPT ![p] = Blank]
  /\ before' = [before EXCEPT ![p] = [f \in Outputs(c) |-> disk[f]]]
  /\ IF UsageError(c)
     THEN /\ pc' = [pc EXCEPT ![p] = "ended"]
          /\ said' = [said EXCEPT ![p] = "usage"]
     ELSE /\ pc' = [pc EXCEPT ![p] = FirstStep(c)]
          /\ said' = [said EXCEPT ![p] = NULL]
  /\ UNCHANGED <<runs, files, history>>

-----------------------------------------------------------------------------
(***************************************************************************)
(* Reading.  auth and vrfy read the secret key, eval the evaluation key,   *)
(* msgeval, if it is given one, the evaluation key after its other files.  *)
(***************************************************************************)
KeyFile(c) == <<c.key, IF c.verb \in {"auth", "vrfy"} THEN ".sk" ELSE ".ek">>

AfterKey(p) == IF line[p].verb = "msgeval" THEN "compute" ELSE "inputs"

ReadKey(p) ==
  /\ At(p, {"auth", "eval", "vrfy", "msgeval"}, "key")
  /\ IF line[p].key = NULL
     THEN Goto(p, "compute") /\ UNCHANGED mem
     ELSE LET content == disk[KeyFile(line[p])]
          IN  IF content = NULL
              THEN Report(p, "E_ERRNO_ERROR") /\ UNCHANGED mem
              ELSE Remember(p, "key", content) /\ Goto(p, AfterKey(p))
  /\ Keep /\ UNCHANGED <<files, history>>

\* cf_mpis_read: a name without a file is taken for a number.
Numbers(n) ==
  IF disk[<<n, "">>] # NULL THEN disk[<<n, "">>]
  ELSE IF HexValue(n) = NULL THEN <<BadNum>> ELSE <<HexValue(n)>>

HasBadNum(numbers) == \E i \in DOMAIN numbers : numbers[i] = BadNum

\* The circuit first, labels, then messages; the first error is the last read.
InputError(c) ==
  IF c.arith = BadArith THEN "E_AC_FILE_FORMAT"
  ELSE IF c.verb \in {"auth", "vrfy"} /\ HasBadNum(c.labels) THEN "E_INVAL_NUM"
  ELSE IF c.verb # "eval" /\ HasBadNum(Numbers(c.messages)) THEN "E_INVAL_NUM"
  ELSE "E_NOERR"

AfterInputs(c) ==
  IF c.verb = "msgeval" THEN "key" ELSE IF c.verb = "auth" THEN "compute" ELSE "tags"

ReadInputs(p) ==
  /\ At(p, {"auth", "eval", "vrfy", "msgeval"}, "inputs")
  /\ IF InputError(line[p]) # "E_NOERR"
     THEN Report(p, InputError(line[p])) /\ UNCHANGED mem
     ELSE /\ Goto(p, AfterInputs(line[p]))
          /\ IF line[p].verb = "eval" THEN UNCHANGED mem
             ELSE Remember(p, "messages", Numbers(line[p].messages))
  /\ Keep /\ UNCHANGED <<files, history>>

ReadTags(p) ==
  /\ At(p, {"eval", "vrfy"}, "tags")
  /\ LET content == disk[<<line[p].tags, "">>]
     IN  IF content = NULL
         THEN Report(p, "E_ERRNO_ERROR") /\ UNCHANGED mem
         ELSE Remember(p, "tags", content) /\ Goto(p, "compute")
  /\ Keep /\ UNCHANGED <<files, history>>

-----------------------------------------------------------------------------
(***************************************************************************)
(* keygen: cf_key_gen                                                      *)
(***************************************************************************)
KeygenFails(p) ==
  /\ At(p, {"keygen"}, "compute")
  /\ line[p].bits % 8 # 0
  /\ Report(p, "E_INVAL_SECPARAM")
  /\ Keep /\ UNCHANGED <<mem, files, history>>

\* assert(t > 2)
KeygenDies(p) ==
  /\ At(p, {"keygen"}, "compute")
  /\ line[p].bits % 8 = 0 /\ line[p].cf = "CF_2"
  /\ Die(p)
  /\ Keep /\ UNCHANGED <<mem, files, history>>

Keygen(p) ==
  /\ At(p, {"keygen"}, "compute")
  /\ line[p].bits % 8 = 0
  /\ runs' = runs + 1
  /\ Remember(p, "key", <<[run |-> runs + 1, cf |-> line[p].cf, d |-> line[p].d]>>)
  /\ Goto(p, "open")
  /\ UNCHANGED <<left, line, before, files, history>>

-----------------------------------------------------------------------------
(***************************************************************************)
(* auth: the loop over the messages.  That there are fewer labels is       *)
(* noticed, and forgotten when the PRF handler is made; stray is what the  *)
(* loop then finds behind the last label.                                  *)
(***************************************************************************)
Strays(p) == (Len(line[p].labels) + 1) .. Len(mem[p].messages)

Label(p, stray, i) ==
  IF i \in DOMAIN line[p].labels THEN line[p].labels[i] ELSE stray[i]

Authenticable(label, m) == AuthError(label, m) = "E_NOERR" /\ ~ AuthDies(label)

\* assert((*tag)->y[1] != NULL): an x that was drawn as 0 has no inverse.
FirstFails(p) ==
  LET labels == line[p].labels
  IN  labels # <<>> /\ AuthError(labels[1], mem[p].messages[1]) # "E_NOERR"

\* A key without k, such an x, or an address behind the last label.
AuthDead(p) ==
  /\ At(p, {"auth"}, "compute")
  /\ mem[p].key = <<>> \/ (mem[p].messages # <<>> /\ ~ FirstFails(p))
  /\ Die(p)
  /\ Keep /\ UNCHANGED <<mem, files, history>>

AuthStops(p, stray, i) ==
  LET label == Label(p, stray, i)
      m     == mem[p].messages[i]
  IN  /\ At(p, {"auth"}, "compute") /\ mem[p].key # <<>>
      /\ \A j \in 1 .. (i - 1) : Authenticable(Label(p, stray, j), mem[p].messages[j])
      /\ ~ Authenticable(label, m)
      /\ IF AuthError(label, m) # "E_NOERR" THEN Report(p, AuthError(label, m)) ELSE Die(p)
      /\ Keep /\ UNCHANGED <<mem, files, history>>

Auth(p, stray) ==
  LET messages == mem[p].messages
      r        == mem[p].key[1].run
  IN  /\ At(p, {"auth"}, "compute") /\ mem[p].key # <<>>
      /\ \A i \in DOMAIN messages : Authenticable(Label(p, stray, i), messages[i])
      /\ Remember(p, "out",
           [i \in DOMAIN messages |-> FreshTag(r, Label(p, stray, i), messages[i])])
      /\ authenticated' = authenticated \cup
           {<<r, Label(p, stray, i), messages[i]>> : i \in DOMAIN messages}
      /\ Goto(p, "open")
      /\ Keep /\ UNCHANGED <<files, accepted>>

-----------------------------------------------------------------------------
(***************************************************************************)
(* eval: cf_eval                                                           *)
(***************************************************************************)
EvalErrorOf(p) == EvalError(mem[p].key, line[p].arith, mem[p].tags, line[p].cf)

\* Mutant of EvalFails: the output is opened before the evaluation.
EvalFailsLate(p) ==
  /\ At(p, {"eval"}, "compute")
  /\ EvalErrorOf(p) # "E_NOERR"
  /\ Report(p, EvalErrorOf(p))
  /\ disk' = [disk EXCEPT ![<<line[p].out, "">>] = <<>>]
  /\ Keep /\ UNCHANGED <<mem, stale, history>>

EvalFails(p) ==
  /\ At(p, {"eval"}, "compute")
  /\ EvalErrorOf(p) # "E_NOERR"
  /\ Report(p, EvalErrorOf(p))
  /\ Keep /\ UNCHANGED <<mem, files, history>>

\* The degree is compared after the evaluation, the rest before.
EvalDies(p) ==
  /\ At(p, {"eval"}, "compute")
  /\ EvalErrorOf(p) \in {"E_NOERR", "E_INVAL_DEGREE"}
  /\ EvalMayDie(line[p].arith)
  /\ Die(p)
  /\ Keep /\ UNCHANGED <<mem, files, history>>

\* Mutant of Eval: the compressed tag takes the place of both.
EvalUnswapped(p) ==
  /\ At(p, {"eval"}, "compute")
  /\ EvalErrorOf(p) = "E_NOERR"
  /\ ~ EvalMustDie(mem[p].key, line[p].arith, line[p].cf)
  /\ LET result == EvalResult(mem[p].key, line[p].arith, mem[p].tags)
     IN  mem' = IF line[p].cf = "CF_2"
                THEN [mem EXCEPT ![p].out = <<Compressed(result[1])>>,
                                 ![p].loc = <<Compressed(result[1])>>]
                ELSE [mem EXCEPT ![p].out = result]
  /\ Goto(p, "open")
  /\ Keep /\ UNCHANGED <<files, history>>

Eval(p) ==
  /\ At(p, {"eval"}, "compute")
  /\ EvalErrorOf(p) = "E_NOERR"
  /\ ~ EvalMustDie(mem[p].key, line[p].arith, line[p].cf)
  /\ LET result == EvalResult(mem[p].key, line[p].arith, mem[p].tags)
     IN  mem' = IF line[p].cf = "CF_2"
                THEN [mem EXCEPT ![p].out = <<Compressed(result[1])>>, ![p].loc = result]
                ELSE [mem EXCEPT ![p].out = result]
  /\ Goto(p, "open")
  /\ Keep /\ UNCHANGED <<files, history>>

-----------------------------------------------------------------------------
(***************************************************************************)
(* msgeval: arith_circ_eval, modulo p if there is an evaluation key.  A    *)
(* missing result is written as "(null)".                                  *)
(***************************************************************************)
MsgEvalFails(p) ==
  /\ At(p, {"msgeval"}, "compute")
  /\ line[p].arith.n_inputs # Len(mem[p].messages)
  /\ Report(p, "E_INVAL_N_INPUTS")
  /\ Keep /\ UNCHANGED <<mem, files, history>>

MsgEval(p) ==
  LET c == line[p].arith
  IN  /\ At(p, {"msgeval"}, "compute")
      /\ c.n_inputs = Len(mem[p].messages)
      /\ Remember(p, "out",
           <<IF Evaluable(c) THEN Modulo(Value(c, mem[p].messages), mem[p].key)
             ELSE BadNum>>)
      /\ Goto(p, "open")
      /\ Keep /\ UNCHANGED <<files, history>>

-----------------------------------------------------------------------------
(***************************************************************************)
(* vrfy: which message is to be verified, cf_program_init and cf_vrfy.     *)
(***************************************************************************)
ClaimError(p) ==
  LET n_msgs == Len(mem[p].messages)
      n_lbls == Len(line[p].labels)
  IN  IF Len(mem[p].tags) # 1 THEN "E_TAG_SIZE"
      ELSE IF n_msgs = 1 THEN "E_NOERR"
      ELSE IF n_msgs # n_lbls THEN "E_MSG_LBL_SIZE"
      ELSE IF n_msgs # line[p].arith.n_inputs THEN "E_INVAL_N_INPUTS"
      ELSE "E_NOERR"

\* Mutant of ClaimedMessage: as many messages as labels are always evaluated.
ClaimedEvaluated(p) ==
  LET messages == mem[p].messages
      c        == line[p].arith
  IN  IF Len(messages) # Len(line[p].labels) THEN messages
      ELSE IF Evaluable(c) THEN <<Modulo(Value(c, messages), mem[p].key)>> ELSE <<>>

\* One message is the evaluated one.
ClaimedMessage(p) ==
  LET messages == mem[p].messages
      c        == line[p].arith
  IN  IF Len(messages) = 1 THEN messages
      ELSE IF Evaluable(c) THEN <<Modulo(Value(c, messages), mem[p].key)>> ELSE <<>>

\* Mutant of VrfyFails: the error is forgotten.
VrfyFailsSilently(p) ==
  /\ At(p, {"vrfy"}, "compute")
  /\ ClaimError(p) # "E_NOERR"
  /\ Goto(p, "cleanup")
  /\ Keep /\ UNCHANGED <<mem, files, history>>

VrfyFails(p) ==
  /\ At(p, {"vrfy"}, "compute")
  /\ ClaimError(p) # "E_NOERR"
  /\ Report(p, ClaimError(p))
  /\ Keep /\ UNCHANGED <<mem, files, history>>

VrfyClaims(p) ==
  /\ At(p, {"vrfy"}, "compute")
  /\ ClaimError(p) = "E_NOERR"
  /\ Remember(p, "msg", ClaimedMessage(p))
  /\ Goto(p, "check")
  /\ Keep /\ UNCHANGED <<files, history>>

\* assert(tau), assert(n == f->n_inputs)
ProgramInitDies(p) ==
  line[p].labels = <<>> \/ Len(line[p].labels) # line[p].arith.n_inputs

CheckDies(p) ==
  /\ At(p, {"vrfy"}, "check")
  /\ \/ ProgramInitDies(p)
     \/ mem[p].msg = <<>>
     \/ /\ mem[p].msg # <<>>
        /\ VrfyDies(mem[p].key, line[p].arith, line[p].labels, mem[p].msg[1], mem[p].tags[1])
  /\ Die(p)
  /\ Keep /\ UNCHANGED <<mem, files, history>>

\* Without a message, cf_vrfy looks at one that was never set: NULL, or
\* anything.
CheckUnset(p) ==
  /\ At(p, {"vrfy"}, "check")
  /\ ~ ProgramInitDies(p)
  /\ mem[p].msg = <<>>
  /\ \/ Report(p, "E_NO_MSG")
     \/ mem[p].key # <<>> /\ Report(p, "E_INVAL_MSG")
     \/ mem[p].key # <<>> /\ mem[p].tags[1].deg # 0 /\ Goto(p, "cleanup")
  /\ Keep /\ UNCHANGED <<mem, files, history>>

VerdictOf(p) ==
  Verdict(mem[p].key, line[p].arith, line[p].labels, mem[p].msg[1], mem[p].tags[1])

\* Nothing is printed for E_NOERR.
Check(p) ==
  /\ At(p, {"vrfy"}, "check")
  /\ ~ ProgramInitDies(p)
  /\ mem[p].msg # <<>>
  /\ ~ VrfyDies(mem[p].key, line[p].arith, line[p].labels, mem[p].msg[1], mem[p].tags[1])
  /\ IF VerdictOf(p) = "E_NOERR" THEN Goto(p, "cleanup") ELSE Report(p, VerdictOf(p))
  /\ accepted' =
       IF VerdictOf(p) = "E_VRFY"
       THEN accepted \cup {[run |-> mem[p].key[1].run, arith |-> line[p].arith,
                            labels |-> line[p].labels, message |-> mem[p].msg[1]]}
       ELSE accepted
  /\ Keep /\ UNCHANGED <<mem, files, authenticated>>

\* msg_eval is freed, set or not.
Cleanup(p) ==
  /\ At(p, {"vrfy"}, "cleanup")
  /\ Goto(p, "ended") \/ (mem[p].msg = <<>> /\ Die(p))
  /\ Keep /\ UNCHANGED <<mem, files, history>>

-----------------------------------------------------------------------------
(***************************************************************************)
(* Writing.  fopen(fn, "w") empties a file, fclose completes it.           *)
(***************************************************************************)
Write(f, content) == disk' = [disk EXCEPT ![f] = content]

Complete(p, f, content) ==
  /\ Write(f, content)
  /\ stale' = stale \ {f}

Out(p, ext) == <<line[p].out, ext>>

\* cf_keys_write
OpenKeys(p) ==
  /\ At(p, {"keygen"}, "open")
  /\ disk' = [disk EXCEPT ![Out(p, ".ek")] = <<>>, ![Out(p, ".sk")] = <<>>]
  /\ Goto(p, "close_ek")
  /\ Keep /\ UNCHANGED <<mem, stale, history>>

\* fclose(NULL) ends the program; the file that was opened is empty.
OpenKeysFails(p) ==
  /\ At(p, {"keygen"}, "open")
  /\ "open" \in Faults
  /\ \/ UNCHANGED disk
     \/ \E ext \in {".ek", ".sk"} : Write(Out(p, ext), <<>>)
  /\ stale' = stale \cup Outputs(line[p])
  /\ Die(p)
  /\ Keep /\ UNCHANGED <<mem, history>>

CloseEk(p) ==
  /\ At(p, {"keygen"}, "close_ek")
  /\ Complete(p, Out(p, ".ek"), mem[p].key)
  /\ Goto(p, "close_sk")
  /\ Keep /\ UNCHANGED <<mem, history>>

CloseSk(p) ==
  /\ At(p, {"keygen"}, "close_sk")
  /\ Complete(p, Out(p, ".sk"), mem[p].key)
  /\ Goto(p, "ended")
  /\ Keep /\ UNCHANGED <<mem, history>>

\* cf_tags_write, cf_tag_write, and what msgeval does itself.
OpenOut(p) ==
  /\ At(p, {"auth", "eval", "msgeval"}, "open")
  /\ Write(Out(p, ""), <<>>)
  /\ Goto(p, "close")
  /\ Keep /\ UNCHANGED <<mem, stale, history>>

\* msgeval writes to what fopen returned without a look at it.
OpenOutFails(p) ==
  /\ At(p, {"auth", "eval", "msgeval"}, "open")
  /\ "open" \in Faults
  /\ IF line[p].verb = "msgeval" THEN Die(p) ELSE Report(p, "E_ERRNO_ERROR")
  /\ Keep /\ UNCHANGED <<mem, files, history>>

\* The degree of a tag that is NULL.
WriteNull(p) ==
  /\ At(p, {"eval"}, "close")
  /\ mem[p].out = <<>>
  /\ Die(p)
  /\ Keep /\ UNCHANGED <<mem, files, history>>

\* The last tag of a beginning may lack digits.
Cut(t) == [t EXCEPT !.run = 0]

Beginnings(tags) ==
  {SubSeq(tags, 1, n) : n \in 1 .. (Len(tags) - 1)} \cup
  {Append(SubSeq(tags, 1, n - 1), Cut(tags[n])) : n \in DOMAIN tags}

FlushOut(p) ==
  /\ At(p, {"auth", "eval"}, "close")
  /\ disk[Out(p, "")] = <<>>
  /\ \E content \in Beginnings(mem[p].out) : Write(Out(p, ""), content)
  /\ UNCHANGED pc /\ UNCHANGED said
  /\ Keep /\ UNCHANGED <<mem, stale, history>>

CloseOut(p) ==
  /\ At(p, {"auth", "eval", "msgeval"}, "close")
  /\ ~ (line[p].verb = "eval" /\ mem[p].out = <<>>)
  /\ Complete(p, Out(p, ""), mem[p].out)
  /\ Goto(p, IF mem[p].loc = <<>> THEN "ended" ELSE "open_loc")
  /\ Keep /\ UNCHANGED <<mem, history>>

OpenLoc(p) ==
  /\ At(p, {"eval"}, "open_loc")
  /\ Write(Out(p, ".loc"), <<>>)
  /\ Goto(p, "close_loc")
  /\ Keep /\ UNCHANGED <<mem, stale, history>>

OpenLocFails(p) ==
  /\ At(p, {"eval"}, "open_loc")
  /\ "open" \in Faults
  /\ stale' = stale \cup {Out(p, ".loc")}
  /\ Report(p, "E_ERRNO_ERROR")
  /\ Keep /\ UNCHANGED <<mem, disk, history>>

CloseLoc(p) ==
  /\ At(p, {"eval"}, "close_loc")
  /\ Complete(p, Out(p, ".loc"), mem[p].loc)
  /\ Goto(p, "ended")
  /\ Keep /\ UNCHANGED <<mem, history>>

\* The outputs that are not complete yet, of a command that began to write.
Unfinished(p) ==
  IF pc[p] \in {"close_ek", "close"} THEN Outputs(line[p])
  ELSE IF pc[p] = "close_sk" THEN Outputs(line[p]) \ {Out(p, ".ek")}
  ELSE IF pc[p] \in {"open_loc", "close_loc"} THEN Outputs(line[p]) \ {Out(p, "")}
  ELSE {}

Kill(p) ==
  /\ ~ Idle(p)
  /\ "kill" \in Faults
  /\ stale' = stale \cup Unfinished(p)
  /\ Goto(p, "killed")
  /\ Keep /\ UNCHANGED <<mem, disk, history>>

SessionOver == left = <<>> /\ (\A p \in Procs : Idle(p)) /\ UNCHANGED vars

Step(p) ==
  \/ ReadKey(p) \/ ReadInputs(p) \/ ReadTags(p)
  \/ KeygenFails(p) \/ KeygenDies(p) \/ Keygen(p)
  \/ AuthDead(p)
  \/ /\ At(p, {"auth"}, "compute")
     /\ \E stray \in [Strays(p) -> Stray] :
          Auth(p, stray) \/ \E i \in DOMAIN mem[p].messages : AuthStops(p, stray, i)
  \/ EvalFails(p) \/ EvalDies(p) \/ Eval(p)
  \/ MsgEvalFails(p) \/ MsgEval(p)
  \/ VrfyFails(p) \/ VrfyClaims(p)
  \/ CheckDies(p) \/ CheckUnset(p) \/ Check(p) \/ Cleanup(p)
  \/ OpenKeys(p) \/ OpenKeysFails(p) \/ CloseEk(p) \/ CloseSk(p)
  \/ OpenOut(p) \/ OpenOutFails(p) \/ WriteNull(p) \/ FlushOut(p) \/ CloseOut(p)
  \/ OpenLoc(p) \/ OpenLocFails(p) \/ CloseLoc(p)
  \/ Kill(p)

Next ==
  \/ \E p \in Procs : (\E i \in DOMAIN left : Start(p, i)) \/ Step(p)
  \/ SessionOver

Spec == Init /\ [][Next]_vars

-----------------------------------------------------------------------------
(***************************************************************************)
(* Properties                                                              *)
(***************************************************************************)
Places == {"key", "inputs", "tags", "compute", "check", "cleanup", "open", "close_ek",
           "close_sk", "close", "open_loc", "close_loc", "ended", "died", "killed"}

TypeOK ==
  /\ DOMAIN disk = Files /\ stale \subseteq Files
  /\ left \in Seq(Commands) /\ runs \in Nat
  /\ pc \in [Procs -> Places]
  /\ line \in [Procs -> Commands \cup {NULL}]
  /\ said \in [Procs -> Errors \cup {NULL}]
  /\ DOMAIN mem = Procs /\ DOMAIN before = Procs
  /\ \A p \in Procs :
       /\ DOMAIN mem[p] = DOMAIN Blank
       /\ ~ Idle(p) =>
            /\ line[p] # NULL
            /\ line[p].verb \in {"auth", "eval", "vrfy"} => line[p].key # NULL
            /\ line[p].verb \in {"eval", "vrfy"} => line[p].tags # NULL
            /\ line[p].verb = "keygen" /\ line[p].cf = "CF_2" => line[p].d # 0
            /\ pc[p] \in {"open_loc", "close_loc"} \/ mem[p].loc # <<>> =>
                 line[p].cf = "CF_2"

(***************************************************************************)
(* Whatever is run, in whatever order, at once, killed or not, and with    *)
(* whatever keys, tags and messages: "Verification ok" is said only of the *)
(* result of the program on messages that were authenticated before under  *)
(* its labels with the keys of the verifier.                               *)
(***************************************************************************)
Mac == INSTANCE MacService
ImplementsMac == Mac!Spec

(***************************************************************************)
(* And it is said, of a tag that eval makes of the tags of these labels,   *)
(* to whom has the evaluated message, or all the original ones if there    *)
(* are several (one message is taken for the evaluated one).               *)
(***************************************************************************)
OriginalsOf(p) ==
  {ms \in [DOMAIN line[p].labels -> {a[3] : a \in authenticated}] :
     \A i \in DOMAIN ms : <<mem[p].key[1].run, line[p].labels[i], ms[i]>> \in authenticated}

HonestVerifier(p) ==
  LET c      == line[p].arith
      labels == line[p].labels
      key    == mem[p].key
  IN  /\ Len(labels) = c.n_inputs /\ Evaluable(c)
      /\ \E ms \in OriginalsOf(p) :
           LET fresh  == [i \in DOMAIN ms |-> FreshTag(key[1].run, labels[i], ms[i])]
               result == Evaluated(key, c, fresh)
           IN  /\ \/ mem[p].tags = <<result>>
                  \/ key[1].cf = "CF_2" /\ mem[p].tags = <<Compressed(result)>>
               /\ \/ Len(ms) > 1 /\ mem[p].messages = ms
                  \/ mem[p].messages = <<result.y0>>

HonestSessionVerifies ==
  \A p \in Procs :
    /\ pc[p] \in {"cleanup", "ended", "died"} /\ line[p] # NULL
    /\ line[p].verb = "vrfy" /\ mem[p].tags # <<>> /\ mem[p].key # <<>>
    /\ HonestVerifier(p)
    => said[p] = "E_VRFY"

(***************************************************************************)
(* A vrfy that ends without a word, as it does on E_NOERR, has refused a   *)
(* tag of CF_1; it never hides an error, a confirmation, or the refusal of *)
(* a compressed tag.                                                       *)
(***************************************************************************)
SilenceIsRefusal ==
  \A p \in Procs :
    /\ pc[p] = "ended" /\ said[p] = NULL /\ line[p] # NULL
    /\ line[p].verb = "vrfy"
    => /\ mem[p].key # <<>> /\ Len(mem[p].tags) = 1
       /\ mem[p].tags[1].deg # 0
       /\ mem[p].msg # <<>> =>
            ~ Matches(mem[p].key, line[p].arith, line[p].labels,
                      mem[p].msg[1], mem[p].tags[1])

(***************************************************************************)
(* vrfy has a variable for the message without an initial value.  It is    *)
(* verified only when it was set, and freed unset only after an error has  *)
(* been printed, unless the program has no value.                          *)
(***************************************************************************)
UnsetMessageHarmless ==
  \A p \in Procs :
    /\ pc[p] \in {"check", "cleanup"} /\ mem[p].msg = <<>>
    => \/ pc[p] = "cleanup" /\ said[p] # NULL
       \/ ~ Evaluable(line[p].arith)

(***************************************************************************)
(* A command that fails because of what it was given, evaluations in place *)
(* included, leaves the files it would have written as they were when it   *)
(* started.  Two kinds of failure do not: that of opening an output, and   *)
(* an evaluation without a result, which empties OUTFILE.                  *)
(***************************************************************************)
Fails(p) == ~ Idle(p) /\ (said'[p] # said[p] \/ pc'[p] = "died")

FailureKeepsOutputs ==
  [][\A p \in Procs :
       Fails(p) =>
         \/ \A f \in Outputs(line[p]) : disk'[f] = before[p][f]
         \/ "open" \in Faults /\ pc[p] \in {"open", "open_loc"}
         \/ line[p].verb = "eval" /\ ~ Evaluable(line[p].arith)]_vars

(***************************************************************************)
(* A compressed tag and the file beside it: unless the last writer of one  *)
(* of them was stopped, OUTFILE.loc has the tag OUTFILE is the compression *)
(* of, never that of another evaluation.                                   *)
(***************************************************************************)
Written(n) == \A p \in Procs : ~ Idle(p) => <<n, "">> \notin Outputs(line[p])

LocBelongsToOut ==
  \A n \in TagNames :
    LET out == disk[<<n, "">>]
        loc == disk[<<n, ".loc">>]
    IN  /\ {<<n, "">>, <<n, ".loc">>} \cap stale = {} /\ Written(n)
        /\ out # NULL /\ Len(out) = 1
        /\ out[1].deg = 0 /\ out[1].run # 0
        => /\ loc # NULL /\ Len(loc) = 1
           /\ loc[1].deg > 0 /\ out[1] = Compressed(loc[1])

(***************************************************************************)
(* "The line count of both files must be the same", says the README of the *)
(* messages and labels of auth (README.md:18).                             *)
(***************************************************************************)
AuthRefusesMismatch ==
  \A p \in Procs :
    /\ pc[p] = "ended" /\ line[p] # NULL /\ line[p].verb = "auth" /\ said[p] = NULL
    => Len(line[p].labels) = Len(mem[p].messages)
=============================================================================
