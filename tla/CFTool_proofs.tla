---------------------------- MODULE CFTool_proofs ----------------------------
(***************************************************************************)
(* Proofs about CFTool, for any number of processes, any sessions, circuits*)
(* and files: types, what vrfy says and when, failures that leave outputs  *)
(* alone, values and degrees of circuits, what files hold, the file beside *)
(* a compressed tag, and the honest session.                               *)
(***************************************************************************)
EXTENDS CFTool, Recursion

(***************************************************************************)
(* What a step of p does to the rest: nothing to other processes, and      *)
(* nothing to files that are not outputs of its command.                   *)
(***************************************************************************)
Own(p) ==
  /\ line' = line /\ before' = before /\ left' = left
  /\ \A q \in Procs \ {p} :
       pc'[q] = pc[q] /\ mem'[q] = mem[q] /\ said'[q] = said[q]
  /\ \A f \in Files : f \in Outputs(line[p]) \/ disk'[f] = disk[f]

\* What a command writes are files of the disk: CommandsAssumption sorts names.
LEMMA OutputsAreFiles ==
  ASSUME NEW c \in Commands
  PROVE  Outputs(c) \subseteq Files
<1>1. CASE c.verb = "keygen"
  <2>1. \A e \in {".ek", ".sk"} : <<c.out, e>> \in KeyNames \X {".ek", ".sk"}
    BY <1>1, CommandsAssumption
  <2> QED
    BY <1>1, <2>1 DEF Outputs, Files
<1>2. CASE c.verb = "msgeval"
  <2>1. \A e \in {""} : <<c.out, e>> \in MessageNames \X {""}
    BY <1>2, CommandsAssumption
  <2> QED
    BY <1>2, <2>1 DEF Outputs, Files
<1>3. CASE c.verb \notin {"keygen", "msgeval"}
  <2>1. \A e \in {"", ".loc"} : <<c.out, e>> \in TagNames \X {"", ".loc"}
    BY <1>3, CommandsAssumption
  <2> QED
    BY <1>3, <2>1 DEF Outputs, Files
<1> QED
  BY <1>1, <1>2, <1>3

\* Every step of p is of this kind.
LEMMA OwnStep ==
  ASSUME TypeOK, NEW p \in Procs, Step(p)
  PROVE  Own(p)
<1> USE DEF Own, Keep, Goto, Die, Report, Remember, At, files, history, Outputs, TypeOK
<1>1. CASE ReadKey(p) BY <1>1 DEF ReadKey
<1>2. CASE ReadInputs(p) BY <1>2 DEF ReadInputs
<1>3. CASE ReadTags(p) BY <1>3 DEF ReadTags
<1>4. CASE KeygenFails(p) \/ KeygenDies(p) BY <1>4 DEF KeygenFails, KeygenDies
<1>5. CASE Keygen(p) BY <1>5 DEF Keygen
<1>6. CASE AuthDead(p) BY <1>6 DEF AuthDead
<1>7. ASSUME NEW stray, Auth(p, stray) PROVE Own(p)
  BY <1>7 DEF Auth
<1>8. ASSUME NEW stray, NEW i, AuthStops(p, stray, i) PROVE Own(p)
  BY <1>8 DEF AuthStops
<1>9. CASE EvalFails(p) \/ EvalDies(p) BY <1>9 DEF EvalFails, EvalDies
<1>10. CASE Eval(p) BY <1>10 DEF Eval
<1>11. CASE MsgEvalFails(p) BY <1>11 DEF MsgEvalFails
<1>12. CASE MsgEval(p) BY <1>12 DEF MsgEval
<1>13. CASE VrfyFails(p) BY <1>13 DEF VrfyFails
<1>14. CASE VrfyClaims(p) BY <1>14 DEF VrfyClaims
<1>15. CASE CheckDies(p) BY <1>15 DEF CheckDies
<1>16. CASE CheckUnset(p) BY <1>16 DEF CheckUnset
<1>17. CASE Check(p) BY <1>17 DEF Check
<1>18. CASE Cleanup(p) BY <1>18 DEF Cleanup
<1> USE DEF Write, Complete, Out
<1>19. CASE OpenKeys(p) BY <1>19 DEF OpenKeys
<1>20. CASE OpenKeysFails(p) BY <1>20 DEF OpenKeysFails
<1>21. CASE CloseEk(p) \/ CloseSk(p) BY <1>21 DEF CloseEk, CloseSk
<1>22. CASE OpenOut(p) BY <1>22 DEF OpenOut
<1>23. CASE OpenOutFails(p) \/ WriteNull(p) BY <1>23 DEF OpenOutFails, WriteNull
<1>24. CASE FlushOut(p) BY <1>24 DEF FlushOut
<1>25. CASE CloseOut(p) BY <1>25 DEF CloseOut
<1>26. CASE OpenLoc(p) \/ OpenLocFails(p) \/ CloseLoc(p)
  BY <1>26 DEF OpenLoc, OpenLocFails, CloseLoc, Idle
<1>27. CASE Kill(p) BY <1>27 DEF Kill
<1> HIDE DEF Own, Keep, Goto, Die, Report, Remember, At, files, history, Outputs, TypeOK,
            Write, Complete, Out
<1>28. CASE /\ At(p, {"auth"}, "compute")
            /\ \E stray \in [Strays(p) -> Stray] :
                 \/ Auth(p, stray)
                 \/ \E i \in DOMAIN mem[p].messages : AuthStops(p, stray, i)
  BY <1>7, <1>8, <1>28
<1> QED
  BY <1>1, <1>2, <1>3, <1>4, <1>5, <1>6, <1>7, <1>8, <1>9, <1>10, <1>11, <1>12, <1>13,
     <1>14, <1>15, <1>16, <1>17, <1>18, <1>19, <1>20, <1>21, <1>22, <1>23, <1>24,
     <1>25, <1>26, <1>27, <1>28 DEF Step

-----------------------------------------------------------------------------
(***************************************************************************)
(* Types                                                                   *)
(***************************************************************************)
\* At first no process runs, and the types are right.
LEMMA InitType == Init => TypeOK
BY CommandsAssumption DEF Init, TypeOK, Blank, Idle, Places

\* A command line that passes the parsing of arguments has what its verb reads.
LEMMA StartType ==
  ASSUME TypeOK, NEW p \in Procs, NEW i \in DOMAIN left, Start(p, i)
  PROVE  TypeOK'
<1>1. left[i] \in Commands /\ left' \in Seq(Commands)
  BY DEF TypeOK, Start, RemoveAt
<1>2. FirstStep(left[i]) \in Places
  BY DEF FirstStep, Places
<1>3. pc' \in [Procs -> Places] /\ said' \in [Procs -> Errors \cup {NULL}]
  BY <1>2 DEF TypeOK, Start, Errors, Places
<1>4. ASSUME NEW q \in Procs, ~ Idle(q)'
      PROVE  /\ line'[q] # NULL
             /\ line'[q].verb \in {"auth", "eval", "vrfy"} => line'[q].key # NULL
             /\ line'[q].verb \in {"eval", "vrfy"} => line'[q].tags # NULL
             /\ line'[q].verb = "keygen" /\ line'[q].cf = "CF_2" => line'[q].d # 0
             /\ pc'[q] \in {"open_loc", "close_loc"} \/ mem'[q].loc # <<>> =>
                  line'[q].cf = "CF_2"
  <2>1. CASE q = p
    <3>1. line'[p] = left[i] /\ mem'[p] = Blank
      BY DEF Start, TypeOK
    <3>2. ~ UsageError(left[i]) /\ pc'[p] = FirstStep(left[i])
      BY <1>4, <2>1 DEF Start, TypeOK, Idle
    <3> QED
      BY <1>1, <2>1, <3>1, <3>2, CommandsAssumption
         DEF UsageError, Required, FirstStep, Blank
  <2>2. CASE q # p
    BY <1>4, <2>2 DEF Start, TypeOK, Idle
  <2> QED
    BY <2>1, <2>2
<1> QED
  BY <1>1, <1>3, <1>4 DEF TypeOK, Start, files, Blank

\* The part of the types that a step of p can disturb.
Local(p) ==
  /\ DOMAIN disk' = Files /\ stale' \subseteq Files /\ runs' \in Nat
  /\ pc' \in [Procs -> Places]
  /\ said' \in [Procs -> Errors \cup {NULL}]
  /\ DOMAIN mem' = Procs /\ DOMAIN mem'[p] = DOMAIN Blank
  /\ ~ Idle(p)
  /\ pc'[p] \in {"open_loc", "close_loc"} \/ mem'[p].loc # <<>> => line[p].cf = "CF_2"

\* Every step of p keeps its own part of the types, action by action.
LEMMA LocalStep ==
  ASSUME TypeOK, NEW p \in Procs, Step(p)
  PROVE  Local(p)
<1> USE DEF Local, Keep, Goto, Die, Report, Remember, At, files, history, TypeOK, Idle,
            Places, Errors, Blank
<1>1. CASE ReadKey(p) BY <1>1 DEF ReadKey, AfterKey
<1>2. CASE ReadInputs(p) BY <1>2 DEF ReadInputs, InputError, AfterInputs
<1>3. CASE ReadTags(p)
  <2>1. CASE disk[<<line[p].tags, "">>] = NULL
    BY <1>3, <2>1 DEF ReadTags
  <2>2. CASE disk[<<line[p].tags, "">>] # NULL
    <3>1. /\ mem' = [mem EXCEPT ![p]["tags"] = disk[<<line[p].tags, "">>]]
          /\ pc' = [pc EXCEPT ![p] = "compute"] /\ pc[p] = "tags"
      BY <1>3, <2>2 DEF ReadTags
    <3> QED
      BY <1>3, <3>1 DEF ReadTags
  <2> QED
    BY <2>1, <2>2
<1>4. CASE KeygenFails(p) \/ KeygenDies(p) BY <1>4 DEF KeygenFails, KeygenDies
<1>5. CASE Keygen(p) BY <1>5 DEF Keygen
<1>6. CASE AuthDead(p) BY <1>6 DEF AuthDead
<1>7. ASSUME NEW stray, Auth(p, stray) PROVE Local(p)
  BY <1>7 DEF Auth
<1>8. ASSUME NEW stray, NEW i, AuthStops(p, stray, i) PROVE Local(p)
  BY <1>8 DEF AuthStops, AuthError
<1>9. CASE EvalFails(p) \/ EvalDies(p)
  BY <1>9 DEF EvalFails, EvalDies, EvalErrorOf, EvalError
<1>10. CASE Eval(p) BY <1>10 DEF Eval
<1>11. CASE MsgEvalFails(p) BY <1>11 DEF MsgEvalFails
<1>12. CASE MsgEval(p) BY <1>12 DEF MsgEval
<1>13. CASE VrfyFails(p) BY <1>13 DEF VrfyFails, ClaimError
<1>14. CASE VrfyClaims(p) BY <1>14 DEF VrfyClaims
<1>15. CASE CheckDies(p) BY <1>15 DEF CheckDies
<1>16. CASE CheckUnset(p) BY <1>16 DEF CheckUnset
<1>17. CASE Check(p) BY <1>17 DEF Check, VerdictOf, Verdict
<1>18. CASE Cleanup(p) BY <1>18 DEF Cleanup
<1> USE DEF Write, Complete, Out
<1>19. CASE OpenKeys(p) BY <1>19 DEF OpenKeys
<1>20. CASE OpenKeysFails(p)
  BY <1>20, OutputsAreFiles DEF OpenKeysFails
<1>21. CASE CloseEk(p) \/ CloseSk(p) BY <1>21 DEF CloseEk, CloseSk
<1>22. CASE OpenOut(p) BY <1>22 DEF OpenOut
<1>23. CASE OpenOutFails(p) \/ WriteNull(p) BY <1>23 DEF OpenOutFails, WriteNull
<1>24. CASE FlushOut(p) BY <1>24 DEF FlushOut
<1>25. CASE CloseOut(p) BY <1>25 DEF CloseOut
<1>26. CASE OpenLoc(p) \/ CloseLoc(p)
  BY <1>26 DEF OpenLoc, CloseLoc
<1>27. CASE OpenLocFails(p)
  BY <1>27, OutputsAreFiles DEF OpenLocFails, Outputs
<1>28. CASE Kill(p)
  <2>1. line[p] \in Commands
    BY <1>28 DEF Kill
  <2>2. Outputs(line[p]) \subseteq Files
    BY <2>1, OutputsAreFiles
  <2>3. Unfinished(p) \subseteq Outputs(line[p])
    BY DEF Unfinished
  <2> QED
    BY <1>28, <2>2, <2>3 DEF Kill
<1> HIDE DEF Local, Keep, Goto, Die, Report, Remember, At, files, history, TypeOK, Idle,
             Places, Errors, Blank, Write, Complete, Out
<1>29. CASE /\ At(p, {"auth"}, "compute")
            /\ \E stray \in [Strays(p) -> Stray] :
                 \/ Auth(p, stray)
                 \/ \E i \in DOMAIN mem[p].messages : AuthStops(p, stray, i)
  BY <1>7, <1>8, <1>29
<1> QED
  BY <1>1, <1>2, <1>3, <1>4, <1>5, <1>6, <1>9, <1>10, <1>11, <1>12, <1>13, <1>14,
     <1>15, <1>16, <1>17, <1>18, <1>19, <1>20, <1>21, <1>22, <1>23, <1>24, <1>25,
     <1>26, <1>27, <1>28, <1>29 DEF Step

\* The rest is left alone by OwnStep.
LEMMA StepType ==
  ASSUME TypeOK, NEW p \in Procs, Step(p)
  PROVE  TypeOK'
<1>1. Own(p) /\ Local(p)
  BY OwnStep, LocalStep
<1> QED
  BY <1>1 DEF Own, Local, TypeOK, Idle

(***************************************************************************)
(* The type invariant, for every set of processes, sessions and files.     *)
(***************************************************************************)
THEOREM TypeCorrect == Spec => []TypeOK
<1>1. TypeOK /\ [Next]_vars => TypeOK'
  <2>1. ASSUME TypeOK, SessionOver PROVE TypeOK'
    BY <2>1 DEF SessionOver, vars, files, history, TypeOK, Idle
  <2>2. ASSUME TypeOK, UNCHANGED vars PROVE TypeOK'
    BY <2>2 DEF vars, files, history, TypeOK, Idle
  <2> QED
    BY <2>1, <2>2, StartType, StepType DEF Next
<1> QED
  BY <1>1, InitType, PTL DEF Spec

-----------------------------------------------------------------------------
(***************************************************************************)
(* The inductive invariant: nobody else writes the outputs of a process,   *)
(* they are as they were until it opens them, an evaluation with a value   *)
(* has a result to write, and what vrfy knows at each of its steps.        *)
(***************************************************************************)
Early == {"key", "inputs", "tags", "compute", "check", "cleanup", "open"}

Exclusive ==
  \A p, q \in Procs :
    p # q /\ ~ Idle(p) /\ ~ Idle(q) => Outputs(line[p]) \cap Outputs(line[q]) = {}

Untouched(p) ==
  pc[p] \in Early => \A f \in Outputs(line[p]) : disk[f] = before[p][f]

HasResult(p) ==
  pc[p] \in {"open", "close"} /\ line[p].verb = "eval" /\ Evaluable(line[p].arith)
    => mem[p].out # <<>>

Refused(p) ==
  /\ mem[p].key # <<>> /\ Len(mem[p].tags) = 1
  /\ mem[p].tags[1].deg # 0
  /\ mem[p].msg # <<>> =>
       ~ Matches(mem[p].key, line[p].arith, line[p].labels,
                 mem[p].msg[1], mem[p].tags[1])

Unset(p) == mem[p].msg = <<>> /\ Evaluable(line[p].arith)

Settled(p) ==
  /\ pc[p] = "check" => line[p].verb = "vrfy" /\ Len(mem[p].tags) = 1 /\ ~ Unset(p)
  /\ pc[p] = "cleanup" =>
       /\ line[p].verb = "vrfy"
       /\ said[p] = NULL => Refused(p) /\ ~ Unset(p)
  /\ pc[p] = "ended" /\ line[p] # NULL /\ said[p] = NULL =>
       line[p].verb # "vrfy" \/ Refused(p)

IInv ==
  /\ TypeOK /\ Exclusive
  /\ \A p \in Procs : Untouched(p) /\ HasResult(p) /\ Settled(p)

\* Initially nothing runs, so nothing is claimed.
LEMMA InvInit == Init => IInv
BY InitType DEF Init, IInv, Exclusive, Untouched, HasResult, Settled, Idle, Early

(***************************************************************************)
(* Starting a command: its outputs are those of no running one, and are    *)
(* remembered.                                                             *)
(***************************************************************************)
LEMMA InvStart ==
  ASSUME IInv, NEW p \in Procs, NEW i \in DOMAIN left, Start(p, i)
  PROVE  IInv'
<1> USE DEF IInv
<1>1. TypeOK'
  BY StartType
<1>2. /\ Idle(p) /\ disk' = disk
      /\ \A q \in Procs \ {p} : /\ line'[q] = line[q] /\ pc'[q] = pc[q] /\ mem'[q] = mem[q]
                               /\ said'[q] = said[q] /\ before'[q] = before[q]
      /\ line'[p] = left[i]
      /\ before'[p] = [f \in Outputs(left[i]) |-> disk[f]]
      /\ \/ pc'[p] = "ended" /\ said'[p] = "usage"
         \/ pc'[p] \in {"key", "inputs", "compute"}
      /\ \A q \in Procs : ~ Idle(q) => Outputs(line[q]) \cap Outputs(left[i]) = {}
  BY DEF Start, TypeOK, files, FirstStep
<1>3. Exclusive'
  BY <1>2 DEF Exclusive, Idle
<1>4. ASSUME NEW q \in Procs PROVE (Untouched(q) /\ HasResult(q) /\ Settled(q))'
  <2>1. CASE q = p
    BY <1>2, <2>1, ErrorsAssumption DEF Untouched, HasResult, Settled, Errors
  <2>2. CASE q # p
    BY <1>2, <2>2 DEF Untouched, HasResult, Settled, Refused, Unset
  <2> QED
    BY <2>1, <2>2
<1> QED
  BY <1>1, <1>3, <1>4

\* A sequence of length one is not the empty one.
LEMMA SingletonHasElement ==
  ASSUME NEW s, Len(s) = 1
  PROVE  s # <<>>
<1>1. Len(<<>>) = 0
  OBVIOUS
<1> QED
  BY <1>1

(***************************************************************************)
(* A step of p, action by action: who stays before the opening of its      *)
(* outputs has written nothing, and what p itself has to keep.             *)
(***************************************************************************)
Kept(p) ==
  /\ pc'[p] \in Early => pc[p] \in Early /\ disk' = disk
  /\ HasResult(p)' /\ Settled(p)'

\* Every step of p keeps them.
LEMMA KeptStep ==
  ASSUME IInv, NEW p \in Procs, Step(p)
  PROVE  Kept(p)
<1>0. TypeOK /\ HasResult(p) /\ Settled(p)
  BY DEF IInv
<1> USE <1>0, ErrorsAssumption
    DEF Kept, HasResult, Settled, Unset, Keep, Goto, Die, Report, Remember, At, files,
        history, TypeOK, Early, Errors, Blank
<1>1. CASE ReadKey(p) BY <1>1 DEF ReadKey, AfterKey
<1>2. CASE ReadInputs(p) BY <1>2 DEF ReadInputs, InputError, AfterInputs
<1>3. CASE ReadTags(p) BY <1>3 DEF ReadTags
<1>4. CASE KeygenFails(p) \/ KeygenDies(p) BY <1>4 DEF KeygenFails, KeygenDies
<1>5. CASE Keygen(p) BY <1>5 DEF Keygen
<1>6. CASE AuthDead(p) BY <1>6 DEF AuthDead
<1>7. ASSUME NEW stray, Auth(p, stray) PROVE Kept(p)
  BY <1>7 DEF Auth
<1>8. ASSUME NEW stray, NEW i, AuthStops(p, stray, i) PROVE Kept(p)
  BY <1>8 DEF AuthStops, AuthError
<1>9. CASE EvalFails(p) \/ EvalDies(p)
  BY <1>9 DEF EvalFails, EvalDies, EvalErrorOf, EvalError
<1>10. CASE Eval(p) BY <1>10 DEF Eval, EvalResult
<1>11. CASE MsgEvalFails(p) BY <1>11 DEF MsgEvalFails
<1>12. CASE MsgEval(p) BY <1>12 DEF MsgEval
<1>13. CASE VrfyFails(p) BY <1>13 DEF VrfyFails, ClaimError
<1>14. CASE VrfyClaims(p)
  <2>1. /\ ClaimError(p) = "E_NOERR" /\ pc[p] = "compute" /\ line[p].verb = "vrfy"
        /\ pc' = [pc EXCEPT ![p] = "check"]
        /\ mem' = [mem EXCEPT ![p]["msg"] = ClaimedMessage(p)]
        /\ UNCHANGED <<line, disk, said>>
    BY <1>14 DEF VrfyClaims
  <2>2. Len(mem[p].tags) = 1 /\ (ClaimedMessage(p) # <<>> \/ ~ Evaluable(line[p].arith))
    <3>1. Len(mem[p].tags) = 1
      BY <2>1 DEF ClaimError
    <3>2. ClaimedMessage(p) # <<>> \/ ~ Evaluable(line[p].arith)
      <4>1. CASE Len(mem[p].messages) = 1
        <5>1. mem[p].messages # <<>>
          BY <4>1, SingletonHasElement
        <5> QED
          BY <4>1, <5>1 DEF ClaimedMessage
      <4>2. CASE Len(mem[p].messages) # 1
        BY <4>2 DEF ClaimedMessage
      <4> QED
        BY <4>1, <4>2
    <3> QED
      BY <3>1, <3>2
  <2>3. mem'[p].tags = mem[p].tags /\ mem'[p].msg = ClaimedMessage(p)
    BY <2>1
  <2> QED
    BY <2>1, <2>2, <2>3
<1>15. CASE CheckDies(p) BY <1>15 DEF CheckDies
<1>16. CASE CheckUnset(p) BY <1>16 DEF CheckUnset, Refused
<1>17. CASE Check(p) BY <1>17 DEF Check, VerdictOf, Verdict, Refused, VrfyDies
<1>18. CASE Cleanup(p) BY <1>18 DEF Cleanup, Refused
<1> USE DEF Write, Complete, Out
<1>19. CASE OpenKeys(p) BY <1>19 DEF OpenKeys
<1>20. CASE OpenKeysFails(p) BY <1>20 DEF OpenKeysFails
<1>21. CASE CloseEk(p) \/ CloseSk(p) BY <1>21 DEF CloseEk, CloseSk
<1>22. CASE OpenOut(p) BY <1>22 DEF OpenOut
<1>23. CASE OpenOutFails(p) \/ WriteNull(p) BY <1>23 DEF OpenOutFails, WriteNull
<1>24. CASE FlushOut(p) BY <1>24 DEF FlushOut
<1>25. CASE CloseOut(p) BY <1>25 DEF CloseOut
<1>26. CASE OpenLoc(p) \/ CloseLoc(p) BY <1>26 DEF OpenLoc, CloseLoc
<1>27. CASE OpenLocFails(p) BY <1>27 DEF OpenLocFails
<1>28. CASE Kill(p) BY <1>28 DEF Kill
<1> HIDE DEF Kept, HasResult, Settled, Unset, Keep, Goto, Die, Report, Remember, At,
             files, history, TypeOK, Early, Errors, Blank, Write, Complete, Out
<1>29. CASE /\ At(p, {"auth"}, "compute")
            /\ \E stray \in [Strays(p) -> Stray] :
                 \/ Auth(p, stray)
                 \/ \E i \in DOMAIN mem[p].messages : AuthStops(p, stray, i)
  BY <1>7, <1>8, <1>29
<1> QED
  BY <1>1, <1>2, <1>3, <1>4, <1>5, <1>6, <1>9, <1>10, <1>11, <1>12, <1>13, <1>14,
     <1>15, <1>16, <1>17, <1>18, <1>19, <1>20, <1>21, <1>22, <1>23, <1>24, <1>25,
     <1>26, <1>27, <1>28, <1>29 DEF Step

\* A step of p keeps the invariant: other processes have other outputs.
LEMMA InvStep ==
  ASSUME IInv, NEW p \in Procs, Step(p)
  PROVE  IInv'
<1>1. TypeOK /\ TypeOK' /\ Own(p) /\ Kept(p) /\ ~ Idle(p)
  BY StepType, OwnStep, KeptStep, LocalStep DEF IInv, Local
<1>2. \A q \in Procs : ~ Idle(q)' => ~ Idle(q)
  BY <1>1 DEF Own, Idle
<1> line' = line /\ before' = before
  BY <1>1 DEF Own
<1>3. Exclusive'
  BY <1>2 DEF IInv, Exclusive
<1>4. ASSUME NEW q \in Procs PROVE Untouched(q)'
  <2>1. CASE q = p
    BY <1>1, <2>1 DEF Kept, IInv, Untouched
  <2>2. CASE q # p
    <3>1. SUFFICES ASSUME pc[q] \in Early, NEW f \in Outputs(line[q])
                   PROVE  disk'[f] = disk[f]
      BY <1>1, <2>2 DEF Own, IInv, Untouched
    <3>2. ~ Idle(q)
      BY <3>1 DEF Idle, Early
    <3>3. f \in Files /\ f \notin Outputs(line[p])
      <4>1. line[q] \in Commands
        BY <1>1, <3>2 DEF TypeOK
      <4> QED
        BY <1>1, <2>2, <3>1, <3>2, <4>1, OutputsAreFiles DEF IInv, Exclusive
    <3> QED
      BY <1>1, <3>3 DEF Own
  <2> QED
    BY <2>1, <2>2
<1>5. ASSUME NEW q \in Procs PROVE (HasResult(q) /\ Settled(q))'
  <2>1. CASE q = p
    BY <1>1, <2>1 DEF Kept
  <2>2. CASE q # p
    BY <1>1, <2>2 DEF Own, IInv, HasResult, Settled, Refused, Unset
  <2> QED
    BY <2>1, <2>2
<1> QED
  BY <1>1, <1>3, <1>4, <1>5 DEF IInv

\* Nothing happens when a session is over, or in a stuttering step.
LEMMA InvStutter ==
  ASSUME IInv, UNCHANGED vars
  PROVE  IInv'
<1>1. UNCHANGED <<disk, runs, left, pc, line, mem, said, before, stale>>
  BY DEF vars, files
<1>2. TypeOK' /\ Exclusive'
  BY <1>1 DEF IInv, TypeOK, Exclusive, Idle
<1>3. ASSUME NEW p \in Procs PROVE (Untouched(p) /\ HasResult(p) /\ Settled(p))'
  BY <1>1 DEF IInv, Untouched, HasResult, Settled, Refused, Unset
<1> QED
  BY <1>2, <1>3 DEF IInv

\* Every step of the specification keeps the invariant.
LEMMA InvNext == IInv /\ [Next]_vars => IInv'
BY InvStart, InvStep, InvStutter DEF Next, SessionOver

(***************************************************************************)
(* The invariant holds of any number of commands over any files.           *)
(***************************************************************************)
THEOREM Inductive == Spec => []IInv
BY InvInit, InvNext, PTL DEF Spec

(***************************************************************************)
(* The message vrfy never set (main.c:342) is not verified, and freed only *)
(* after an error, whatever circuit with a value, files and lines it gets. *)
(***************************************************************************)
THEOREM UnsetHarmless == Spec => []UnsetMessageHarmless
<1>1. IInv => UnsetMessageHarmless
  BY DEF IInv, Settled, Unset, UnsetMessageHarmless
<1> QED
  BY <1>1, Inductive, PTL

(***************************************************************************)
(* A vrfy that ends without a word has refused a tag of CF_1 (cf.c:167).   *)
(***************************************************************************)
THEOREM SilentRefusal == Spec => []SilenceIsRefusal
<1>1. IInv => SilenceIsRefusal
  BY DEF IInv, Settled, Refused, SilenceIsRefusal
<1> QED
  BY <1>1, Inductive, PTL

-----------------------------------------------------------------------------
(***************************************************************************)
(* Failures.  A step in which p fails, action by action: p has written     *)
(* nothing yet, or it is one of the failures that may disturb the outputs. *)
(***************************************************************************)
FailsEarly(p) ==
  Fails(p) =>
    \/ pc[p] \in Early /\ disk' = disk
    \/ "open" \in Faults /\ pc[p] \in {"open", "open_loc"}
    \/ line[p].verb = "eval" /\ ~ Evaluable(line[p].arith)

\* Every step of p is such a step.
LEMMA FailsEarlyStep ==
  ASSUME IInv, NEW p \in Procs, Step(p)
  PROVE  FailsEarly(p)
<1>0. TypeOK /\ HasResult(p)
  BY DEF IInv
<1> USE <1>0
    DEF FailsEarly, Fails, HasResult, Keep, Goto, Die, Report, Remember, At, files,
        TypeOK, Early
<1>1. CASE ReadKey(p) BY <1>1 DEF ReadKey
<1>2. CASE ReadInputs(p) BY <1>2 DEF ReadInputs
<1>3. CASE ReadTags(p) BY <1>3 DEF ReadTags
<1>4. CASE KeygenFails(p) \/ KeygenDies(p) BY <1>4 DEF KeygenFails, KeygenDies
<1>5. CASE Keygen(p) BY <1>5 DEF Keygen
<1>6. CASE AuthDead(p) BY <1>6 DEF AuthDead
<1>7. ASSUME NEW stray, Auth(p, stray) PROVE FailsEarly(p)
  BY <1>7 DEF Auth
<1>8. ASSUME NEW stray, NEW i, AuthStops(p, stray, i) PROVE FailsEarly(p)
  BY <1>8 DEF AuthStops
<1>9. CASE EvalFails(p) \/ EvalDies(p) BY <1>9 DEF EvalFails, EvalDies
<1>10. CASE Eval(p) BY <1>10 DEF Eval
<1>11. CASE MsgEvalFails(p) \/ MsgEval(p) BY <1>11 DEF MsgEvalFails, MsgEval
<1>12. CASE VrfyFails(p) \/ VrfyClaims(p) BY <1>12 DEF VrfyFails, VrfyClaims
<1>13. CASE CheckDies(p) \/ CheckUnset(p) BY <1>13 DEF CheckDies, CheckUnset
<1>14. CASE Check(p) BY <1>14 DEF Check
<1>15. CASE Cleanup(p) BY <1>15 DEF Cleanup
<1>16. CASE OpenKeys(p) \/ OpenKeysFails(p) BY <1>16 DEF OpenKeys, OpenKeysFails
<1>17. CASE CloseEk(p) \/ CloseSk(p) BY <1>17 DEF CloseEk, CloseSk
<1>18. CASE OpenOut(p) \/ OpenOutFails(p) BY <1>18 DEF OpenOut, OpenOutFails
<1>19. CASE WriteNull(p) BY <1>19 DEF WriteNull
<1>20. CASE FlushOut(p) BY <1>20 DEF FlushOut
<1>21. CASE CloseOut(p) BY <1>21 DEF CloseOut
<1>22. CASE OpenLoc(p) \/ OpenLocFails(p) \/ CloseLoc(p)
  BY <1>22 DEF OpenLoc, OpenLocFails, CloseLoc
<1>23. CASE Kill(p) BY <1>23 DEF Kill
<1> HIDE DEF FailsEarly, Fails, HasResult, Keep, Goto, Die, Report, Remember, At, files,
             TypeOK, Early
<1>24. CASE /\ At(p, {"auth"}, "compute")
            /\ \E stray \in [Strays(p) -> Stray] :
                 \/ Auth(p, stray)
                 \/ \E i \in DOMAIN mem[p].messages : AuthStops(p, stray, i)
  BY <1>7, <1>8, <1>24
<1> QED
  BY <1>1, <1>2, <1>3, <1>4, <1>5, <1>6, <1>9, <1>10, <1>11, <1>12, <1>13, <1>14,
     <1>15, <1>16, <1>17, <1>18, <1>19, <1>20, <1>21, <1>22, <1>23, <1>24 DEF Step

\* The conclusion of FailureKeepsOutputs for one process.
Keeps(p) ==
  Fails(p) =>
    \/ \A f \in Outputs(line[p]) : disk'[f] = before[p][f]
    \/ "open" \in Faults /\ pc[p] \in {"open", "open_loc"}
    \/ line[p].verb = "eval" /\ ~ Evaluable(line[p].arith)

\* Only the process that takes a step can fail in it.
LEMMA KeepsNext ==
  ASSUME IInv, [Next]_vars, NEW q \in Procs
  PROVE  Keeps(q)
<1>1. ASSUME NEW p \in Procs, Step(p) PROVE Keeps(q)
  <2>1. CASE q = p
    BY <1>1, <2>1, FailsEarlyStep DEF FailsEarly, Keeps, IInv, Untouched
  <2>2. CASE q # p
    <3>1. pc'[q] = pc[q] /\ said'[q] = said[q]
      BY <1>1, <2>2, OwnStep DEF Own, IInv
    <3> QED
      BY <3>1 DEF Keeps, Fails, Idle
  <2> QED
    BY <2>1, <2>2
<1>2. ASSUME NEW p \in Procs, NEW i \in DOMAIN left, Start(p, i) PROVE Keeps(q)
  <2>1. CASE q = p
    BY <1>2, <2>1 DEF Keeps, Fails, Start
  <2>2. CASE q # p
    <3>1. pc'[q] = pc[q] /\ said'[q] = said[q]
      BY <1>2, <2>2 DEF Start, IInv, TypeOK
    <3> QED
      BY <3>1 DEF Keeps, Fails, Idle
  <2> QED
    BY <2>1, <2>2
<1>3. CASE SessionOver \/ UNCHANGED vars
  BY <1>3 DEF SessionOver, vars, Keeps, Fails, Idle
<1> QED
  BY <1>1, <1>2, <1>3 DEF Next

(***************************************************************************)
(* A command that fails because of what it was given leaves its outputs as *)
(* they were when it started, whatever runs beside it: the commands        *)
(* compute before they open a file, and nobody else writes that file.      *)
(***************************************************************************)
THEOREM FailuresKeep == Spec => FailureKeepsOutputs
<1>1. IInv /\ [Next]_vars => \A p \in Procs : Keeps(p)
  BY KeepsNext
<1>2. IInv /\ [Next]_vars =>
        [\A p \in Procs :
           Fails(p) =>
             \/ \A f \in Outputs(line[p]) : disk'[f] = before[p][f]
             \/ "open" \in Faults /\ pc[p] \in {"open", "open_loc"}
             \/ line[p].verb = "eval" /\ ~ Evaluable(line[p].arith)]_vars
  BY <1>1 DEF Keeps
<1> QED
  BY <1>2, Inductive, PTL DEF Spec, FailureKeepsOutputs

-----------------------------------------------------------------------------
(***************************************************************************)
(* The values and the degree of a circuit without cycles                   *)
(***************************************************************************)
\* The value of a gate from those of its operands.
ValueStep(c, inputs, v, k) ==
  IF k < c.n_inputs THEN inputs[k + 1]
  ELSE IF c.gates[k].type = "ADD" THEN v[c.gates[k].input_ids[1]] + v[c.gates[k].input_ids[2]]
  ELSE IF c.gates[k].type = "MUL" THEN v[c.gates[k].input_ids[1]] * v[c.gates[k].input_ids[2]]
  ELSE v[c.gates[k].input_ids[1]] * c.gates[k].const_val

\* arith_circ_eval of a circuit with a value returns a number.
LEMMA ValueIsNumber ==
  ASSUME NEW c, IsCircuit(c), Acyclic(c), NEW inputs, \A i \in 1 .. c.n_inputs : inputs[i] \in Int
  PROVE  Value(c, inputs) \in Int
<1>1. PICK G : G = Gates(c)
  OBVIOUS
<1>2. /\ WellFormed(c)
      /\ \A g \in G : c.gates[g].type = "CONSTMUL" => c.gates[g].const_val \in Int
      /\ \A g \in G : g < c.n_inputs => inputs[g + 1] \in Int
  <2>1. WellFormed(c) /\ \A g \in G : c.gates[g].type = "CONSTMUL" => c.gates[g].const_val \in Int
    BY <1>1 DEF IsCircuit
  <2>2. ASSUME NEW g \in G, g < c.n_inputs PROVE inputs[g + 1] \in Int
    <3>1. g + 1 \in 1 .. c.n_inputs
      BY <1>1, <2>1, <2>2, GatesAre
    <3> QED
      BY <3>1
  <2> QED
    BY <2>1, <2>2
\* A step from numbers gives a number.
<1>3. ASSUME NEW g \in G, NEW v, \A k \in Reads(c, g) : v[k] \in Int
      PROVE  ValueStep(c, inputs, v, g) \in Int
  <2>1. CASE g < c.n_inputs
    BY <1>2, <2>1 DEF ValueStep
  <2>2. CASE ~ (g < c.n_inputs)
    <3>1. PICK t, a, b, x : /\ t = c.gates[g].type /\ a = v[c.gates[g].input_ids[1]]
                            /\ b = v[c.gates[g].input_ids[2]] /\ x = c.gates[g].const_val
      OBVIOUS
    <3>2. /\ t \in {"ADD", "MUL", "CONSTMUL"} /\ a \in Int
          /\ t \in {"ADD", "MUL"} => b \in Int
          /\ t = "CONSTMUL" => x \in Int
      BY <1>1, <1>2, <1>3, <2>2, <3>1, GatesAre
    <3>3. ValueStep(c, inputs, v, g) =
            IF t = "ADD" THEN a + b ELSE IF t = "MUL" THEN a * b ELSE a * x
      BY <2>2, <3>1 DEF ValueStep
    <3> QED
      BY ONLY <3>2, <3>3
  <2> QED
    BY <2>1, <2>2
<1>4. PICK F : F = [g \in G |-> [v \in [G -> Int] |-> ValueStep(c, inputs, v, g)]]
  OBVIOUS
<1>5. F \in Equations(G, Int)
  <2>1. \A g \in G, v \in [G -> Int] : ValueStep(c, inputs, v, g) \in Int
    <3> TAKE g \in G, v \in [G -> Int]
    <3>1. \A k \in Reads(c, g) : v[k] \in Int
      BY <1>1, <1>2, GatesAre
    <3> QED
      BY <1>3, <3>1
  <2> QED
    BY <1>4, <2>1 DEF Equations
<1>6. ASSUME NEW g \in G, NEW u \in [G -> Int], NEW v \in [G -> Int],
             \A k \in Reads(c, g) : u[k] = v[k]
      PROVE  F[g][u] = F[g][v]
  <2>1. ValueStep(c, inputs, u, g) = ValueStep(c, inputs, v, g)
    <3>1. CASE g < c.n_inputs
      BY <3>1 DEF ValueStep
    <3>2. CASE ~ (g < c.n_inputs)
      <4>1. /\ c.gates[g].type \in {"ADD", "MUL", "CONSTMUL"}
            /\ c.gates[g].input_ids[1] \in Reads(c, g)
            /\ c.gates[g].type \in {"ADD", "MUL"} => c.gates[g].input_ids[2] \in Reads(c, g)
        BY <1>1, <1>2, <3>2, GatesAre
      <4> QED
        BY <1>6, <4>1 DEF ValueStep
    <3> QED
      BY <3>1, <3>2
  <2> QED
    BY <1>4, <1>6, <2>1
<1>7. PICK f : Solves(f, G, Int, F)
  <2>1. WellFormed(c) /\ Acyclic(c) /\ 0 \in Int
    BY <1>2
  <2>2. F \in Equations(Gates(c), Int)
    BY <1>1, <1>5
  <2>3. \A g \in Gates(c) : \A u, v \in [Gates(c) -> Int] :
           (\A k \in Reads(c, g) : u[k] = v[k]) => F[g][u] = F[g][v]
    BY <1>1, <1>6
  <2>4. \E v : Solves(v, Gates(c), Int, F)
    BY ONLY <2>1, <2>2, <2>3, GatesSolved
  <2> QED
    BY <1>1, <2>4
<1>8. f = [k \in G |-> ValueStep(c, inputs, f, k)]
  BY <1>4, <1>7 DEF Solves
<1> DEFINE value[k \in Gates(c)] ==
        LET gate == c.gates[k]
            in(j) == value[gate.input_ids[j]]
        IN  IF k < c.n_inputs THEN inputs[k + 1]
            ELSE IF gate.type = "ADD" THEN in(1) + in(2)
            ELSE IF gate.type = "MUL" THEN in(1) * in(2)
            ELSE in(1) * gate.const_val
<1>9. Value(c, inputs) = value[OutputGate(c)]
  BY Zenon DEF Value
<1>10. value = [k \in Gates(c) |-> ValueStep(c, inputs, value, k)]
  BY <1>1, <1>8 DEF ValueStep
<1>11. \E h : /\ h = [k \in Gates(c) |-> ValueStep(c, inputs, h, k)]
              /\ Value(c, inputs) = h[OutputGate(c)]
  BY <1>9, <1>10, Zenon
<1>12. PICK h : /\ h = [k \in Gates(c) |-> ValueStep(c, inputs, h, k)]
                /\ Value(c, inputs) = h[OutputGate(c)]
  BY <1>11, Zenon
<1> HIDE DEF value
<1>13. PICK N : N = {k \in G : h[k] \in Int}
  OBVIOUS
<1>14. \A g \in G : Reads(c, g) \subseteq N => g \in N
  <2> SUFFICES ASSUME NEW g \in G, Reads(c, g) \subseteq N PROVE g \in N
    OBVIOUS
  <2>1. \A k \in Reads(c, g) : h[k] \in Int
    BY <1>13
  <2>2. ValueStep(c, inputs, h, g) \in Int
    BY <1>3, <2>1
  <2> QED
    BY <1>1, <1>12, <1>13, <2>2
<1>15. G \subseteq N
  <2>1. WellFormed(c) /\ Acyclic(c) /\ \A g \in Gates(c) : Reads(c, g) \subseteq N => g \in N
    BY <1>1, <1>2, <1>14
  <2>2. Gates(c) \subseteq N
    BY ONLY <2>1, AlongCircuit
  <2> QED
    BY <1>1, <2>2
<1>16. OutputGate(c) \in G
  <2>1. 0 \in Gates(c)
    BY <1>2 DEF WellFormed, Gates
  <2> QED
    BY <1>1, <1>2, <2>1, GatesAre
<1> QED
  BY <1>12, <1>13, <1>15, <1>16

\* The degree of the tag of a gate from those of its operands.
DegreeStep(c, degs, v, k) ==
  IF k < c.n_inputs THEN degs[k + 1]
  ELSE IF c.gates[k].type = "MUL" THEN v[c.gates[k].input_ids[1]] + v[c.gates[k].input_ids[2]]
  ELSE IF c.gates[k].type = "ADD" /\ v[c.gates[k].input_ids[2]] > v[c.gates[k].input_ids[1]]
       THEN v[c.gates[k].input_ids[2]]
  ELSE v[c.gates[k].input_ids[1]]

\* What _cf_eval_tags makes of tags that are not compressed is not either.
LEMMA DegreeIsPositive ==
  ASSUME NEW c, WellFormed(c), Acyclic(c), NEW degs, NEW m \in {0, 1},
         \A i \in 1 .. c.n_inputs : degs[i] \in Nat /\ degs[i] >= m
  PROVE  DegreeOf(c, degs) \in Nat /\ DegreeOf(c, degs) >= m
<1>1. PICK G, S : G = Gates(c) /\ S = {n \in Nat : n >= m}
  OBVIOUS
<1>2. WellFormed(c) /\ \A g \in G : g < c.n_inputs => degs[g + 1] \in S
  <2>1. ASSUME NEW g \in G, g < c.n_inputs PROVE degs[g + 1] \in S
    <3>1. g + 1 \in 1 .. c.n_inputs
      BY <1>1, <2>1, GatesAre
    <3> QED
      BY <1>1, <3>1
  <2> QED
    BY <2>1
\* A step from positive degrees gives a positive degree.
<1>3. ASSUME NEW g \in G, NEW v, \A k \in Reads(c, g) : v[k] \in S
      PROVE  DegreeStep(c, degs, v, g) \in S
  <2>1. CASE g < c.n_inputs
    BY <1>2, <2>1 DEF DegreeStep
  <2>2. CASE ~ (g < c.n_inputs)
    <3>1. PICK t, a, b : /\ t = c.gates[g].type /\ a = v[c.gates[g].input_ids[1]]
                         /\ b = v[c.gates[g].input_ids[2]]
      OBVIOUS
    <3>2. t \in {"ADD", "MUL", "CONSTMUL"} /\ a \in S /\ (t \in {"ADD", "MUL"} => b \in S)
      BY <1>1, <1>2, <1>3, <2>2, <3>1, GatesAre
    <3>3. DegreeStep(c, degs, v, g) =
            IF t = "MUL" THEN a + b ELSE IF t = "ADD" /\ b > a THEN b ELSE a
      BY <2>2, <3>1 DEF DegreeStep
    <3> QED
      BY ONLY <1>1, <3>2, <3>3
  <2> QED
    BY <2>1, <2>2
<1>4. PICK F : F = [g \in G |-> [v \in [G -> S] |-> DegreeStep(c, degs, v, g)]]
  OBVIOUS
<1>5. F \in Equations(G, S)
  <2>1. \A g \in G, v \in [G -> S] : DegreeStep(c, degs, v, g) \in S
    <3> TAKE g \in G, v \in [G -> S]
    <3>1. \A k \in Reads(c, g) : v[k] \in S
      BY <1>1, <1>2, GatesAre
    <3> QED
      BY <1>3, <3>1
  <2> QED
    BY <1>4, <2>1 DEF Equations
<1>6. ASSUME NEW g \in G, NEW u \in [G -> S], NEW v \in [G -> S],
             \A k \in Reads(c, g) : u[k] = v[k]
      PROVE  F[g][u] = F[g][v]
  <2>1. DegreeStep(c, degs, u, g) = DegreeStep(c, degs, v, g)
    <3>1. CASE g < c.n_inputs
      BY <3>1 DEF DegreeStep
    <3>2. CASE ~ (g < c.n_inputs)
      <4>1. /\ c.gates[g].type \in {"ADD", "MUL", "CONSTMUL"}
            /\ c.gates[g].input_ids[1] \in Reads(c, g)
            /\ c.gates[g].type \in {"ADD", "MUL"} => c.gates[g].input_ids[2] \in Reads(c, g)
        BY <1>1, <1>2, <3>2, GatesAre
      <4> QED
        BY <1>6, <4>1 DEF DegreeStep
    <3> QED
      BY <3>1, <3>2
  <2> QED
    BY <1>4, <1>6, <2>1
<1>7. PICK f : Solves(f, G, S, F)
  <2>1. WellFormed(c) /\ Acyclic(c) /\ 1 \in S
    BY <1>1, <1>2
  <2>2. F \in Equations(Gates(c), S)
    BY <1>1, <1>5
  <2>3. \A g \in Gates(c) : \A u, v \in [Gates(c) -> S] :
           (\A k \in Reads(c, g) : u[k] = v[k]) => F[g][u] = F[g][v]
    BY <1>1, <1>6
  <2>4. \E v : Solves(v, Gates(c), S, F)
    BY ONLY <2>1, <2>2, <2>3, GatesSolved
  <2> QED
    BY <1>1, <2>4
<1>8. f = [k \in G |-> DegreeStep(c, degs, f, k)]
  BY <1>4, <1>7 DEF Solves
<1> DEFINE degree[k \in Gates(c)] ==
        LET gate == c.gates[k]
            in(j) == degree[gate.input_ids[j]]
        IN  IF k < c.n_inputs THEN degs[k + 1]
            ELSE IF gate.type = "MUL" THEN in(1) + in(2)
            ELSE IF gate.type = "ADD" /\ in(2) > in(1) THEN in(2)
            ELSE in(1)
<1>9. DegreeOf(c, degs) = degree[OutputGate(c)]
  BY Zenon DEF DegreeOf
<1>10. degree = [k \in Gates(c) |-> DegreeStep(c, degs, degree, k)]
  BY <1>1, <1>8 DEF DegreeStep
<1>11. \E h : /\ h = [k \in Gates(c) |-> DegreeStep(c, degs, h, k)]
              /\ DegreeOf(c, degs) = h[OutputGate(c)]
  BY <1>9, <1>10, Zenon
<1>12. PICK h : /\ h = [k \in Gates(c) |-> DegreeStep(c, degs, h, k)]
                /\ DegreeOf(c, degs) = h[OutputGate(c)]
  BY <1>11, Zenon
<1> HIDE DEF degree
<1>13. PICK N : N = {k \in G : h[k] \in S}
  OBVIOUS
<1>14. \A g \in G : Reads(c, g) \subseteq N => g \in N
  <2> SUFFICES ASSUME NEW g \in G, Reads(c, g) \subseteq N PROVE g \in N
    OBVIOUS
  <2>1. \A k \in Reads(c, g) : h[k] \in S
    BY <1>13
  <2>2. DegreeStep(c, degs, h, g) \in S
    BY <1>3, <2>1
  <2> QED
    BY <1>1, <1>12, <1>13, <2>2
<1>15. G \subseteq N
  <2>1. WellFormed(c) /\ Acyclic(c) /\ \A g \in Gates(c) : Reads(c, g) \subseteq N => g \in N
    BY <1>1, <1>2, <1>14
  <2>2. Gates(c) \subseteq N
    BY ONLY <2>1, AlongCircuit
  <2> QED
    BY <1>1, <2>2
<1>16. OutputGate(c) \in G
  <2>1. 0 \in Gates(c)
    BY <1>2 DEF WellFormed, Gates
  <2> QED
    BY <1>1, <1>2, <2>1, GatesAre
<1> QED
  BY <1>1, <1>12, <1>13, <1>15, <1>16
-----------------------------------------------------------------------------
(***************************************************************************)
(* What the files and the memory of the processes hold                     *)
(***************************************************************************)
Keys == [run : Nat \ {0}, cf : Schemes, d : Nat]
IsKey(s) == s \in Seq(Keys) /\ Len(s) <= 1

IsTag(t) ==
  /\ DOMAIN t = {"run", "y0", "mask", "deg"} /\ t.deg \in Nat
  /\ t = [run |-> t.run, y0 |-> t.y0, mask |-> t.mask, deg |-> t.deg]
IsTags(s) == s \in Seq(Range(s)) /\ \A i \in DOMAIN s : IsTag(s[i])

\* Whatever has been run: a key file has at most one key, a tag file tags, and
\* a message file numbers and lines that are none.
FileIs(f, s) ==
  \/ s = NULL
  \/ f[1] \in KeyNames /\ IsKey(s)
  \/ f[1] \in TagNames /\ IsTags(s)
  \/ f[1] \in MessageNames /\ s \in Seq(Int \cup {BadNum})

DiskInv == \A f \in Files : FileIs(f, disk[f])

MemInv(p) ==
  /\ IsKey(mem[p].key) /\ IsTags(mem[p].tags) /\ IsTags(mem[p].loc)
  /\ mem[p].messages \in Seq(Int)
  /\ line[p] # NULL =>
       /\ line[p].verb = "msgeval" => mem[p].out \in Seq(Int \cup {BadNum})
       /\ line[p].verb \in {"auth", "eval"} => IsTags(mem[p].out)

\* The circuit file has been read.
HasCircuit(p) ==
  \/ pc[p] \in {"tags", "compute", "check"} /\ line[p].verb \in {"eval", "vrfy", "msgeval"}
  \/ pc[p] = "key" /\ line[p].verb = "msgeval"
  \/ mem[p].tags # <<>>

CircuitInv(p) ==
  line[p] # NULL =>
    /\ ~ Idle(p) \/ mem[p].tags # <<>> => NULL \notin Required(line[p])
    /\ HasCircuit(p) => IsCircuit(line[p].arith)

FilesTyped == TypeOK /\ DiskInv /\ \A p \in Procs : MemInv(p) /\ CircuitInv(p)

\* A sequence of tags, from its elements.
LEMMA TagsFromElements ==
  ASSUME NEW T, NEW s \in Seq(T), \A t \in T : IsTag(t)
  PROVE  IsTags(s)
<1>1. Len(s) \in Nat /\ s \in [1 .. Len(s) -> T] /\ DOMAIN s = 1 .. Len(s)
  OBVIOUS
<1>2. s \in [1 .. Len(s) -> Range(s)]
  BY <1>1 DEF Range
<1>3. s \in Seq(Range(s))
  BY <1>1, <1>2
<1>4. \A i \in DOMAIN s : IsTag(s[i])
  BY <1>1
<1> QED
  BY <1>3, <1>4 DEF IsTags

\* A file of no tag, of one, and of as many as there are numbers up to n.
LEMMA NoTag == IsTags(<<>>)
BY DEF IsTags

\* A file of one tag.
LEMMA OneTag ==
  ASSUME NEW t, IsTag(t)
  PROVE  IsTags(<<t>>)
<1>1. PICK T, s : T = {t} /\ s = <<t>>
  OBVIOUS
<1>2. s \in Seq(T) /\ \A x \in T : IsTag(x)
  BY <1>1
<1> QED
  BY <1>1, <1>2, TagsFromElements

\* A file of as many tags as there are numbers up to n.
LEMMA TagsByIndex ==
  ASSUME NEW n \in Nat, NEW f, DOMAIN f = 1 .. n, f = [i \in 1 .. n |-> f[i]],
         \A i \in 1 .. n : IsTag(f[i])
  PROVE  IsTags(f)
<1>1. PICK T : T = {f[i] : i \in 1 .. n}
  OBVIOUS
<1>2. f \in [1 .. n -> T] /\ \A t \in T : IsTag(t)
  BY <1>1
<1>3. f \in Seq(T)
  BY <1>2
<1> QED
  BY ONLY <1>2, <1>3, TagsFromElements

\* What a kill leaves of tags are tags.
LEMMA BeginningsAreTags ==
  ASSUME NEW s, IsTags(s), NEW b \in Beginnings(s)
  PROVE  IsTags(b)
<1>1. PICK R, T : R = Range(s) /\ T = R \cup {Cut(t) : t \in R}
  OBVIOUS
<1>2. /\ s \in Seq(R) /\ Len(s) \in Nat /\ DOMAIN s = 1 .. Len(s) /\ \A i \in DOMAIN s : IsTag(s[i])
      /\ \A t \in R : \E i \in DOMAIN s : t = s[i]
  BY <1>1 DEF IsTags, Range
<1>3. \A t \in R : IsTag(Cut(t))
  BY <1>2 DEF IsTag, Cut
<1>4. \A t \in T : IsTag(t)
  BY <1>1, <1>2, <1>3
<1>5. s \in Seq(T) /\ \A i \in DOMAIN s : Cut(s[i]) \in T
  BY <1>1, <1>2 DEF Range
<1>6. b \in Seq(T)
  <2>1. CASE \E n \in 1 .. (Len(s) - 1) : b = SubSeq(s, 1, n)
    BY <1>2, <1>5, <2>1
  <2>2. CASE \E n \in DOMAIN s : b = Append(SubSeq(s, 1, n - 1), Cut(s[n]))
    <3>1. PICK n \in DOMAIN s : b = Append(SubSeq(s, 1, n - 1), Cut(s[n]))
      BY <2>2
    <3>2. PICK a, x : a = SubSeq(s, 1, n - 1) /\ x = Cut(s[n])
      OBVIOUS
    <3>3. a \in Seq(T)
      BY <1>2, <1>5, <3>1, <3>2
    <3>4. x \in T
      BY <1>5, <3>2
    <3> QED
      BY <3>1, <3>2, <3>3, <3>4
  <2> QED
    BY <2>1, <2>2 DEF Beginnings
<1> QED
  BY ONLY <1>4, <1>6, TagsFromElements

\* An evaluation of tags is a tag; a positive one of positive ones.
LEMMA EvaluationIsTag ==
  ASSUME NEW ek, NEW c, WellFormed(c), Acyclic(c), NEW tags, IsTags(tags), Len(tags) = c.n_inputs
  PROVE  /\ IsTag(Evaluated(ek, c, tags)) /\ IsTag(Compressed(Evaluated(ek, c, tags)))
         /\ (\A i \in DOMAIN tags : tags[i].deg > 0) => Evaluated(ek, c, tags).deg > 0
<1>1. PICK degs : degs = Column(tags, "deg")
  OBVIOUS
<1>2. DOMAIN tags = 1 .. c.n_inputs /\ \A i \in DOMAIN tags : tags[i].deg \in Nat
  BY DEF IsTags, IsTag
<1>3. \A i \in 1 .. c.n_inputs : degs[i] = tags[i].deg /\ degs[i] \in Nat
  BY <1>1, <1>2 DEF Column
<1>4. DegreeOf(c, degs) \in Nat
  <2>1. 0 \in {0, 1} /\ \A i \in 1 .. c.n_inputs : degs[i] \in Nat /\ degs[i] >= 0
    BY <1>3
  <2> QED
    BY <2>1, DegreeIsPositive
<1>5. (\A i \in DOMAIN tags : tags[i].deg > 0) => DegreeOf(c, degs) > 0
  <2> SUFFICES ASSUME \A i \in DOMAIN tags : tags[i].deg > 0 PROVE DegreeOf(c, degs) > 0
    OBVIOUS
  <2>1. 1 \in {0, 1} /\ \A i \in 1 .. c.n_inputs : degs[i] \in Nat /\ degs[i] >= 1
    BY <1>2, <1>3
  <2>2. DegreeOf(c, degs) >= 1
    BY <2>1, DegreeIsPositive
  <2> QED
    BY <1>4, <2>2
<1>6. PICK r, y, x, d : /\ r = CommonRun(ek, tags) /\ d = DegreeOf(c, degs)
                        /\ y = Modulo(Value(c, Column(tags, "y0")), ek)
                        /\ x = Value(c, Column(tags, "mask"))
  OBVIOUS
<1>7. Evaluated(ek, c, tags) = [run |-> r, y0 |-> y, mask |-> x, deg |-> d]
  BY <1>1, <1>6 DEF Evaluated
<1>8. IsTag([run |-> r, y0 |-> y, mask |-> x, deg |-> d])
  BY <1>4, <1>6 DEF IsTag
<1>9. IsTag(Compressed([run |-> r, y0 |-> y, mask |-> x, deg |-> d]))
  BY DEF IsTag, Compressed
<1> QED
  BY <1>5, <1>6, <1>7, <1>8, <1>9

\* Files by their names.
LEMMA FilesOfNames ==
  ASSUME DiskInv, NEW c \in Commands
  PROVE  /\ c.tags # NULL => disk[<<c.tags, "">>] = NULL \/ IsTags(disk[<<c.tags, "">>])
         /\ c.key # NULL => disk[KeyFile(c)] = NULL \/ IsKey(disk[KeyFile(c)])
         /\ c.messages # NULL =>
              \/ disk[<<c.messages, "">>] = NULL
              \/ disk[<<c.messages, "">>] \in Seq(Int \cup {BadNum})
<1>1. /\ c.tags # NULL => c.tags \in TagNames /\ c.tags \notin KeyNames \cup MessageNames
      /\ c.key # NULL => c.key \in KeyNames /\ c.key \notin TagNames \cup MessageNames
      /\ c.messages # NULL =>
           c.messages \in MessageNames /\ c.messages \notin KeyNames \cup TagNames
  BY CommandsAssumption, NamesAssumption
<1>2. ASSUME c.tags # NULL PROVE disk[<<c.tags, "">>] = NULL \/ IsTags(disk[<<c.tags, "">>])
  <2>1. PICK f : f = <<c.tags, "">>
    OBVIOUS
  <2>2. f \in Files /\ f[1] = c.tags
    BY <1>1, <1>2, <2>1 DEF Files
  <2> QED
    BY <1>1, <1>2, <2>1, <2>2 DEF DiskInv, FileIs
<1>3. ASSUME c.key # NULL PROVE disk[KeyFile(c)] = NULL \/ IsKey(disk[KeyFile(c)])
  <2>1. PICK f : f = KeyFile(c)
    OBVIOUS
  <2>2. f \in Files /\ f[1] = c.key
    BY <1>1, <1>3, <2>1 DEF Files, KeyFile
  <2> QED
    BY <1>1, <1>3, <2>1, <2>2 DEF DiskInv, FileIs
<1>4. ASSUME c.messages # NULL
      PROVE  \/ disk[<<c.messages, "">>] = NULL
             \/ disk[<<c.messages, "">>] \in Seq(Int \cup {BadNum})
  <2>1. PICK f : f = <<c.messages, "">>
    OBVIOUS
  <2>2. f \in Files /\ f[1] = c.messages
    BY <1>1, <1>4, <2>1 DEF Files
  <2> QED
    BY <1>1, <1>4, <2>1, <2>2 DEF DiskInv, FileIs
<1> QED
  BY <1>2, <1>3, <1>4

\* The messages of a command that gets them.
LEMMA NumbersAre ==
  ASSUME DiskInv, NEW c \in Commands, c.messages # NULL, ~ HasBadNum(Numbers(c.messages))
  PROVE  Numbers(c.messages) \in Seq(Int)
<1>1. PICK s, n : s = Numbers(n) /\ n = c.messages
  OBVIOUS
<1>2. n \in MessageNames
  BY <1>1, CommandsAssumption
<1>3. s \in Seq(Int \cup {BadNum})
  <2>1. CASE disk[<<n, "">>] # NULL
    BY <1>1, <2>1, FilesOfNames DEF Numbers
  <2>2. CASE disk[<<n, "">>] = NULL
    <3>1. PICK h : h = HexValue(n)
      OBVIOUS
    <3>2. h \in Int \/ h = NULL
      BY <1>2, <3>1, NumbersAssumption
    <3>3. PICK x : x = IF h = NULL THEN BadNum ELSE h
      OBVIOUS
    <3>4. s = <<x>> /\ x \in Int \cup {BadNum}
      BY <1>1, <2>2, <3>1, <3>2, <3>3 DEF Numbers
    <3> QED
      BY <3>4
  <2> QED
    BY <2>1, <2>2
<1>4. \A i \in 1 .. Len(s) : s[i] # BadNum /\ s[i] \in Int \cup {BadNum}
  BY <1>1, <1>3 DEF HasBadNum
<1>5. s \in [1 .. Len(s) -> Int] /\ Len(s) \in Nat
  BY <1>3, <1>4
<1> QED
  BY <1>1, <1>5

\* Files and memory at the start.
LEMMA InitTyped == Init => FilesTyped
<1> SUFFICES ASSUME Init PROVE FilesTyped
  OBVIOUS
<1>1. TypeOK
  BY InitType
<1>2. ASSUME NEW f \in Files PROVE FileIs(f, disk[f])
  <2>1. disk[f] = IF f[1] \in MessageNames THEN Contents(f[1]) ELSE NULL
    BY <1>2 DEF Init
  <2> QED
    BY <2>1, NumbersAssumption DEF FileIs
<1>3. ASSUME NEW p \in Procs PROVE MemInv(p) /\ CircuitInv(p)
  <2>1. IsKey(<<>>)
    BY DEF IsKey
  <2>2. mem[p] = Blank /\ line[p] = NULL
    BY DEF Init
  <2> QED
    BY <2>1, <2>2, NoTag DEF MemInv, CircuitInv, Blank
<1> QED
  BY <1>1, <1>2, <1>3 DEF FilesTyped, DiskInv

\* The command of a process that runs, and the files it writes.
LEMMA RunningLine ==
  ASSUME TypeOK, NEW p \in Procs, ~ Idle(p)
  PROVE  /\ line[p] # NULL /\ line[p] \in Commands
         /\ line[p].verb = "keygen" => line[p].out \in KeyNames
         /\ line[p].verb = "keygen" => Out(p, ".ek") \in Files /\ Out(p, ".sk") \in Files
         /\ line[p].verb \in {"auth", "eval"} => line[p].out \in TagNames
         /\ line[p].verb \in {"auth", "eval"} => Out(p, "") \in Files /\ Out(p, ".loc") \in Files
         /\ line[p].verb = "msgeval" => line[p].out \in MessageNames /\ Out(p, "") \in Files
<1>1. line[p] # NULL /\ line[p] \in Commands
  BY DEF TypeOK
<1> QED
  BY <1>1, CommandsAssumption DEF Files, Out

\* A step of p, action by action: what it writes.
LEMMA DiskStep ==
  ASSUME FilesTyped, NEW p \in Procs, Step(p)
  PROVE  DiskInv'
<1>0. TypeOK /\ DiskInv /\ MemInv(p) /\ DOMAIN disk = Files
  BY DEF FilesTyped, TypeOK
<1>1. CASE disk' = disk
  BY <1>0, <1>1 DEF DiskInv
<1>2. /\ line[p].verb = "keygen" => line[p].out \in KeyNames
      /\ line[p].verb = "keygen" => Out(p, ".ek") \in Files /\ Out(p, ".sk") \in Files
      /\ line[p].verb \in {"auth", "eval"} => line[p].out \in TagNames
      /\ line[p].verb \in {"auth", "eval"} => Out(p, "") \in Files /\ Out(p, ".loc") \in Files
      /\ line[p].verb = "msgeval" => line[p].out \in MessageNames /\ Out(p, "") \in Files
      /\ line[p] # NULL
  <2>1. ~ Idle(p)
    BY <1>0, LocalStep DEF Local
  <2> QED
    BY <1>0, <2>1, RunningLine
<1>3. \A f \in Files : \A s : FileIs(f, s) /\ Write(f, s) => DiskInv'
  BY <1>0 DEF DiskInv, Write
<1>4. IsKey(<<>>) /\ IsTags(<<>>) /\ <<>> \in Seq(Int \cup {BadNum})
  BY NoTag DEF IsKey
<1>5. ASSUME NEW s, NEW ext, line[p].verb = "keygen", IsKey(s), ext \in {".ek", ".sk"},
             Write(Out(p, ext), s)
      PROVE  DiskInv'
  <2>1. Out(p, ext)[1] = line[p].out /\ Out(p, ext) \in Files
    BY <1>2, <1>5 DEF Out
  <2>2. FileIs(Out(p, ext), s)
    BY <1>2, <1>5, <2>1 DEF FileIs
  <2> QED
    BY <1>3, <1>5, <2>1, <2>2
<1>6. PICK out, loc : out = Out(p, "") /\ loc = Out(p, ".loc")
  OBVIOUS
<1>7. \A s : /\ line[p].verb \in {"auth", "eval"} /\ IsTags(s) /\ (Write(out, s) \/ Write(loc, s))
           => DiskInv'
  <2> SUFFICES ASSUME NEW s, line[p].verb \in {"auth", "eval"}, IsTags(s),
                      Write(out, s) \/ Write(loc, s)
               PROVE  DiskInv'
    OBVIOUS
  <2>1. out[1] = line[p].out /\ loc[1] = line[p].out
    BY <1>6 DEF Out
  <2>2. FileIs(out, s) /\ FileIs(loc, s) /\ out \in Files /\ loc \in Files
    BY <1>2, <1>6, <2>1 DEF FileIs
  <2> QED
    BY <1>3, <2>2
<1>8. ASSUME NEW s, line[p].verb = "msgeval", s \in Seq(Int \cup {BadNum}), Write(out, s)
      PROVE  DiskInv'
  <2>1. out[1] = line[p].out /\ out \in Files
    BY <1>2, <1>6, <1>8 DEF Out
  <2>2. FileIs(out, s)
    BY <1>2, <1>8, <2>1 DEF FileIs
  <2> QED
    BY <1>3, <1>8, <2>1, <2>2
<1>9. CASE OpenKeys(p)
  <2>1. /\ disk' = [disk EXCEPT ![Out(p, ".ek")] = <<>>, ![Out(p, ".sk")] = <<>>]
        /\ line[p].verb = "keygen"
    BY <1>9 DEF OpenKeys, At
  <2>2. FileIs(Out(p, ".ek"), <<>>) /\ FileIs(Out(p, ".sk"), <<>>)
    <3>1. Out(p, ".ek")[1] = line[p].out /\ Out(p, ".sk")[1] = line[p].out
      BY DEF Out
    <3> QED
      BY <1>2, <1>4, <2>1, <3>1 DEF FileIs
  <2> QED
    BY <1>0, <1>2, <2>1, <2>2 DEF DiskInv
<1>10. CASE OpenKeysFails(p)
  <2>1. /\ line[p].verb = "keygen"
        /\ disk' = disk \/ \E ext \in {".ek", ".sk"} : Write(Out(p, ext), <<>>)
    BY <1>10 DEF OpenKeysFails, At
  <2> QED
    BY <1>1, <1>4, <1>5, <2>1
<1>11. CASE CloseEk(p) \/ CloseSk(p)
  <2>1. /\ line[p].verb = "keygen" /\ IsKey(mem[p].key)
        /\ \E ext \in {".ek", ".sk"} : Write(Out(p, ext), mem[p].key)
    BY <1>0, <1>11 DEF CloseEk, CloseSk, At, MemInv, Complete
  <2> QED
    BY <1>5, <2>1
<1>12. CASE OpenOut(p)
  <2>1. line[p].verb \in {"auth", "eval"} \/ line[p].verb = "msgeval"
    BY <1>12 DEF OpenOut, At
  <2>2. Write(out, <<>>)
    BY <1>6, <1>12 DEF OpenOut
  <2> QED
    BY <1>4, <1>7, <1>8, <2>1, <2>2
<1>13. CASE FlushOut(p)
  <2>1. PICK s \in Beginnings(mem[p].out) : Write(out, s)
    BY <1>6, <1>13 DEF FlushOut
  <2>2. line[p].verb \in {"auth", "eval"} /\ IsTags(mem[p].out)
    BY <1>0, <1>2, <1>13 DEF FlushOut, At, MemInv
  <2>3. IsTags(s)
    BY <2>1, <2>2, BeginningsAreTags
  <2> QED
    BY <1>7, <2>1, <2>2, <2>3
<1>14. CASE CloseOut(p)
  <2>1. line[p].verb \in {"auth", "eval"} \/ line[p].verb = "msgeval"
    BY <1>14 DEF CloseOut, At
  <2>2. /\ line[p].verb \in {"auth", "eval"} => IsTags(mem[p].out)
        /\ line[p].verb = "msgeval" => mem[p].out \in Seq(Int \cup {BadNum})
    BY <1>0, <1>2 DEF MemInv
  <2>3. Write(out, mem[p].out)
    BY <1>6, <1>14 DEF CloseOut, Complete
  <2> QED
    BY <1>7, <1>8, <2>1, <2>2, <2>3
<1>15. CASE OpenLoc(p)
  <2>1. line[p].verb \in {"auth", "eval"} /\ Write(loc, <<>>)
    BY <1>6, <1>15 DEF OpenLoc, At
  <2> QED
    BY <1>4, <1>7, <2>1
<1>16. CASE CloseLoc(p)
  <2>1. line[p].verb \in {"auth", "eval"} /\ Write(loc, mem[p].loc) /\ IsTags(mem[p].loc)
    BY <1>0, <1>6, <1>16 DEF CloseLoc, At, Complete, MemInv
  <2> QED
    BY <1>7, <2>1
<1>17. CASE \/ ReadKey(p) \/ ReadInputs(p) \/ ReadTags(p) \/ KeygenFails(p) \/ KeygenDies(p)
            \/ Keygen(p) \/ AuthDead(p) \/ EvalFails(p) \/ EvalDies(p) \/ Eval(p)
            \/ MsgEvalFails(p) \/ MsgEval(p) \/ VrfyFails(p) \/ VrfyClaims(p)
            \/ CheckDies(p) \/ CheckUnset(p) \/ Check(p) \/ Cleanup(p)
            \/ OpenOutFails(p) \/ WriteNull(p) \/ OpenLocFails(p) \/ Kill(p)
  BY <1>1, <1>17
     DEF ReadKey, ReadInputs, ReadTags, KeygenFails, KeygenDies, Keygen, AuthDead, EvalFails,
         EvalDies, Eval, MsgEvalFails, MsgEval, VrfyFails, VrfyClaims, CheckDies, CheckUnset,
         Check, Cleanup, OpenOutFails, WriteNull, OpenLocFails, Kill, files
<1>18. CASE /\ At(p, {"auth"}, "compute")
            /\ \E stray \in [Strays(p) -> Stray] :
                 \/ Auth(p, stray)
                 \/ \E i \in DOMAIN mem[p].messages : AuthStops(p, stray, i)
  BY <1>1, <1>18 DEF Auth, AuthStops, files
<1> QED
  BY <1>9, <1>10, <1>11, <1>12, <1>13, <1>14, <1>15, <1>16, <1>17, <1>18 DEF Step
\* A step of p, action by action: what it remembers.
LEMMA MemStep ==
  ASSUME FilesTyped, NEW p \in Procs, Step(p)
  PROVE  MemInv(p)'
<1>0. /\ TypeOK /\ DiskInv /\ MemInv(p) /\ CircuitInv(p) /\ DOMAIN mem = Procs
      /\ DOMAIN mem[p] = {"key", "messages", "tags", "out", "loc", "msg"}
  BY DEF FilesTyped, TypeOK, Blank
<1>1. /\ line[p] # NULL /\ line[p] \in Commands /\ line' = line /\ runs \in Nat
      /\ NULL \notin Required(line[p])
      /\ line[p].verb \in {"auth", "eval", "vrfy"} => line[p].key # NULL
      /\ line[p].verb \in {"eval", "vrfy"} => line[p].tags # NULL
  <2>1. ~ Idle(p) /\ line' = line
    BY <1>0, LocalStep, OwnStep DEF Local, Own
  <2> QED
    BY <1>0, <2>1 DEF TypeOK, CircuitInv
<1>2. CASE mem' = mem
  BY <1>0, <1>1, <1>2 DEF MemInv
<1>3. CASE ReadKey(p)
  <2>1. PICK s : s = disk[KeyFile(line[p])]
    OBVIOUS
  <2>2. mem' = mem \/ (s # NULL /\ mem' = [mem EXCEPT ![p].key = s] /\ line[p].key # NULL)
    BY <1>3, <2>1 DEF ReadKey, Remember
  <2>3. ASSUME s # NULL, mem' = [mem EXCEPT ![p].key = s], line[p].key # NULL PROVE MemInv(p)'
    <3>1. IsKey(s)
      BY <1>0, <1>1, <2>1, <2>3, FilesOfNames
    <3> QED
      BY <1>0, <1>1, <2>3, <3>1 DEF MemInv
  <2> QED
    BY <1>2, <2>2, <2>3
<1>4. CASE ReadInputs(p)
  <2>1. PICK s : s = Numbers(line[p].messages)
    OBVIOUS
  <2>2. CASE mem' # mem
    <3>1. /\ mem' = [mem EXCEPT ![p].messages = s] /\ InputError(line[p]) = "E_NOERR"
          /\ line[p].verb \in {"auth", "vrfy", "msgeval"}
      BY <1>4, <2>1, <2>2 DEF ReadInputs, Remember, At
    <3>2. line[p].messages # NULL
      BY <1>1, <3>1 DEF Required
    <3>3. ~ HasBadNum(s)
      BY <2>1, <3>1 DEF InputError
    <3>4. s \in Seq(Int)
      BY <1>0, <1>1, <2>1, <3>2, <3>3, NumbersAre
    <3> QED
      BY <1>0, <1>1, <3>1, <3>4 DEF MemInv
  <2> QED
    BY <1>2, <2>2
<1>5. CASE ReadTags(p)
  <2>1. PICK s : s = disk[<<line[p].tags, "">>]
    OBVIOUS
  <2>2. line[p].verb \in {"eval", "vrfy"}
    BY <1>5 DEF ReadTags, At
  <2>3. mem' = mem \/ (s # NULL /\ mem' = [mem EXCEPT ![p].tags = s])
    BY <1>5, <2>1 DEF ReadTags, Remember
  <2>4. s # NULL => IsTags(s)
    BY <1>0, <1>1, <2>1, <2>2, FilesOfNames
  <2>5. ASSUME IsTags(s), mem' = [mem EXCEPT ![p].tags = s] PROVE MemInv(p)'
    BY <1>0, <1>1, <2>5 DEF MemInv
  <2> QED
    BY <1>2, <2>3, <2>4, <2>5
<1>6. CASE Keygen(p)
  <2>1. PICK k, s : k = [run |-> runs + 1, cf |-> line[p].cf, d |-> line[p].d] /\ s = <<k>>
    OBVIOUS
  <2>2. k \in Keys
    BY <1>1, <2>1, CommandsAssumption DEF Keys
  <2>3. IsKey(s)
    BY <2>1, <2>2 DEF IsKey
  <2>4. mem' = [mem EXCEPT ![p].key = s]
    BY <1>6, <2>1 DEF Keygen, Remember
  <2> QED
    BY <1>0, <1>1, <2>3, <2>4 DEF MemInv
<1>7. ASSUME NEW stray, Auth(p, stray) PROVE MemInv(p)'
  <2>0. PICK n, r : r = mem[p].key[1].run /\ n = Len(mem[p].messages)
    OBVIOUS
  <2>1. PICK s : s = [i \in 1 .. n |-> FreshTag(r, Label(p, stray, i), mem[p].messages[i])]
    OBVIOUS
  <2>2. n \in Nat /\ DOMAIN mem[p].messages = 1 .. n
    BY <1>0, <2>0 DEF MemInv
  <2>3. ASSUME NEW i \in 1 .. n PROVE IsTag(s[i])
    <3>1. PICK l, m, x : l = Label(p, stray, i) /\ m = mem[p].messages[i] /\ x = PRF(r, l)
      OBVIOUS
    <3>2. s[i] = [run |-> r, y0 |-> m, mask |-> x, deg |-> 1]
      BY <2>1, <3>1 DEF FreshTag
    <3> QED
      BY <3>2 DEF IsTag
  <2>4. DOMAIN s = 1 .. n /\ s = [i \in 1 .. n |-> s[i]]
    BY <2>1
  <2>5. IsTags(s)
    BY ONLY <2>2, <2>3, <2>4, TagsByIndex
  <2>6. mem' = [mem EXCEPT ![p].out = s] /\ line[p].verb = "auth"
    BY <1>7, <2>0, <2>1, <2>2 DEF Auth, Remember, At
  <2> QED
    BY <1>0, <1>1, <2>5, <2>6 DEF MemInv
<1>8. CASE Eval(p)
  <2>1. PICK c, tags, ek, s : /\ c = line[p].arith /\ tags = mem[p].tags /\ ek = mem[p].key
                              /\ s = EvalResult(ek, c, tags)
    OBVIOUS
  <2>2. line[p].verb = "eval" /\ WellFormed(c) /\ IsTags(tags)
    BY <1>0, <1>1, <1>8, <2>1 DEF Eval, At, CircuitInv, HasCircuit, IsCircuit, MemInv
  <2>3. c.n_inputs = Len(tags)
    BY <1>8, <2>1 DEF Eval, EvalErrorOf, EvalError
  <2>4. Evaluable(c) => IsTag(Evaluated(ek, c, tags)) /\ IsTag(Compressed(Evaluated(ek, c, tags)))
    BY <2>2, <2>3, EvaluationIsTag DEF Evaluable
  <2>5. IsTags(s) /\ (Evaluable(c) => IsTags(<<Compressed(s[1])>>))
    <3>1. CASE Evaluable(c)
      <4>1. PICK t : t = Evaluated(ek, c, tags)
        OBVIOUS
      <4>2. s = <<t>> /\ s[1] = t
        BY <2>1, <3>1, <4>1 DEF EvalResult
      <4>3. IsTag(t) /\ IsTag(Compressed(t))
        BY <2>4, <3>1, <4>1
      <4>4. IsTags(<<t>>) /\ IsTags(<<Compressed(t)>>)
        BY ONLY <4>3, OneTag
      <4> QED
        BY <4>2, <4>4
    <3>2. CASE ~ Evaluable(c)
      BY <2>1, <3>2, NoTag DEF EvalResult
    <3> QED
      BY <3>1, <3>2
  <2>6. CASE line[p].cf = "CF_2"
    <3>1. PICK t : t = <<Compressed(s[1])>>
      OBVIOUS
    <3>2. Evaluable(c)
      BY <1>8, <2>1, <2>6 DEF Eval, EvalMustDie
    <3>3. mem' = [mem EXCEPT ![p].out = t, ![p].loc = s]
      BY <1>8, <2>1, <2>6, <3>1 DEF Eval
    <3>4. IsTags(t) /\ IsTags(s)
      BY <2>5, <3>1, <3>2
    <3> QED
      BY <1>0, <1>1, <2>2, <3>3, <3>4 DEF MemInv
  <2>7. CASE line[p].cf # "CF_2"
    <3>1. mem' = [mem EXCEPT ![p].out = s]
      BY <1>8, <2>1, <2>7 DEF Eval
    <3> QED
      BY <1>0, <1>1, <2>2, <2>5, <3>1 DEF MemInv
  <2> QED
    BY <2>6, <2>7
<1>9. CASE MsgEval(p)
  <2>1. PICK c, inputs, key, x, s :
          /\ c = line[p].arith /\ inputs = mem[p].messages /\ key = mem[p].key
          /\ x = (IF Evaluable(c) THEN Modulo(Value(c, inputs), key) ELSE BadNum) /\ s = <<x>>
    OBVIOUS
  <2>2. /\ line[p].verb = "msgeval" /\ IsCircuit(c) /\ c.n_inputs = Len(inputs)
        /\ inputs \in Seq(Int)
    BY <1>0, <1>1, <1>9, <2>1 DEF MsgEval, At, CircuitInv, HasCircuit, MemInv
  <2>3. x \in Int \cup {BadNum}
    <3>1. ASSUME Evaluable(c) PROVE Modulo(Value(c, inputs), key) \in Int
      <4>1. Acyclic(c) /\ \A i \in 1 .. c.n_inputs : inputs[i] \in Int
        BY <2>2, <3>1 DEF Evaluable
      <4>2. Value(c, inputs) \in Int
        BY <2>2, <4>1, ValueIsNumber
      <4> QED
        BY <4>2, NumbersAssumption DEF Modulo
    <3> QED
      BY <2>1, <3>1
  <2>4. s \in Seq(Int \cup {BadNum})
    BY <2>1, <2>3
  <2>5. mem' = [mem EXCEPT ![p].out = s]
    BY <1>9, <2>1 DEF MsgEval, Remember
  <2> QED
    BY <1>0, <1>1, <2>2, <2>4, <2>5 DEF MemInv
<1>10. CASE VrfyClaims(p)
  <2>1. mem' = [mem EXCEPT ![p].msg = ClaimedMessage(p)]
    BY <1>10 DEF VrfyClaims, Remember
  <2> QED
    BY <1>0, <1>1, <2>1 DEF MemInv
<1>11. CASE \/ KeygenFails(p) \/ KeygenDies(p) \/ AuthDead(p) \/ EvalFails(p) \/ EvalDies(p)
            \/ MsgEvalFails(p) \/ VrfyFails(p) \/ CheckDies(p) \/ CheckUnset(p) \/ Check(p)
            \/ Cleanup(p) \/ OpenKeys(p) \/ OpenKeysFails(p) \/ CloseEk(p) \/ CloseSk(p)
            \/ OpenOut(p) \/ OpenOutFails(p) \/ WriteNull(p) \/ FlushOut(p) \/ CloseOut(p)
            \/ OpenLoc(p) \/ OpenLocFails(p) \/ CloseLoc(p) \/ Kill(p)
  BY <1>2, <1>11
     DEF KeygenFails, KeygenDies, AuthDead, EvalFails, EvalDies, MsgEvalFails, VrfyFails,
         CheckDies, CheckUnset, Check, Cleanup, OpenKeys, OpenKeysFails, CloseEk, CloseSk,
         OpenOut, OpenOutFails, WriteNull, FlushOut, CloseOut, OpenLoc, OpenLocFails,
         CloseLoc, Kill
<1>12. CASE /\ At(p, {"auth"}, "compute")
            /\ \E stray \in [Strays(p) -> Stray] :
                 \/ Auth(p, stray)
                 \/ \E i \in DOMAIN mem[p].messages : AuthStops(p, stray, i)
  BY <1>2, <1>7, <1>12 DEF AuthStops
<1> QED
  BY <1>3, <1>4, <1>5, <1>6, <1>8, <1>9, <1>10, <1>11, <1>12 DEF Step

\* A step of p keeps what is known of its circuit.
LEMMA CircuitStep ==
  ASSUME FilesTyped, NEW p \in Procs, Step(p)
  PROVE  CircuitInv(p)'
<1>0. /\ TypeOK /\ CircuitInv(p) /\ DOMAIN mem = Procs
      /\ DOMAIN mem[p] = {"key", "messages", "tags", "out", "loc", "msg"}
      /\ pc \in [Procs -> Places]
  BY DEF FilesTyped, TypeOK, Blank
<1>1. /\ line[p] # NULL /\ line[p] \in Commands /\ line' = line
      /\ NULL \notin Required(line[p])
      /\ line[p].verb \in {"auth", "eval", "vrfy"} => line[p].key # NULL
  <2>1. ~ Idle(p) /\ line' = line
    BY <1>0, LocalStep, OwnStep DEF Local, Own
  <2> QED
    BY <1>0, <2>1 DEF TypeOK, CircuitInv
<1>2. (HasCircuit(p)' => HasCircuit(p) \/ IsCircuit(line[p].arith)) => CircuitInv(p)'
  BY <1>0, <1>1 DEF CircuitInv
<1> USE <1>0, <1>1 DEF HasCircuit, Keep, Goto, Die, Report, Remember, At
<1>3. CASE ReadKey(p) BY <1>2, <1>3 DEF ReadKey, AfterKey
<1>4. CASE ReadInputs(p)
  <2>1. CASE line[p].verb \in {"eval", "vrfy", "msgeval"} /\ InputError(line[p]) = "E_NOERR"
    <3>1. line[p].arith # BadArith
      BY <2>1 DEF InputError
    <3>2. line[p].arith # NULL
      BY <2>1 DEF Required
    <3> QED
      BY <1>2, <3>1, <3>2, CommandsAssumption
  <2>2. CASE ~ (line[p].verb \in {"eval", "vrfy", "msgeval"} /\ InputError(line[p]) = "E_NOERR")
    BY <1>2, <1>4, <2>2 DEF ReadInputs, AfterInputs
  <2> QED
    BY <2>1, <2>2
<1>5. CASE ReadTags(p) BY <1>2, <1>5 DEF ReadTags
<1>6. CASE KeygenFails(p) \/ KeygenDies(p) BY <1>2, <1>6 DEF KeygenFails, KeygenDies
<1>7. CASE Keygen(p) BY <1>2, <1>7 DEF Keygen
<1>8. CASE AuthDead(p) BY <1>2, <1>8 DEF AuthDead
<1>9. ASSUME NEW stray, Auth(p, stray) PROVE CircuitInv(p)'
  BY <1>2, <1>9 DEF Auth
<1>10. ASSUME NEW stray, NEW i, AuthStops(p, stray, i) PROVE CircuitInv(p)'
  BY <1>2, <1>10 DEF AuthStops
<1>11. CASE EvalFails(p) \/ EvalDies(p) BY <1>2, <1>11 DEF EvalFails, EvalDies
<1>12. CASE Eval(p) BY <1>2, <1>12 DEF Eval
<1>13. CASE MsgEvalFails(p) \/ MsgEval(p) BY <1>2, <1>13 DEF MsgEvalFails, MsgEval
<1>14. CASE VrfyFails(p) \/ VrfyClaims(p) BY <1>2, <1>14 DEF VrfyFails, VrfyClaims
<1>15. CASE CheckDies(p) \/ CheckUnset(p) BY <1>2, <1>15 DEF CheckDies, CheckUnset
<1>16. CASE Check(p) \/ Cleanup(p) BY <1>2, <1>16 DEF Check, Cleanup
<1>17. CASE OpenKeys(p) \/ OpenKeysFails(p) BY <1>2, <1>17 DEF OpenKeys, OpenKeysFails
<1>18. CASE CloseEk(p) \/ CloseSk(p) BY <1>2, <1>18 DEF CloseEk, CloseSk
<1>19. CASE OpenOut(p) \/ OpenOutFails(p) BY <1>2, <1>19 DEF OpenOut, OpenOutFails
<1>20. CASE WriteNull(p) BY <1>2, <1>20 DEF WriteNull
<1>21. CASE FlushOut(p) BY <1>2, <1>21 DEF FlushOut
<1>22. CASE CloseOut(p) BY <1>2, <1>22 DEF CloseOut
<1>23. CASE OpenLoc(p) \/ OpenLocFails(p) \/ CloseLoc(p)
  BY <1>2, <1>23 DEF OpenLoc, OpenLocFails, CloseLoc
<1>24. CASE Kill(p) BY <1>2, <1>24 DEF Kill
<1> HIDE <1>0, <1>1 DEF HasCircuit, Keep, Goto, Die, Report, Remember, At
<1>25. CASE /\ At(p, {"auth"}, "compute")
            /\ \E stray \in [Strays(p) -> Stray] :
                 \/ Auth(p, stray)
                 \/ \E i \in DOMAIN mem[p].messages : AuthStops(p, stray, i)
  BY <1>9, <1>10, <1>25
<1> QED
  BY <1>3, <1>4, <1>5, <1>6, <1>7, <1>8, <1>11, <1>12, <1>13, <1>14, <1>15, <1>16, <1>17,
     <1>18, <1>19, <1>20, <1>21, <1>22, <1>23, <1>24, <1>25 DEF Step

\* A command starts with nothing in memory.
LEMMA TypedStart ==
  ASSUME FilesTyped, NEW p \in Procs, NEW i \in DOMAIN left, Start(p, i)
  PROVE  FilesTyped'
<1>1. TypeOK /\ DiskInv
  BY DEF FilesTyped
<1>2. TypeOK'
  BY <1>1, StartType
<1>3. /\ disk' = disk /\ line'[p] = left[i] /\ mem'[p] = Blank
      /\ \A q \in Procs \ {p} : line'[q] = line[q] /\ pc'[q] = pc[q] /\ mem'[q] = mem[q]
      /\ pc'[p] = "ended" \/ NULL \notin Required(left[i])
      /\ pc'[p] = "ended" \/ pc'[p] = FirstStep(left[i])
  BY <1>1 DEF Start, TypeOK, files, UsageError
<1>4. left[i] \in Commands /\ left[i] # NULL
  BY <1>1, CommandsAssumption DEF TypeOK
<1>5. DiskInv'
  BY <1>1, <1>3 DEF DiskInv
<1>6. MemInv(p)'
  <2>1. IsKey(<<>>) /\ IsTags(<<>>) /\ <<>> \in Seq(Int) /\ <<>> \in Seq(Int \cup {BadNum})
    BY NoTag DEF IsKey
  <2> QED
    BY <1>3, <2>1 DEF MemInv, Blank
<1>7. CircuitInv(p)'
  <2>1. mem'[p].tags = <<>>
    BY <1>3 DEF Blank
  <2>2. ~ HasCircuit(p)'
    BY <1>3, <2>1 DEF HasCircuit, FirstStep
  <2> QED
    BY <1>3, <2>1, <2>2 DEF CircuitInv, Idle
<1>8. ASSUME NEW q \in Procs, q # p PROVE (MemInv(q) /\ CircuitInv(q))'
  BY <1>3, <1>8 DEF FilesTyped, MemInv, CircuitInv, HasCircuit, Idle
<1> QED
  BY <1>2, <1>5, <1>6, <1>7, <1>8 DEF FilesTyped

\* A step of p keeps the types of files, of its memory and of that of others.
LEMMA TypedStep ==
  ASSUME FilesTyped, NEW p \in Procs, Step(p)
  PROVE  FilesTyped'
<1>1. TypeOK /\ TypeOK' /\ Own(p)
  BY StepType, OwnStep DEF FilesTyped
<1>2. DiskInv' /\ MemInv(p)' /\ CircuitInv(p)'
  BY DiskStep, MemStep, CircuitStep
<1>3. ASSUME NEW q \in Procs, q # p PROVE (MemInv(q) /\ CircuitInv(q))'
  BY <1>1, <1>3 DEF FilesTyped, Own, MemInv, CircuitInv, HasCircuit, Idle
<1> QED
  BY <1>1, <1>2, <1>3 DEF FilesTyped

(***************************************************************************)
(* Whatever is run, at once and killed or not: a key file never has more   *)
(* than one key, files of tags have tags, even torn ones, messages are     *)
(* numbers, and who computes has a circuit.                                *)
(***************************************************************************)
THEOREM FilesAreTyped == Spec => []FilesTyped
<1>1. FilesTyped /\ [Next]_vars => FilesTyped'
  <2>1. ASSUME FilesTyped, UNCHANGED vars PROVE FilesTyped'
    <3>1. UNCHANGED <<disk, runs, left, pc, line, mem, said, before, stale>>
      BY <2>1 DEF vars, files
    <3>2. TypeOK' /\ DiskInv'
      BY <2>1, <3>1 DEF FilesTyped, TypeOK, Idle, DiskInv
    <3>3. \A p \in Procs : (MemInv(p) /\ CircuitInv(p))'
      BY <2>1, <3>1 DEF FilesTyped, MemInv, CircuitInv, HasCircuit, Idle
    <3> QED
      BY <3>2, <3>3 DEF FilesTyped
  <2> QED
    BY <2>1, TypedStart, TypedStep DEF Next, SessionOver
<1> QED
  BY <1>1, InitTyped, PTL DEF Spec

-----------------------------------------------------------------------------
(***************************************************************************)
(* A compressed tag and the file beside it.  Somebody has begun to write   *)
(* OUTFILE and is not through with it, or the file beside it belongs to it *)
(* as LocBelongsToOut says.                                                *)
(***************************************************************************)
Writing == {"close", "open_loc", "close_loc"}
Busy(n) == \E p \in Procs : pc[p] \in Writing /\ <<n, "">> \in Outputs(line[p])

Belongs(out, loc) ==
  out # NULL /\ Len(out) = 1 /\ out[1].deg = 0 /\ out[1].run # 0
  => loc # NULL /\ Len(loc) = 1 /\ loc[1].deg > 0 /\ out[1] = Compressed(loc[1])

Sound(n) ==
  \/ Busy(n) \/ <<n, "">> \in stale \/ <<n, ".loc">> \in stale
  \/ Belongs(disk[<<n, "">>], disk[<<n, ".loc">>])

\* What there is to write: tags that are not compressed, or a tag and its
\* compression.
Uncompressed(tags) == \A i \in DOMAIN tags : tags[i].run # 0 => tags[i].deg > 0
Result(out, loc) ==
  Len(loc) = 1 /\ out = <<Compressed(loc[1])>> /\ (loc[1].run # 0 => loc[1].deg > 0)

Computed(p) ==
  /\ pc[p] \in {"key", "inputs", "tags", "compute"} => mem[p].loc = <<>>
  /\ pc[p] \in {"open", "close", "open_loc", "close_loc"} =>
       \/ /\ mem[p].loc = <<>>
          /\ line[p].verb \in {"auth", "eval"} => Uncompressed(mem[p].out)
       \/ line[p].verb = "eval" /\ Result(mem[p].out, mem[p].loc)
  /\ pc[p] \in {"open_loc", "close_loc"} =>
       line[p].verb = "eval" /\ mem[p].loc # <<>> /\ disk[Out(p, "")] = mem[p].out
  /\ pc[p] = "close" /\ line[p].verb = "eval" /\ mem[p].out = <<>> => disk[Out(p, "")] = <<>>

LocInv == (\A p \in Procs : Computed(p)) /\ (\A n \in TagNames : Sound(n))

\* An evaluation of tags of one run is not compressed: none of them was.
LEMMA EvaluationIsUncompressed ==
  ASSUME NEW ek, NEW c, WellFormed(c), Acyclic(c), NEW tags, IsTags(tags), Len(tags) = c.n_inputs
  PROVE  Evaluated(ek, c, tags).run # 0 => Evaluated(ek, c, tags).deg > 0
<1>1. Evaluated(ek, c, tags).run = CommonRun(ek, tags)
  BY DEF Evaluated
<1>2. CommonRun(ek, tags) # 0 => \A i \in DOMAIN tags : tags[i].deg > 0
  BY DEF CommonRun
<1> QED
  BY <1>1, <1>2, EvaluationIsTag

\* What eval has to write.
LEMMA EvalComputes ==
  ASSUME FilesTyped, NEW p \in Procs, Eval(p), mem[p].loc = <<>>
  PROVE  (mem'[p].loc = <<>> /\ Uncompressed(mem'[p].out)) \/ Result(mem'[p].out, mem'[p].loc)
<1>0. /\ TypeOK /\ MemInv(p) /\ CircuitInv(p) /\ DOMAIN mem = Procs
      /\ DOMAIN mem[p] = {"key", "messages", "tags", "out", "loc", "msg"}
  BY DEF FilesTyped, TypeOK, Blank
<1>1. line[p] # NULL
  BY <1>0 DEF TypeOK, Eval, At, Idle
<1>2. PICK c, tags, ek, s : /\ c = line[p].arith /\ tags = mem[p].tags /\ ek = mem[p].key
                            /\ s = EvalResult(ek, c, tags)
  OBVIOUS
<1>3. WellFormed(c) /\ IsTags(tags)
  BY <1>0, <1>1, <1>2 DEF Eval, At, CircuitInv, HasCircuit, IsCircuit, MemInv
<1>4. Len(tags) = c.n_inputs
  BY <1>2 DEF Eval, EvalErrorOf, EvalError
<1>5. PICK t : t = Evaluated(ek, c, tags)
  OBVIOUS
<1>6. Evaluable(c) => s = <<t>> /\ (t.run # 0 => t.deg > 0)
  BY <1>2, <1>3, <1>4, <1>5, EvaluationIsUncompressed DEF Evaluable, EvalResult
<1>7. CASE line[p].cf = "CF_2"
  <2>1. PICK u : u = <<Compressed(s[1])>>
    OBVIOUS
  <2>2. Evaluable(c)
    BY <1>2, <1>7 DEF Eval, EvalMustDie
  <2>3. mem' = [mem EXCEPT ![p].out = u, ![p].loc = s]
    BY <1>2, <1>7, <2>1 DEF Eval
  <2>4. mem'[p].out = u /\ mem'[p].loc = s
    BY <1>0, <2>3
  <2>5. Result(u, s)
    BY <1>6, <2>1, <2>2 DEF Result
  <2> QED
    BY <2>4, <2>5
<1>8. CASE line[p].cf # "CF_2"
  <2>1. mem' = [mem EXCEPT ![p].out = s]
    BY <1>2, <1>8 DEF Eval
  <2>2. mem'[p].out = s /\ mem'[p].loc = <<>>
    BY <1>0, <2>1
  <2>3. Uncompressed(s)
    <3>1. CASE Evaluable(c)
      <4>1. DOMAIN s = {1} /\ s[1] = t
        BY <1>6, <3>1
      <4> QED
        BY <1>6, <3>1, <4>1 DEF Uncompressed
    <3>2. CASE ~ Evaluable(c)
      BY <1>2, <3>2 DEF EvalResult, Uncompressed
    <3> QED
      BY <3>1, <3>2
  <2> QED
    BY <2>2, <2>3
<1> QED
  BY <1>7, <1>8

\* A step of p, action by action: what it has to write, and has written.
LEMMA ComputedStep ==
  ASSUME FilesTyped, NEW p \in Procs, Computed(p), Step(p)
  PROVE  Computed(p)'
<1>0. /\ TypeOK /\ Computed(p) /\ DOMAIN mem = Procs
      /\ DOMAIN mem[p] = {"key", "messages", "tags", "out", "loc", "msg"}
      /\ pc \in [Procs -> Places] /\ line' = line
  BY OwnStep DEF FilesTyped, TypeOK, Blank, Own
<1>1. /\ line[p].verb \in {"auth", "eval"} => Out(p, "") \in Files /\ Out(p, ".loc") \in Files
      /\ DOMAIN disk = Files /\ Out(p, "") # Out(p, ".loc")
  <2>1. ~ Idle(p)
    BY <1>0, LocalStep DEF Local
  <2> QED
    BY <1>0, <2>1, RunningLine DEF TypeOK, Out
<1>2. mem' = mem /\ pc'[p] = pc[p] /\ disk' = disk => Computed(p)'
  BY <1>0 DEF Computed, Out
<1>3. pc'[p] \notin {"key", "inputs", "tags", "compute", "open", "close", "open_loc", "close_loc"}
      => Computed(p)'
  BY DEF Computed
<1>4. /\ pc'[p] \in {"key", "inputs", "tags", "compute"}
      /\ pc[p] \in {"key", "inputs", "tags", "compute"}
      /\ mem'[p].loc = mem[p].loc
      => Computed(p)'
  BY <1>0 DEF Computed
<1>5. /\ pc'[p] = "open" /\ line[p].verb \notin {"auth", "eval"} /\ mem'[p].loc = <<>>
      => Computed(p)'
  BY <1>0 DEF Computed
<1> USE <1>0 DEF Keep, Goto, Die, Report, Remember, At
<1>6. CASE ReadKey(p) BY <1>3, <1>4, <1>6 DEF ReadKey, AfterKey
<1>7. CASE ReadInputs(p) BY <1>3, <1>4, <1>7 DEF ReadInputs, AfterInputs
<1>8. CASE ReadTags(p) BY <1>3, <1>4, <1>8 DEF ReadTags
<1>9. CASE KeygenFails(p) \/ KeygenDies(p) BY <1>3, <1>9 DEF KeygenFails, KeygenDies
<1>10. CASE Keygen(p) BY <1>5, <1>10 DEF Keygen, Computed
<1>11. CASE AuthDead(p) BY <1>3, <1>11 DEF AuthDead
<1>12. ASSUME NEW stray, Auth(p, stray) PROVE Computed(p)'
  <2>1. pc'[p] = "open" /\ mem'[p].loc = <<>> /\ mem'[p].out =
          [i \in DOMAIN mem[p].messages |->
             FreshTag(mem[p].key[1].run, Label(p, stray, i), mem[p].messages[i])]
    BY <1>12 DEF Auth, Computed
  <2>2. Uncompressed(mem'[p].out)
    BY <2>1 DEF Uncompressed, FreshTag
  <2> QED
    BY <2>1, <2>2 DEF Computed
<1>13. ASSUME NEW stray, NEW i, AuthStops(p, stray, i) PROVE Computed(p)'
  BY <1>3, <1>13 DEF AuthStops
<1>14. CASE EvalFails(p) \/ EvalDies(p) BY <1>3, <1>14 DEF EvalFails, EvalDies
<1>15. CASE Eval(p)
  <2>1. pc'[p] = "open" /\ mem[p].loc = <<>> /\ line[p].verb = "eval"
    BY <1>15 DEF Eval, Computed
  <2>2. \/ mem'[p].loc = <<>> /\ Uncompressed(mem'[p].out)
        \/ Result(mem'[p].out, mem'[p].loc)
    BY <1>15, <2>1, EvalComputes
  <2> QED
    BY <2>1, <2>2 DEF Computed
<1>16. CASE MsgEvalFails(p) BY <1>3, <1>16 DEF MsgEvalFails
<1>17. CASE MsgEval(p) BY <1>5, <1>17 DEF MsgEval, Computed
<1>18. CASE VrfyFails(p) \/ VrfyClaims(p) BY <1>3, <1>18 DEF VrfyFails, VrfyClaims
<1>19. CASE CheckDies(p) \/ CheckUnset(p) BY <1>3, <1>19 DEF CheckDies, CheckUnset
<1>20. CASE Check(p) \/ Cleanup(p) BY <1>3, <1>20 DEF Check, Cleanup
<1>21. CASE OpenKeys(p) \/ OpenKeysFails(p) BY <1>3, <1>21 DEF OpenKeys, OpenKeysFails
<1>22. CASE CloseEk(p) \/ CloseSk(p) BY <1>3, <1>22 DEF CloseEk, CloseSk
<1>23. CASE OpenOut(p)
  <2>1. /\ pc[p] = "open" /\ pc'[p] = "close" /\ mem' = mem
        /\ disk' = [disk EXCEPT ![Out(p, "")] = <<>>]
    BY <1>23 DEF OpenOut, Write
  <2>2. line[p].verb = "eval" => disk'[Out(p, "")] = <<>>
    BY <1>1, <2>1
  <2> QED
    BY <2>1, <2>2 DEF Computed, Out
<1>24. CASE OpenOutFails(p) \/ WriteNull(p) BY <1>3, <1>24 DEF OpenOutFails, WriteNull
<1>25. CASE FlushOut(p)
  <2>1. /\ pc[p] = "close" /\ pc'[p] = "close" /\ mem' = mem
    BY <1>25 DEF FlushOut
  <2>2. line[p].verb # "eval" \/ mem[p].out # <<>>
    <3>1. PICK b \in Beginnings(mem[p].out) : TRUE
      BY <1>25 DEF FlushOut
    <3>2. Beginnings(<<>>) = {}
      BY DEF Beginnings
    <3> QED
      BY <3>1, <3>2
  <2> QED
    BY <2>1, <2>2 DEF Computed
<1>26. CASE CloseOut(p)
  <2>1. /\ pc[p] = "close" /\ pc'[p] \in {"ended", "open_loc"} /\ mem' = mem
        /\ pc'[p] = "open_loc" => mem[p].loc # <<>>
        /\ disk' = [disk EXCEPT ![Out(p, "")] = mem[p].out]
        /\ line[p].verb \in {"auth", "eval"} \/ line[p].verb = "msgeval"
    BY <1>26 DEF CloseOut, Write, Complete
  <2>2. CASE pc'[p] = "open_loc"
    <3>1. line[p].verb = "eval" /\ Result(mem[p].out, mem[p].loc)
      BY <2>1, <2>2 DEF Computed
    <3>2. disk'[Out(p, "")] = mem[p].out
      BY <1>1, <2>1, <3>1
    <3> QED
      BY <2>1, <2>2, <3>1, <3>2 DEF Computed, Out
  <2> QED
    BY <1>3, <2>1, <2>2
<1>27. CASE OpenLoc(p)
  <2>1. /\ pc[p] = "open_loc" /\ pc'[p] = "close_loc" /\ mem' = mem
        /\ disk' = [disk EXCEPT ![Out(p, ".loc")] = <<>>]
    BY <1>27 DEF OpenLoc, Write
  <2>2. disk'[Out(p, "")] = disk[Out(p, "")]
    BY <1>27, <1>1, <2>1 DEF OpenLoc
  <2> QED
    BY <2>1, <2>2 DEF Computed, Out
<1>28. CASE OpenLocFails(p) \/ CloseLoc(p) BY <1>3, <1>28 DEF OpenLocFails, CloseLoc
<1>29. CASE Kill(p) BY <1>3, <1>29 DEF Kill
<1> HIDE <1>0 DEF Keep, Goto, Die, Report, Remember, At
<1>30. CASE /\ At(p, {"auth"}, "compute")
            /\ \E stray \in [Strays(p) -> Stray] :
                 \/ Auth(p, stray)
                 \/ \E i \in DOMAIN mem[p].messages : AuthStops(p, stray, i)
  BY <1>12, <1>13, <1>30
<1> QED
  BY <1>6, <1>7, <1>8, <1>9, <1>10, <1>11, <1>14, <1>15, <1>16, <1>17, <1>18, <1>19, <1>20,
     <1>21, <1>22, <1>23, <1>24, <1>25, <1>26, <1>27, <1>28, <1>29, <1>30 DEF Step


\* What p has to write, as the others run.
LEMMA ComputedNext ==
  ASSUME IInv, FilesTyped, \A p \in Procs : Computed(p), [Next]_vars, NEW q \in Procs
  PROVE  Computed(q)'
<1>1. TypeOK
  BY DEF FilesTyped
<1>2. ASSUME NEW p \in Procs, Step(p), q # p PROVE Computed(q)'
  <2>1. /\ Own(p) /\ ~ Idle(p)
        /\ line' = line /\ pc'[q] = pc[q] /\ mem'[q] = mem[q]
    BY <1>1, <1>2, OwnStep, LocalStep DEF Own, Local
  <2>2. ASSUME line[q].verb = "eval", pc[q] \in {"close", "open_loc", "close_loc"}
        PROVE  disk'[Out(q, "")] = disk[Out(q, "")]
    <3>1. ~ Idle(q) /\ Out(q, "") \in Outputs(line[q])
      BY <2>2 DEF Idle, Out, Outputs
    <3>2. Out(q, "") \in Files
      BY <1>1, <2>2, <3>1, RunningLine
    <3>3. Out(q, "") \notin Outputs(line[p])
      BY <1>2, <2>1, <3>1 DEF IInv, Exclusive
    <3> QED
      BY <2>1, <3>2, <3>3 DEF Own
  <2>3. Out(q, "")' = Out(q, "")
    BY <2>1 DEF Out
  <2> QED
    BY <2>1, <2>2, <2>3 DEF Computed
<1>3. ASSUME NEW p \in Procs, NEW i \in DOMAIN left, Start(p, i) PROVE Computed(q)'
  <2>1. CASE q = p
    <3>1. mem'[p] = Blank /\ pc'[p] \in {"ended", "key", "inputs", "compute"}
      BY <1>1, <1>3 DEF Start, FirstStep, TypeOK
    <3>2. mem'[q].loc = <<>> /\ pc'[q] \notin {"open", "close", "open_loc", "close_loc"}
      BY <2>1, <3>1 DEF Blank
    <3> QED
      BY <3>2 DEF Computed
  <2>2. CASE q # p
    <3>1. line'[q] = line[q] /\ pc'[q] = pc[q] /\ mem'[q] = mem[q] /\ disk' = disk
      BY <1>1, <1>3, <2>2 DEF Start, TypeOK, files
    <3> QED
      BY <3>1 DEF Computed, Out
  <2> QED
    BY <2>1, <2>2
<1>4. CASE UNCHANGED vars
  BY <1>4 DEF vars, files, Computed, Out
<1> QED
  BY <1>2, <1>3, <1>4, ComputedStep DEF Next, SessionOver

(***************************************************************************)
(* A step of p: it forgets no stale file of others; and it goes on writing *)
(* its own, has touched none, leaves a stale one, or completes both.       *)
(***************************************************************************)
Effect(p) ==
  /\ stale \ Outputs(line[p]) \subseteq stale'
  /\ line[p].verb \in {"auth", "eval"} =>
       \/ pc'[p] \in Writing
       \/ pc[p] \notin Writing /\ disk' = disk /\ stale' = stale
       \/ Out(p, "") \in stale' \/ Out(p, ".loc") \in stale'
       \/ Belongs(disk'[Out(p, "")], disk'[Out(p, ".loc")])

\* A file of an uncompressed tag, or of none, may have anything beside it.
LEMMA UncompressedBelongs ==
  ASSUME NEW out, NEW loc, IsTags(out), Uncompressed(out)
  PROVE  Belongs(out, loc)
<1>1. Len(out) = 1 => 1 \in DOMAIN out
  BY DEF IsTags
<1>2. ASSUME Len(out) = 1, out[1].run # 0 PROVE out[1].deg # 0
  BY <1>1, <1>2 DEF Uncompressed
<1> QED
  BY <1>2 DEF Belongs

\* A compressed tag belongs to the tag it is the compression of.
LEMMA ResultBelongs ==
  ASSUME NEW out, NEW loc, IsTags(loc), Result(out, loc), \A t : <<t>> # NULL
  PROVE  Belongs(out, loc)
<1>1. PICK r : r = loc[1]
  OBVIOUS
<1>2. Len(loc) = 1 /\ out = <<Compressed(r)>> /\ (r.run # 0 => r.deg > 0)
  BY <1>1 DEF Result
<1>3. IsTag(r)
  BY <1>1, <1>2 DEF IsTags
<1>4. out[1] = Compressed(r)
  BY <1>2
<1>5. Compressed(r).run = r.run
  BY <1>3 DEF IsTag, Compressed
<1>6. loc = <<r>>
  BY <1>1, <1>2 DEF IsTags
<1> QED
  BY <1>1, <1>2, <1>4, <1>5, <1>6 DEF Belongs

\* Every step of p is so, action by action.
LEMMA EffectStep ==
  ASSUME \A t : <<t>> # NULL, FilesTyped, NEW p \in Procs, Computed(p), Step(p)
  PROVE  Effect(p)
<1>0. TypeOK /\ MemInv(p) /\ ~ Idle(p) /\ pc \in [Procs -> Places] /\ DOMAIN disk = Files
  BY LocalStep DEF FilesTyped, TypeOK, Local
<1>1. /\ line[p] # NULL /\ Out(p, "") # Out(p, ".loc")
      /\ line[p].verb \in {"auth", "eval"} => Out(p, "") \in Files /\ Out(p, ".loc") \in Files
      /\ line[p].verb \in {"auth", "eval"} => Out(p, "") \in Outputs(line[p])
  BY <1>0, RunningLine DEF Out, Outputs
<1>2. pc[p] \notin Writing /\ disk' = disk /\ stale' = stale => Effect(p)
  BY DEF Effect
<1>3. pc'[p] \in Writing /\ stale \ Outputs(line[p]) \subseteq stale' => Effect(p)
  BY DEF Effect
<1> USE <1>0 DEF Keep, Goto, Die, Report, Remember, At, files, Writing
<1>4. CASE ReadKey(p) \/ ReadInputs(p) \/ ReadTags(p)
  BY <1>2, <1>4 DEF ReadKey, ReadInputs, ReadTags
<1>5. CASE KeygenFails(p) \/ KeygenDies(p) \/ Keygen(p)
  BY <1>2, <1>5 DEF KeygenFails, KeygenDies, Keygen
<1>6. CASE AuthDead(p) \/ EvalFails(p) \/ EvalDies(p) \/ Eval(p) \/ MsgEvalFails(p) \/ MsgEval(p)
  BY <1>2, <1>6 DEF AuthDead, EvalFails, EvalDies, Eval, MsgEvalFails, MsgEval
<1>7. CASE \/ VrfyFails(p) \/ VrfyClaims(p) \/ CheckDies(p) \/ CheckUnset(p) \/ Check(p)
           \/ Cleanup(p)
  BY <1>2, <1>7 DEF VrfyFails, VrfyClaims, CheckDies, CheckUnset, Check, Cleanup
<1>8. CASE /\ At(p, {"auth"}, "compute")
           /\ \E stray \in [Strays(p) -> Stray] :
                \/ Auth(p, stray)
                \/ \E i \in DOMAIN mem[p].messages : AuthStops(p, stray, i)
  BY <1>2, <1>8 DEF Auth, AuthStops
<1>9. CASE OpenKeys(p) \/ OpenKeysFails(p)
  BY <1>9 DEF Effect, OpenKeys, OpenKeysFails
<1>10. CASE CloseEk(p) \/ CloseSk(p)
  BY <1>10 DEF Effect, CloseEk, CloseSk, Complete, Outputs, Out
<1>11. CASE OpenOut(p)
  BY <1>3, <1>11 DEF OpenOut
<1>12. CASE OpenOutFails(p)
  BY <1>2, <1>12 DEF OpenOutFails
<1>13. CASE WriteNull(p)
  <2>1. disk' = disk /\ stale' = stale /\ disk[Out(p, "")] = <<>>
    BY <1>13 DEF WriteNull, Computed
  <2>2. Belongs(<<>>, disk'[Out(p, ".loc")])
    BY NoTag, UncompressedBelongs DEF Uncompressed
  <2> QED
    BY <2>1, <2>2 DEF Effect
<1>14. CASE FlushOut(p)
  BY <1>3, <1>14 DEF FlushOut
<1>15. CASE CloseOut(p)
  <2>1. /\ disk' = [disk EXCEPT ![Out(p, "")] = mem[p].out] /\ stale' = stale \ {Out(p, "")}
        /\ pc[p] = "close" /\ (mem[p].loc # <<>> => pc'[p] = "open_loc")
        /\ line[p].verb \in {"auth", "eval"} \/ line[p].verb = "msgeval"
    BY <1>15 DEF CloseOut, Complete, Write
  <2>2. stale \ Outputs(line[p]) \subseteq stale'
    BY <2>1 DEF Outputs, Out
  <2>3. CASE mem[p].loc = <<>> /\ line[p].verb \in {"auth", "eval"}
    <3>1. IsTags(mem[p].out) /\ Uncompressed(mem[p].out)
      BY <1>1, <2>1, <2>3, SingletonHasElement DEF MemInv, Computed, Result
    <3>2. disk'[Out(p, "")] = mem[p].out
      BY <1>1, <2>1, <2>3
    <3>3. Belongs(disk'[Out(p, "")], disk'[Out(p, ".loc")])
      BY <3>1, <3>2, UncompressedBelongs
    <3> QED
      BY <2>2, <3>3 DEF Effect
  <2> QED
    BY <1>3, <2>1, <2>2, <2>3 DEF Effect
<1>16. CASE OpenLoc(p)
  BY <1>3, <1>16 DEF OpenLoc
<1>17. CASE OpenLocFails(p)
  BY <1>17 DEF OpenLocFails, Effect
<1>18. CASE CloseLoc(p)
  <2>1. /\ disk' = [disk EXCEPT ![Out(p, ".loc")] = mem[p].loc] /\ stale' = stale \ {Out(p, ".loc")}
        /\ pc[p] = "close_loc" /\ line[p].verb = "eval"
    BY <1>18 DEF CloseLoc, Complete, Write
  <2>2. /\ mem[p].loc # <<>> /\ disk[Out(p, "")] = mem[p].out
        /\ Result(mem[p].out, mem[p].loc) /\ IsTags(mem[p].loc)
    BY <2>1 DEF Computed, MemInv
  <2>3. disk'[Out(p, "")] = mem[p].out /\ disk'[Out(p, ".loc")] = mem[p].loc
    BY <1>1, <2>1, <2>2
  <2>4. Belongs(disk'[Out(p, "")], disk'[Out(p, ".loc")])
    BY <2>2, <2>3, ResultBelongs
  <2>5. stale \ Outputs(line[p]) \subseteq stale'
    <3>1. line[p].cf = "CF_2"
      BY <2>1 DEF TypeOK
    <3> QED
      BY <2>1, <3>1 DEF Outputs, Out
  <2> QED
    BY <2>4, <2>5 DEF Effect
<1>19. CASE Kill(p)
  <2>1. stale' = stale \cup Unfinished(p) /\ disk' = disk
    BY <1>19 DEF Kill
  <2>2. CASE pc[p] \notin {"close", "open_loc", "close_loc"}
    <3>1. Unfinished(p) = {} \/ (line[p].verb \in {"auth", "eval"} => Out(p, "") \in Unfinished(p))
      BY <1>1, <2>2 DEF Unfinished, Out
    <3> QED
      BY <2>1, <2>2, <3>1 DEF Effect
  <2>3. CASE pc[p] = "close"
    BY <1>1, <2>1, <2>3 DEF Effect, Unfinished
  <2>4. CASE pc[p] \in {"open_loc", "close_loc"}
    <3>1. line[p].verb = "eval" /\ line[p].cf = "CF_2"
      BY <2>4 DEF Computed, TypeOK
    <3>2. Out(p, ".loc") \in Unfinished(p)
      BY <1>1, <2>4, <3>1 DEF Unfinished, Outputs, Out
    <3> QED
      BY <2>1, <3>2 DEF Effect
  <2> QED
    BY <2>2, <2>3, <2>4
<1> QED
  BY <1>4, <1>5, <1>6, <1>7, <1>8, <1>9, <1>10, <1>11, <1>12, <1>13, <1>14, <1>15, <1>16,
     <1>17, <1>18, <1>19 DEF Step

\* A step of p keeps every compressed tag beside its own, or stale.
LEMMA SoundStep ==
  ASSUME \A t : <<t>> # NULL, IInv, FilesTyped, NEW p \in Procs, Computed(p), Step(p),
         NEW n \in TagNames, Sound(n)
  PROVE  Sound(n)'
<1>1. TypeOK /\ Own(p) /\ ~ Idle(p) /\ Effect(p) /\ line' = line
  BY OwnStep, LocalStep, EffectStep DEF FilesTyped, Local, Own
<1>2. PICK out, loc : out = <<n, "">> /\ loc = <<n, ".loc">>
  OBVIOUS
<1>3. out \in Files /\ loc \in Files
  BY <1>2 DEF Files
<1>4. Sound(n) <=> \/ \E q \in Procs : pc[q] \in Writing /\ out \in Outputs(line[q])
                   \/ out \in stale \/ loc \in stale \/ Belongs(disk[out], disk[loc])
  BY <1>2 DEF Sound, Busy
<1>5. Sound(n)' <=> \/ \E q \in Procs : pc'[q] \in Writing /\ out \in Outputs(line[q])
                    \/ out \in stale' \/ loc \in stale' \/ Belongs(disk'[out], disk'[loc])
  BY <1>1, <1>2 DEF Sound, Busy
<1>6. CASE out \notin Outputs(line[p])
  <2>1. loc \notin Outputs(line[p])
    BY <1>2, <1>6 DEF Outputs
  <2>2. disk'[out] = disk[out] /\ disk'[loc] = disk[loc]
    BY <1>1, <1>3, <1>6, <2>1 DEF Own
  <2>3. (out \in stale => out \in stale') /\ (loc \in stale => loc \in stale')
    BY <1>1, <1>6, <2>1 DEF Effect
  <2>4. \A q \in Procs : out \in Outputs(line[q]) => pc'[q] = pc[q]
    BY <1>1, <1>6 DEF Own
  <2> QED
    BY <1>4, <1>5, <2>2, <2>3, <2>4
<1>7. CASE out \in Outputs(line[p])
  <2>1. line[p].verb \in {"auth", "eval"} /\ out = Out(p, "") /\ loc = Out(p, ".loc")
    <3>1. line[p] \in Commands
      BY <1>1, RunningLine
    <3>2. line[p].verb # "keygen" /\ line[p].verb # "vrfy" /\ line[p].out = n
      BY <1>2, <1>7 DEF Outputs
    <3>3. line[p].verb # "msgeval"
      BY <3>1, <3>2, CommandsAssumption, NamesAssumption
    <3> QED
      BY <1>2, <3>1, <3>2, <3>3, CommandsAssumption DEF Out
  <2>2. \A q \in Procs : pc[q] \in Writing /\ out \in Outputs(line[q]) => q = p
    BY <1>1, <1>7 DEF IInv, Exclusive, Idle, Writing
  <2>3. Out(p, "")' = out /\ Out(p, ".loc")' = loc
    BY <1>1, <2>1 DEF Out
  <2> QED
    BY <1>1, <1>4, <1>5, <1>7, <2>1, <2>2 DEF Effect
<1> QED
  BY <1>6, <1>7

(***************************************************************************)
(* The file beside a compressed tag has the tag it was made of, whatever   *)
(* the sessions do: eval writes both from one result (main.c:287), nobody  *)
(* else writes there meanwhile, and who is stopped leaves a stale file.    *)
(* The placeholder of a missing file is no content of a file of one tag.   *)
(***************************************************************************)
THEOREM LocBelongs ==
  ASSUME \A t : <<t>> # NULL
  PROVE  Spec => []LocBelongsToOut
<1>1. Init => LocInv
  <2> SUFFICES ASSUME Init PROVE LocInv
    OBVIOUS
  <2>1. ASSUME NEW p \in Procs PROVE Computed(p)
    BY DEF Init, Computed, Blank
  <2>2. ASSUME NEW n \in TagNames PROVE Sound(n)
    <3>1. PICK out : out = <<n, "">>
      OBVIOUS
    <3>2. out \in Files /\ out[1] \notin MessageNames
      BY <3>1, NamesAssumption DEF Files
    <3>3. disk[out] = NULL
      BY <3>2 DEF Init
    <3> QED
      BY <3>1, <3>3 DEF Sound, Belongs
  <2> QED
    BY <2>1, <2>2 DEF LocInv
<1>2. IInv /\ FilesTyped /\ LocInv /\ [Next]_vars => LocInv'
  <2> SUFFICES ASSUME IInv, FilesTyped, LocInv, [Next]_vars PROVE LocInv'
    OBVIOUS
  <2>1. \A p \in Procs : Computed(p)'
    BY ComputedNext DEF LocInv
  <2>2. ASSUME NEW n \in TagNames PROVE Sound(n)'
    <3>1. ASSUME NEW p \in Procs, Step(p) PROVE Sound(n)'
      BY <2>2, <3>1, SoundStep DEF LocInv
    <3>2. ASSUME NEW p \in Procs, NEW i \in DOMAIN left, Start(p, i) PROVE Sound(n)'
      <4>1. /\ disk' = disk /\ stale' = stale /\ pc[p] \notin Writing
            /\ \A q \in Procs \ {p} : pc'[q] = pc[q] /\ line'[q] = line[q]
        BY <3>2 DEF Start, FilesTyped, TypeOK, files, Idle, Writing
      <4>2. Busy(n) => Busy(n)'
        BY <4>1 DEF Busy
      <4> QED
        BY <2>2, <4>1, <4>2 DEF LocInv, Sound
    <3>3. CASE UNCHANGED vars
      <4>1. UNCHANGED <<disk, stale, pc, line>>
        BY <3>3 DEF vars, files
      <4>2. Busy(n)' <=> Busy(n)
        BY <4>1 DEF Busy
      <4> QED
        BY <2>2, <4>1, <4>2 DEF LocInv, Sound
    <3> QED
      BY <3>1, <3>2, <3>3 DEF Next, SessionOver
  <2> QED
    BY <2>1, <2>2 DEF LocInv
<1>3. LocInv => LocBelongsToOut
  <2> SUFFICES ASSUME LocInv, NEW n \in TagNames,
                      <<n, "">> \notin stale, <<n, ".loc">> \notin stale, Written(n)
               PROVE  Belongs(disk[<<n, "">>], disk[<<n, ".loc">>])
    BY DEF LocBelongsToOut, Belongs
  <2>1. ~ Busy(n)
    BY DEF Written, Busy, Writing, Idle
  <2> QED
    BY <2>1 DEF LocInv, Sound
<1> QED
  BY <1>1, <1>2, <1>3, Inductive, FilesAreTyped, PTL DEF Spec

-----------------------------------------------------------------------------
(***************************************************************************)
(* An honest session.  What auth has made tags for it was allowed to; what *)
(* vrfy says of a message it has got is the verdict on the claimed message *)
(* and the first tag, or there is a reason for it to say something else.   *)
(***************************************************************************)
AuthInv ==
  \A a \in authenticated : a[3] \in Int /\ Authenticable(a[2], a[3])

Claimed(p) == ClaimedMessage(p)[1]

Refuted(p) ==
  \/ ClaimError(p) # "E_NOERR" \/ ClaimedMessage(p) = <<>> \/ ProgramInitDies(p)
  \/ VrfyDies(mem[p].key, line[p].arith, line[p].labels, Claimed(p), mem[p].tags[1])
  \/ Verdict(mem[p].key, line[p].arith, line[p].labels, Claimed(p), mem[p].tags[1]) # "E_VRFY"

Told(p) ==
  line[p] # NULL /\ line[p].verb = "vrfy" =>
    /\ pc[p] \in {"key", "inputs", "tags"} => mem[p].tags = <<>>
    /\ pc[p] = "check" => mem[p].msg = ClaimedMessage(p) /\ ClaimError(p) = "E_NOERR"
    /\ pc[p] \in {"cleanup", "ended", "died"} /\ mem[p].tags # <<>> =>
         said[p] = "E_VRFY" \/ Refuted(p)

\* A step of p, action by action: what it has told.
LEMMA ToldStep ==
  ASSUME TypeOK, NEW p \in Procs, Told(p), Step(p)
  PROVE  Told(p)'
<1>0. /\ DOMAIN mem = Procs /\ line' = line /\ line[p] # NULL
      /\ DOMAIN mem[p] = {"key", "messages", "tags", "out", "loc", "msg"}
      /\ pc \in [Procs -> Places] /\ said \in [Procs -> Errors \cup {NULL}]
  <2>1. ~ Idle(p)
    BY LocalStep DEF Local
  <2> QED
    BY <2>1, OwnStep DEF TypeOK, Blank, Own
<1>1. line[p].verb # "vrfy" => Told(p)'
  BY <1>0 DEF Told
<1>2. mem'[p].tags = <<>> /\ pc'[p] # "check" => Told(p)'
  BY DEF Told
<1>3. pc'[p] \notin {"key", "inputs", "tags", "check", "cleanup", "ended", "died"} => Told(p)'
  BY DEF Told
<1>4. /\ mem' = mem /\ pc'[p] \in {"cleanup", "ended", "died"}
      /\ said'[p] = "E_VRFY" \/ Refuted(p)
      => Told(p)'
  <2>1. ASSUME mem' = mem PROVE Refuted(p)' <=> Refuted(p)
    BY <1>0, <2>1 DEF Refuted, Claimed, ClaimError, ClaimedMessage, ProgramInitDies
  <2> QED
    BY <2>1 DEF Told
<1> USE <1>0 DEF Keep, Goto, Die, Report, Remember, At
<1>5. CASE ReadKey(p)
  BY <1>1, <1>2, <1>5 DEF ReadKey, AfterKey, Told
<1>6. CASE ReadInputs(p)
  BY <1>1, <1>2, <1>6 DEF ReadInputs, AfterInputs, Told
<1>7. CASE ReadTags(p)
  BY <1>1, <1>2, <1>3, <1>7 DEF ReadTags, Told
<1>8. CASE KeygenFails(p) \/ KeygenDies(p) \/ Keygen(p)
  BY <1>1, <1>8 DEF KeygenFails, KeygenDies, Keygen
<1>9. CASE AuthDead(p) BY <1>1, <1>9 DEF AuthDead
<1>10. CASE /\ At(p, {"auth"}, "compute")
            /\ \E stray \in [Strays(p) -> Stray] :
                 \/ Auth(p, stray)
                 \/ \E i \in DOMAIN mem[p].messages : AuthStops(p, stray, i)
  BY <1>1, <1>10
<1>11. CASE EvalFails(p) \/ EvalDies(p) \/ Eval(p)
  BY <1>1, <1>11 DEF EvalFails, EvalDies, Eval
<1>12. CASE MsgEvalFails(p) \/ MsgEval(p) BY <1>1, <1>12 DEF MsgEvalFails, MsgEval
<1>13. CASE VrfyFails(p)
  BY <1>4, <1>13 DEF VrfyFails, Refuted
<1>14. CASE VrfyClaims(p)
  <2>1. PICK m : m = ClaimedMessage(p)
    OBVIOUS
  <2>2. /\ ClaimError(p) = "E_NOERR" /\ mem' = [mem EXCEPT ![p].msg = m]
        /\ pc'[p] = "check"
    BY <1>14, <2>1 DEF VrfyClaims
  <2>3. mem'[p].msg = m /\ ClaimedMessage(p)' = m /\ ClaimError(p)' = "E_NOERR"
    BY <2>1, <2>2 DEF ClaimedMessage, ClaimError
  <2> QED
    BY <2>2, <2>3 DEF Told
<1>15. CASE CheckDies(p)
  <2>1. /\ line[p].verb = "vrfy" /\ mem' = mem /\ pc'[p] = "died" /\ pc[p] = "check"
        /\ \/ ProgramInitDies(p)
           \/ mem[p].msg = <<>>
           \/ VrfyDies(mem[p].key, line[p].arith, line[p].labels, mem[p].msg[1], mem[p].tags[1])
    BY <1>15 DEF CheckDies
  <2>2. mem[p].msg = ClaimedMessage(p)
    BY <2>1 DEF Told
  <2>3. Refuted(p)
    BY <2>1, <2>2 DEF Refuted, Claimed
  <2> QED
    BY <1>4, <2>1, <2>3
<1>16. CASE CheckUnset(p)
  <2>1. /\ line[p].verb = "vrfy" /\ mem' = mem /\ pc'[p] = "cleanup" /\ pc[p] = "check"
        /\ mem[p].msg = <<>>
    BY <1>16 DEF CheckUnset
  <2>2. Refuted(p)
    BY <2>1 DEF Told, Refuted
  <2> QED
    BY <1>4, <2>1, <2>2
<1>17. CASE Check(p)
  <2>1. /\ line[p].verb = "vrfy" /\ mem' = mem /\ pc'[p] = "cleanup" /\ pc[p] = "check"
        /\ VerdictOf(p) = "E_NOERR" \/ said'[p] = VerdictOf(p)
    BY <1>17 DEF Check
  <2>2. mem[p].msg[1] = Claimed(p)
    BY <2>1 DEF Told, Claimed
  <2>3. VerdictOf(p) # "E_VRFY" => Refuted(p)
    BY <2>2 DEF Refuted, VerdictOf
  <2> QED
    BY <1>4, <2>1, <2>3
<1>18. CASE Cleanup(p)
  <2>1. /\ line[p].verb = "vrfy" /\ mem' = mem /\ pc'[p] \in {"ended", "died"}
        /\ pc[p] = "cleanup" /\ said' = said
    BY <1>18 DEF Cleanup
  <2>2. mem[p].tags = <<>> \/ said[p] = "E_VRFY" \/ Refuted(p)
    BY <2>1 DEF Told
  <2> QED
    BY <1>2, <1>4, <2>1, <2>2
<1>19. CASE OpenKeys(p) \/ OpenKeysFails(p) \/ CloseEk(p) \/ CloseSk(p)
  BY <1>1, <1>19 DEF OpenKeys, OpenKeysFails, CloseEk, CloseSk
<1>20. CASE OpenOut(p) \/ OpenOutFails(p) \/ WriteNull(p) \/ FlushOut(p) \/ CloseOut(p)
  BY <1>1, <1>20 DEF OpenOut, OpenOutFails, WriteNull, FlushOut, CloseOut
<1>21. CASE OpenLoc(p) \/ OpenLocFails(p) \/ CloseLoc(p)
  BY <1>1, <1>21 DEF OpenLoc, OpenLocFails, CloseLoc
<1>22. CASE Kill(p) BY <1>3, <1>22 DEF Kill
<1> QED
  BY <1>5, <1>6, <1>7, <1>8, <1>9, <1>10, <1>11, <1>12, <1>13, <1>14, <1>15, <1>16, <1>17,
     <1>18, <1>19, <1>20, <1>21, <1>22 DEF Step

\* What auth makes tags for are numbers it is allowed to take.
LEMMA AuthNext ==
  ASSUME FilesTyped, AuthInv, [Next]_vars
  PROVE  AuthInv'
<1>1. ASSUME UNCHANGED authenticated PROVE AuthInv'
  BY <1>1 DEF AuthInv
<1>2. ASSUME NEW p \in Procs, NEW stray, Auth(p, stray) PROVE AuthInv'
  <2>1. mem[p].messages \in Seq(Int)
    BY <1>2 DEF FilesTyped, MemInv
  <2>2. PICK r : r = mem[p].key[1].run
    OBVIOUS
  <2>3. authenticated' = authenticated \cup
          {<<r, Label(p, stray, i), mem[p].messages[i]>> : i \in DOMAIN mem[p].messages}
    BY <1>2, <2>2 DEF Auth
  <2>4. SUFFICES ASSUME NEW i \in DOMAIN mem[p].messages, NEW a,
                        a = <<r, Label(p, stray, i), mem[p].messages[i]>>
                 PROVE  a[3] \in Int /\ Authenticable(a[2], a[3])
    BY <2>3 DEF AuthInv
  <2>5. Authenticable(Label(p, stray, i), mem[p].messages[i])
    BY <1>2 DEF Auth
  <2>6. mem[p].messages[i] \in Int
    BY <2>1
  <2> QED
    BY <2>4, <2>5, <2>6
<1>3. ASSUME NEW p \in Procs, Step(p), ~ (\E stray : Auth(p, stray)) PROVE AuthInv'
  <2>1. CASE /\ At(p, {"auth"}, "compute")
             /\ \E stray \in [Strays(p) -> Stray] :
                  \/ Auth(p, stray)
                  \/ \E i \in DOMAIN mem[p].messages : AuthStops(p, stray, i)
    BY <1>1, <1>3, <2>1 DEF AuthStops, history
  <2>2. CASE \/ ReadKey(p) \/ ReadInputs(p) \/ ReadTags(p) \/ KeygenFails(p) \/ KeygenDies(p)
             \/ Keygen(p) \/ AuthDead(p) \/ EvalFails(p) \/ EvalDies(p) \/ Eval(p)
             \/ MsgEvalFails(p) \/ MsgEval(p) \/ VrfyFails(p) \/ VrfyClaims(p)
             \/ CheckDies(p) \/ CheckUnset(p) \/ Check(p) \/ Cleanup(p)
    BY <1>1, <2>2
       DEF ReadKey, ReadInputs, ReadTags, KeygenFails, KeygenDies, Keygen, AuthDead, EvalFails,
           EvalDies, Eval, MsgEvalFails, MsgEval, VrfyFails, VrfyClaims, CheckDies, CheckUnset,
           Check, Cleanup, history
  <2>3. CASE \/ OpenKeys(p) \/ OpenKeysFails(p) \/ CloseEk(p) \/ CloseSk(p) \/ OpenOut(p)
             \/ OpenOutFails(p) \/ WriteNull(p) \/ FlushOut(p) \/ CloseOut(p) \/ OpenLoc(p)
             \/ OpenLocFails(p) \/ CloseLoc(p) \/ Kill(p)
    BY <1>1, <2>3
       DEF OpenKeys, OpenKeysFails, CloseEk, CloseSk, OpenOut, OpenOutFails, WriteNull,
           FlushOut, CloseOut, OpenLoc, OpenLocFails, CloseLoc, Kill, history
  <2> QED
    BY <1>3, <2>1, <2>2, <2>3 DEF Step
<1>4. ASSUME NEW p \in Procs, NEW i \in DOMAIN left, Start(p, i) PROVE AuthInv'
  BY <1>1, <1>4 DEF Start, history
<1>5. CASE UNCHANGED vars
  BY <1>1, <1>5 DEF vars, history
<1> QED
  BY <1>2, <1>3, <1>4, <1>5 DEF Next, SessionOver

\* What a vrfy has told, as the others run.
LEMMA ToldNext ==
  ASSUME TypeOK, \A p \in Procs : Told(p), [Next]_vars, NEW q \in Procs
  PROVE  Told(q)'
<1>1. ASSUME line'[q] = line[q], pc'[q] = pc[q], mem'[q] = mem[q], said'[q] = said[q]
      PROVE  Told(q)'
  <2>1. Refuted(q)' <=> Refuted(q)
    BY <1>1 DEF Refuted, Claimed, ClaimError, ClaimedMessage, ProgramInitDies
  <2>2. ClaimError(q)' = ClaimError(q) /\ ClaimedMessage(q)' = ClaimedMessage(q)
    BY <1>1 DEF ClaimError, ClaimedMessage
  <2> QED
    BY <1>1, <2>1, <2>2 DEF Told
<1>2. ASSUME NEW p \in Procs, Step(p), q # p PROVE Told(q)'
  BY <1>1, <1>2, OwnStep DEF Own
<1>3. ASSUME NEW p \in Procs, NEW i \in DOMAIN left, Start(p, i) PROVE Told(q)'
  <2>1. CASE q = p
    <3>1. mem'[q].tags = <<>> /\ pc'[q] # "check"
      BY <1>3, <2>1 DEF Start, FirstStep, TypeOK, Blank
    <3> QED
      BY <3>1 DEF Told
  <2>2. CASE q # p
    BY <1>1, <1>3, <2>2 DEF Start, TypeOK
  <2> QED
    BY <2>1, <2>2
<1>4. CASE UNCHANGED vars
  BY <1>1, <1>4 DEF vars
<1> QED
  BY <1>2, <1>3, <1>4, ToldStep DEF Next, SessionOver

FreshTags(r, labels, ms) == [i \in DOMAIN ms |-> FreshTag(r, labels[i], ms[i])]

\* Fresh tags of a run belong to it: what is made of them is the value of the
\* circuit on messages and on masks, and not compressed.
LEMMA FreshEvaluated ==
  ASSUME NEW key, IsKey(key), key # <<>>, NEW c, IsCircuit(c), Evaluable(c),
         NEW labels \in Seq(Int \cup {BadNum}), Len(labels) = c.n_inputs,
         NEW ms \in [DOMAIN labels -> Int], NEW r, r = key[1].run,
         NEW fresh, fresh = FreshTags(r, labels, ms),
         NEW result, result = Evaluated(key, c, fresh),
         NEW y, y = Modulo(Value(c, ms), key), NEW x, x = Value(c, Masks(r, labels))
  PROVE  /\ ms \in Seq(Int) /\ Len(ms) = c.n_inputs
         /\ result = [run |-> r, y0 |-> y, mask |-> x, deg |-> result.deg]
         /\ result.deg > 0 /\ result.deg \in Nat
<1>1. PICK n : n = c.n_inputs
  OBVIOUS
<1>2. n \in Nat \ {0} /\ WellFormed(c) /\ Acyclic(c)
  BY <1>1 DEF IsCircuit, WellFormed, Evaluable
<1>3. DOMAIN labels = 1 .. n /\ DOMAIN ms = 1 .. n
  BY <1>1
<1>4. ms \in Seq(Int) /\ Len(ms) = n
  BY <1>2, <1>3
<1>5. \A i \in 1 .. n : fresh[i] = [run |-> r, y0 |-> ms[i], mask |-> PRF(r, labels[i]), deg |-> 1]
  BY <1>3 DEF FreshTag, FreshTags
<1>6. DOMAIN fresh = 1 .. n /\ fresh = [i \in 1 .. n |-> fresh[i]]
  BY <1>3 DEF FreshTags
<1>7. ASSUME NEW i \in 1 .. n
      PROVE  /\ IsTag(fresh[i]) /\ fresh[i]["run"] = r /\ fresh[i]["deg"] = 1
             /\ fresh[i]["y0"] = ms[i] /\ fresh[i]["mask"] = PRF(r, labels[i])
  <2>1. PICK t, m, z : t = fresh[i] /\ m = ms[i] /\ z = PRF(r, labels[i])
    OBVIOUS
  <2>2. t = [run |-> r, y0 |-> m, mask |-> z, deg |-> 1]
    BY <1>5, <2>1
  <2>3. IsTag(t) /\ t["run"] = r /\ t["deg"] = 1 /\ t["y0"] = m /\ t["mask"] = z
    BY ONLY <2>2 DEF IsTag
  <2> QED
    BY <2>1, <2>3
<1>8. IsTags(fresh)
  BY ONLY <1>2, <1>6, <1>7, TagsByIndex
<1>9. Len(fresh) = n
  BY <1>2, <1>6, <1>8 DEF IsTags
<1>10. CommonRun(key, fresh) = r
  <2>1. DOMAIN key = {1}
    <3>1. PICK k : k = Len(key)
      OBVIOUS
    <3>2. key \in Seq(Keys) /\ k <= 1 /\ key # <<>>
      BY <3>1 DEF IsKey
    <3>3. k \in Nat /\ DOMAIN key = 1 .. k /\ (k = 0 => key = <<>>)
      BY ONLY <3>1, <3>2
    <3>4. k = 1
      BY ONLY <3>2, <3>3
    <3> QED
      BY ONLY <3>3, <3>4
  <2>2. \A i \in 1 .. n : fresh[i].run = r
    BY <1>7
  <2>3. \A i \in DOMAIN fresh : fresh[i].deg > 0
    BY <1>6, <1>7
  <2>4. {fresh[i].run : i \in DOMAIN fresh} \cup {key[i].run : i \in DOMAIN key} = {r}
    BY <1>6, <2>1, <2>2
  <2>5. Cardinality({r}) = 1
    BY FS_Singleton
  <2>6. (CHOOSE e \in {r} : TRUE) = r
    OBVIOUS
  <2> QED
    BY <2>3, <2>4, <2>5, <2>6 DEF CommonRun
<1>11. Column(fresh, "y0") = ms
  BY <1>3, <1>6, <1>7 DEF Column
<1>12. Column(fresh, "mask") = Masks(r, labels)
  BY <1>3, <1>6, <1>7 DEF Column, Masks
<1>13. result.deg > 0
  <2>1. \A i \in DOMAIN fresh : fresh[i].deg > 0
    BY <1>6, <1>7
  <2> QED
    BY <1>1, <1>2, <1>8, <1>9, <2>1, EvaluationIsTag
<1>14. result.deg \in Nat
  BY <1>1, <1>2, <1>8, <1>9, EvaluationIsTag DEF IsTag
<1> QED
  BY <1>1, <1>4, <1>10, <1>11, <1>12, <1>13, <1>14 DEF Evaluated

\* The honest verifier has no reason to hear anything else.
LEMMA HonestIsNotRefuted ==
  ASSUME FilesTyped, AuthInv, NEW p \in Procs, line[p] # NULL, line[p].verb = "vrfy",
         mem[p].tags # <<>>, mem[p].key # <<>>, HonestVerifier(p)
  PROVE  ~ Refuted(p)
<1>1. PICK c, labels, key, tags, messages :
        /\ c = line[p].arith /\ labels = line[p].labels /\ key = mem[p].key
        /\ tags = mem[p].tags /\ messages = mem[p].messages
  OBVIOUS
<1>2. /\ IsCircuit(c) /\ IsKey(key) /\ key # <<>> /\ messages \in Seq(Int)
      /\ labels \in Seq(Int \cup {BadNum}) /\ Len(labels) = c.n_inputs /\ Evaluable(c)
  <2>1. line[p] \in Commands /\ NULL \notin Required(line[p]) /\ IsCircuit(c)
    BY <1>1 DEF FilesTyped, TypeOK, CircuitInv, HasCircuit
  <2>2. labels # NULL
    BY <1>1, <2>1 DEF Required
  <2>3. labels \in Seq(Int \cup {BadNum})
    BY <1>1, <2>1, <2>2, CommandsAssumption
  <2>4. IsKey(key) /\ messages \in Seq(Int)
    BY <1>1 DEF FilesTyped, MemInv
  <2>5. Len(labels) = c.n_inputs /\ Evaluable(c)
    BY <1>1 DEF HonestVerifier
  <2> QED
    BY <1>1, <2>1, <2>3, <2>4, <2>5
<1>3. PICK r : r = key[1].run
  OBVIOUS
<1>4. PICK ms \in OriginalsOf(p) :
        LET fresh  == [i \in DOMAIN ms |-> FreshTag(r, labels[i], ms[i])]
            result == Evaluated(key, c, fresh)
        IN  /\ tags = <<result>> \/ (key[1].cf = "CF_2" /\ tags = <<Compressed(result)>>)
            /\ (Len(ms) > 1 /\ messages = ms) \/ messages = <<result.y0>>
  BY <1>1, <1>3 DEF HonestVerifier
<1>5. PICK fresh : fresh = FreshTags(r, labels, ms)
  OBVIOUS
<1>6. PICK result : result = Evaluated(key, c, fresh)
  OBVIOUS
<1>7. /\ tags = <<result>> \/ (key[1].cf = "CF_2" /\ tags = <<Compressed(result)>>)
      /\ (Len(ms) > 1 /\ messages = ms) \/ messages = <<result.y0>>
  BY <1>4, <1>5, <1>6 DEF FreshTags
<1>8. /\ ms \in [DOMAIN labels -> Int]
      /\ \A i \in DOMAIN labels : Authenticable(labels[i], ms[i])
  <2>1. /\ ms \in [DOMAIN labels -> {a[3] : a \in authenticated}]
        /\ \A i \in DOMAIN ms : <<r, labels[i], ms[i]>> \in authenticated
    BY <1>1, <1>3, <1>4 DEF OriginalsOf
  <2>2. \A i \in DOMAIN labels : ms[i] \in Int
    BY <2>1 DEF AuthInv
  <2>3. ASSUME NEW i \in DOMAIN labels PROVE Authenticable(labels[i], ms[i])
    <3>1. PICK a : a = <<r, labels[i], ms[i]>>
      OBVIOUS
    <3>2. a \in authenticated /\ a[2] = labels[i] /\ a[3] = ms[i]
      BY <2>1, <3>1
    <3> QED
      BY <3>2 DEF AuthInv
  <2> QED
    BY <2>1, <2>2, <2>3
<1>9. PICK y, x, d : /\ y = Modulo(Value(c, ms), key) /\ x = Value(c, Masks(r, labels))
                     /\ d = result.deg
  OBVIOUS
<1>10. /\ ms \in Seq(Int) /\ Len(ms) = c.n_inputs /\ d \in Nat /\ d > 0
       /\ result = [run |-> r, y0 |-> y, mask |-> x, deg |-> d]
  <2>1. /\ IsKey(key) /\ key # <<>> /\ IsCircuit(c) /\ Evaluable(c)
        /\ labels \in Seq(Int \cup {BadNum}) /\ Len(labels) = c.n_inputs
        /\ ms \in [DOMAIN labels -> Int]
        /\ y = Modulo(Value(c, ms), key) /\ x = Value(c, Masks(r, labels)) /\ d = result.deg
    BY <1>2, <1>8, <1>9
  <2> QED
    BY ONLY <1>3, <1>5, <1>6, <2>1, FreshEvaluated
<1>11. y \in 0 .. (P - 1)
  <2>1. PICK v : v = Value(c, ms)
    OBVIOUS
  <2>2. Acyclic(c) /\ \A i \in 1 .. c.n_inputs : ms[i] \in Int
    BY <1>2, <1>8, <1>10 DEF Evaluable
  <2>3. v \in Int
    BY <1>2, <2>1, <2>2, ValueIsNumber
  <2> QED
    BY <1>2, <1>9, <2>1, <2>3, NumbersAssumption DEF Modulo
<1>12. PICK t : t = tags[1]
  OBVIOUS
<1>13. /\ Len(tags) = 1 /\ t.run = r /\ t.y0 = y /\ t.mask = x
       /\ t.deg = d \/ (t.deg = 0 /\ key[1].cf = "CF_2")
  <2>1. CASE tags = <<result>>
    <3>1. t = result /\ Len(tags) = 1
      BY <1>12, <2>1
    <3> QED
      BY <1>10, <3>1
  <2>2. CASE key[1].cf = "CF_2" /\ tags = <<Compressed(result)>>
    <3>1. PICK u : u = Compressed(result)
      OBVIOUS
    <3>2. u.run = r /\ u.y0 = y /\ u.mask = x /\ u.deg = 0
      BY <1>10, <3>1 DEF Compressed
    <3>3. t = u /\ Len(tags) = 1
      BY <1>12, <2>2, <3>1
    <3> QED
      BY <2>2, <3>2, <3>3
  <2> QED
    BY <1>7, <2>1, <2>2
<1>14. c.n_inputs \in Nat \ {0}
  BY <1>2 DEF IsCircuit, WellFormed
<1>15. (Len(messages) = 1 /\ messages = <<y>>) \/ (Len(messages) # 1 /\ messages = ms)
  <2>1. result.y0 = y
    BY <1>10
  <2>2. CASE messages = <<y>>
    BY <2>2
  <2>3. CASE Len(ms) > 1 /\ messages = ms
    <3>1. PICK k : k = Len(messages)
      OBVIOUS
    <3>2. k \in Nat /\ k > 1
      BY ONLY <1>10, <1>14, <2>3, <3>1
    <3>3. k # 1
      BY ONLY <3>2
    <3> QED
      BY <2>3, <3>1, <3>3, Zenon
  <2> QED
    BY <1>7, <2>1, <2>2, <2>3
<1>16. ClaimError(p) = "E_NOERR"
  BY <1>1, <1>2, <1>10, <1>13, <1>15 DEF ClaimError
<1>17. ClaimedMessage(p) = <<y>>
  BY <1>1, <1>2, <1>9, <1>15 DEF ClaimedMessage
<1>18. ClaimedMessage(p) # <<>> /\ Claimed(p) = y
  BY <1>17 DEF Claimed
<1>19. ~ ProgramInitDies(p)
  <2>1. labels # <<>>
    BY <1>2, <1>14
  <2> QED
    BY <1>1, <1>2, <2>1 DEF ProgramInitDies
<1>20. ~ VrfyDies(key, c, labels, y, t)
  <2>1. \A i \in DOMAIN labels : labels[i] # 0 /\ ~ (labels[i] >= LongLabel)
    BY <1>8 DEF Authenticable, AuthDies, AuthError
  <2>2. t.deg = 0 => HasH(key)
    BY <1>2, <1>10, <1>13 DEF HasH
  <2> QED
    BY <1>2, <2>1, <2>2 DEF VrfyDies
<1>21. Verdict(key, c, labels, y, t) = "E_VRFY"
  <2>1. ~ MessageRefused(y)
    BY <1>11, NumbersAssumption DEF MessageRefused
  <2>2. Matches(key, c, labels, y, t)
    BY <1>3, <1>9, <1>13 DEF Matches, SameMask
  <2> QED
    BY <2>1, <2>2 DEF Verdict
<1> QED
  BY <1>1, <1>12, <1>16, <1>18, <1>19, <1>20, <1>21 DEF Refuted

(***************************************************************************)
(* "Verification ok" is said to everybody who verifies the result of an    *)
(* evaluation, compressed or not, of tags auth has made with his keys      *)
(* under his labels, for any circuit with a value, labels and messages,    *)
(* whatever else runs meanwhile: the error, the abort or the silence of    *)
(* vrfy (main.c:342, cf.c:167) always has another reason.                  *)
(***************************************************************************)
THEOREM HonestVerifies == Spec => []HonestSessionVerifies
<1> DEFINE AllTold == AuthInv /\ \A p \in Procs : Told(p)
<1>1. Init => AllTold
  BY DEF Init, AuthInv, Told
<1>2. FilesTyped /\ AllTold /\ [Next]_vars => AllTold'
  <2> SUFFICES ASSUME FilesTyped, AllTold, [Next]_vars PROVE AllTold'
    OBVIOUS
  <2>1. TypeOK
    BY DEF FilesTyped
  <2>2. AuthInv'
    BY AuthNext
  <2>3. \A p \in Procs : Told(p)'
    BY <2>1, ToldNext
  <2> QED
    BY <2>2, <2>3
<1>3. FilesTyped /\ AllTold => HonestSessionVerifies
  BY HonestIsNotRefuted DEF Told, HonestSessionVerifies
<1> HIDE DEF AllTold
<1> QED
  BY <1>1, <1>2, <1>3, FilesAreTyped, PTL DEF Spec
=============================================================================
