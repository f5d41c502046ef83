------------------------------ MODULE TopoSort ------------------------------
(***************************************************************************)
(* arith_circ_topology_sort (arith.c): the sort is done by /usr/bin/tsort, *)
(* in a child process, through two temporary files.  The caller writes the *)
(* edges to the first, the child's standard output is the second, and the  *)
(* caller reads it after the child has exited.                             *)
(*                                                                         *)
(* When execl fails the child returns from it and runs the code below the  *)
(* fork as well, so from there on the actions have a process for argument. *)
(***************************************************************************)
EXTENDS Circuit

CONSTANTS
  Circuits,  \* circuits to sort
  NoArith,   \* the NULL argument
  NoGraph,   \* a circuit whose file had no "total" line
  Faults     \* which calls may fail: "temp", "fdopen", "fork", "exec"

ASSUME CircuitsAssumption == \A c \in Circuits : WellFormed(c)
ASSUME FaultsAssumption == Faults \subseteq {"temp", "fdopen", "fork", "exec"}

VARIABLES
  circ,    \* a
  pc,      \* per process
  temps,   \* the temporary files that exist: "edges" and "sorted"
  pairs,   \* content of the edges file
  printed, \* content of the sorted file, gates in the order of its lines
  t_sort,  \* a->t_sort of each process (<<>> before the calloc)
  err,     \* cf_err of each process
  failed   \* history: the calls that failed
vars == <<circ, pc, temps, pairs, printed, t_sort, err, failed>>

Procs == {"parent", "child"}
Returned == {"done", "exited"}

Init ==
  /\ circ \in Circuits \cup {NoArith, NoGraph}
  /\ pc = [parent |-> "call", child |-> "none"]
  /\ temps = {}
  /\ pairs = {}
  /\ printed = <<>>
  /\ t_sort = [p \in Procs |-> <<>>]
  /\ err = [p \in Procs |-> "E_NOERR"]
  /\ failed = {}

-----------------------------------------------------------------------------
Return(p, e) ==
  /\ pc' = [pc EXCEPT ![p] = "done"]
  /\ err' = [err EXCEPT ![p] = e]

RejectArgument ==
  /\ pc.parent = "call"
  /\ circ \in {NoArith, NoGraph}
  /\ Return("parent", IF circ = NoArith THEN "E_NO_ARITH" ELSE "E_INVAL_ARITH")
  /\ UNCHANGED <<circ, temps, pairs, printed, t_sort, failed>>

\* mkstemp, then mkstemps, whatever the first returned.
MakeTemps ==
  /\ pc.parent = "call"
  /\ circ \in Circuits
  /\ temps' = {"edges", "sorted"}
  /\ pc' = [pc EXCEPT !.parent = "write"]
  /\ UNCHANGED <<circ, pairs, printed, t_sort, err, failed>>

\* The other one, if it could be made, stays behind.
MakeTempsFails ==
  /\ pc.parent = "call"
  /\ circ \in Circuits
  /\ "temp" \in Faults
  /\ temps' \in {{}, {"edges"}, {"sorted"}}
  /\ Return("parent", "E_ERRNO_ERROR")
  /\ failed' = {"temp"}
  /\ UNCHANGED <<circ, pairs, printed, t_sort>>

OpenEdgesFails ==
  /\ pc.parent = "write"
  /\ "fdopen" \in Faults
  /\ Return("parent", "E_ERRNO_ERROR")
  /\ failed' = {"fdopen"}
  /\ UNCHANGED <<circ, temps, pairs, printed, t_sort>>

\* "k g" is a line of the edges file.
Line(c, k, g) == Precedes(c, k, g)

WriteEdges ==
  /\ pc.parent = "write"
  /\ pairs' = {e \in Gates(circ) \X Gates(circ) : Line(circ, e[1], e[2])}
  /\ pc' = [pc EXCEPT !.parent = "fork"]
  /\ UNCHANGED <<circ, temps, printed, t_sort, err, failed>>

Fork ==
  /\ pc.parent = "fork"
  /\ pc' = [parent |-> "wait", child |-> "exec"]
  /\ UNCHANGED <<circ, temps, pairs, printed, t_sort, err, failed>>

\* pid is -1, which nobody looks at.
ForkFails ==
  /\ pc.parent = "fork"
  /\ "fork" \in Faults
  /\ pc' = [pc EXCEPT !.parent = "wait"]
  /\ failed' = {"fork"}
  /\ UNCHANGED <<circ, temps, pairs, printed, t_sort, err>>

-----------------------------------------------------------------------------
(***************************************************************************)
(* The child.  tsort prints a gate of the edges file whose predecessors    *)
(* are all printed; on a loop it complains on stderr and prints any.       *)
(***************************************************************************)
Exec ==
  /\ pc.child = "exec"
  /\ pc' = [pc EXCEPT !.child = "tsort"]
  /\ UNCHANGED <<circ, temps, pairs, printed, t_sort, err, failed>>

\* execl returns, and the child goes on below the if.
ExecFails ==
  /\ pc.child = "exec"
  /\ "exec" \in Faults
  /\ pc' = [pc EXCEPT !.child = "wait"]
  /\ failed' = {"exec"}
  /\ UNCHANGED <<circ, temps, pairs, printed, t_sort, err>>

Ends(e) == {e[1], e[2]}
Unprinted == (UNION {Ends(e) : e \in pairs}) \ {printed[n] : n \in DOMAIN printed}
Unblocked ==
  {g \in Unprinted : ~ \E k \in Unprinted \ {g} : <<k, g>> \in pairs}

TsortPrints ==
  /\ pc.child = "tsort"
  /\ \E g \in IF Unblocked # {} THEN Unblocked ELSE Unprinted :
       printed' = Append(printed, g)
  /\ UNCHANGED <<circ, pc, temps, pairs, t_sort, err, failed>>

TsortExits ==
  /\ pc.child = "tsort"
  /\ Unprinted = {}
  /\ pc' = [pc EXCEPT !.child = "exited"]
  /\ UNCHANGED <<circ, temps, pairs, printed, t_sort, err, failed>>

-----------------------------------------------------------------------------
\* Mutant of Reaped: waitpid is not called.
Unreaped(p) == TRUE

\* waitpid returns: p has no child, or its child is over.
Reaped(p) == p = "parent" => pc.child \in {"none", "exited", "aborted"}

Wait(p) ==
  /\ pc[p] = "wait"
  /\ Reaped(p)
  /\ pc' = [pc EXCEPT ![p] = "read"]
  /\ UNCHANGED <<circ, temps, pairs, printed, t_sort, err, failed>>

\* assert(res_fp != NULL)
ResultGone(p) ==
  /\ pc[p] = "read"
  /\ "sorted" \notin temps
  /\ pc' = [pc EXCEPT ![p] = "aborted"]
  /\ UNCHANGED <<circ, temps, pairs, printed, t_sort, err, failed>>

\* Mutant of ReadResult: the loop over the lines has no end.
ReadForever(p) ==
  /\ pc[p] = "read"
  /\ "sorted" \in temps
  /\ UNCHANGED vars

ReadResult(p) ==
  /\ pc[p] = "read"
  /\ "sorted" \in temps
  /\ t_sort' = [t_sort EXCEPT ![p] =
                  Padded(circ, [n \in 0 .. (Len(printed) - 1) |-> printed[n + 1]])]
  /\ pc' = [pc EXCEPT ![p] = "remove"]
  /\ UNCHANGED <<circ, temps, pairs, printed, err, failed>>

\* Mutant of RemoveTemps: only the first file is removed.
RemoveOne(p) ==
  /\ pc[p] = "remove"
  /\ temps' = temps \ {"edges"}
  /\ Return(p, "E_NOERR")
  /\ UNCHANGED <<circ, pairs, printed, t_sort, failed>>

RemoveTemps(p) ==
  /\ pc[p] = "remove"
  /\ temps' = {}
  /\ Return(p, "E_NOERR")
  /\ UNCHANGED <<circ, pairs, printed, t_sort, failed>>

\* A child that came back from execl finishes the whole program.
ChildExits ==
  /\ pc.child = "done"
  /\ pc' = [pc EXCEPT !.child = "exited"]
  /\ UNCHANGED <<circ, temps, pairs, printed, t_sort, err, failed>>

ParentFinished == pc.parent \in {"done", "aborted"} /\ UNCHANGED vars

Step ==
  \/ RejectArgument \/ MakeTemps \/ MakeTempsFails
  \/ OpenEdgesFails \/ WriteEdges \/ Fork \/ ForkFails
  \/ Exec \/ ExecFails \/ TsortPrints \/ TsortExits \/ ChildExits
  \/ \E p \in Procs : Wait(p) \/ ResultGone(p) \/ ReadResult(p) \/ RemoveTemps(p)

Next == Step \/ ParentFinished

Spec == Init /\ [][Next]_vars

\* Both processes are scheduled; tsort, and the rest of the program when the
\* child runs it, terminate.
FairSpec == Spec /\ WF_vars(Step)

-----------------------------------------------------------------------------
(***************************************************************************)
(* Properties                                                              *)
(***************************************************************************)
TypeOK ==
  /\ circ \in Circuits \cup {NoArith, NoGraph}
  /\ pc \in [Procs -> {"none", "call", "write", "fork", "exec", "tsort", "wait",
                       "read", "remove", "done", "exited", "aborted"}]
  /\ temps \subseteq {"edges", "sorted"}
  /\ err \in [Procs -> {"E_NOERR", "E_NO_ARITH", "E_INVAL_ARITH",
                        "E_ERRNO_ERROR"}]
  /\ failed \subseteq Faults
  /\ circ \in Circuits =>
       /\ pairs \subseteq Gates(circ) \X Gates(circ)
       /\ printed \in Seq(Gates(circ))
       /\ t_sort \in [Procs -> {<<>>} \cup [0 .. circ.n_gates -> Gates(circ)]]

Sorted(p) == circ \in Circuits /\ pc[p] \in Returned /\ t_sort[p] # <<>>

(***************************************************************************)
(* A process that gets a t_sort gets one of the listings the evaluators    *)
(* are prepared for, complete even though another process wrote it line by *)
(* line; only a failure of fork or execl makes it zeros, and never a part  *)
(* of an order.  Whatever fails, an acyclic circuit's starts with an       *)
(* input: the evaluators start with gate 0 and never look at t_sort[0].    *)
(***************************************************************************)
SortComplete ==
  \A p \in Procs :
    Sorted(p) =>
      /\ \/ t_sort[p] \in TSorts(circ)
         \/ /\ failed \in {{"fork"}, {"exec"}}
            /\ t_sort[p] = [n \in 0 .. circ.n_gates |-> 0]
      /\ Acyclic(circ) => circ.gates[t_sort[p][0]].type \in InputTypes

(***************************************************************************)
(* The temporary files are gone when the caller has its answer, except     *)
(* after E_ERRNO_ERROR.                                                    *)
(***************************************************************************)
TempsRemoved ==
  pc.parent \in {"done", "aborted"} /\ err.parent # "E_ERRNO_ERROR" => temps = {}

(***************************************************************************)
(* The call ends: the wait for the child is never for ever.                *)
(***************************************************************************)
CallEnds == <>(pc.parent \in {"done", "aborted"})
=============================================================================
