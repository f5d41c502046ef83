# A TLA+ model of cf-homomorphic-mac

The program implements the two homomorphic MACs of Catalano and Fiore: tags of
messages can be combined along an arithmetic circuit, and the result verifies
for the message the circuit computes. It is C (and one C++ file, for the FFT
product), single threaded, run as five commands that hand files to each other.
This directory holds TLA+ modules translated from that code, TLC configurations
that check them on small instances, and TLAPS proofs about seven of its parts:
the circuit parser, the sort, the evaluators, the scheme with its operations on
tags, the files of tags, the files of keys and the command line. Paths and line numbers are relative to the root of the repository.

Contents: [the system](#the-system), [the modules](#the-modules),
[the runs](#the-runs), [the proofs](#the-proofs),
[what the code does and does not say it does](#disagreements-between-code-and-documentation),
[what is not modelled](#what-is-not-modelled), [the plan](#plan).

## The system

| Part | Source (`src/src/`) | State it keeps | Operations |
|---|---|---|---|
| Circuit parser | `arithparser.c`, `arith.c`, `gate.c`, `graph.c`, `support.c` | the circuit under construction: gates by id, adjacency lists, `n_inputs` (kept twice) | read a line: `total`, `input`, `one-input`, `add`, `mul`, `const-mul`, others; end of file |
| Topological sort | `arith.c` 95-180 | two temporary files, a child process, `t_sort` | write edges, fork and exec `/usr/bin/tsort`, wait, read the listing, remove the files |
| Circuit evaluators | `aritheval.c`, `tageval.c` | a slot and a 16-bit counter per internal gate, the position in `t_sort` | evaluate on messages, evaluate on tags |
| Tag algebra | `add.c`, `mul.c`, `fft_ntl.cpp`, `tag.c` | none (the global `use_fft` selects a product) | add, multiply (schoolbook or NTL), multiply by a constant |
| Scheme | `keys.c`, `cf.c`, `prf.c`, `lblprgm.c` | a key pair, tags | generate keys, authenticate, evaluate (and compress), verify |
| Tag files | `io.c` 387-512 | a file of tags; the reader's tag in progress | write tags, read tags |
| Key files | `io.c` 104-341 | `FN.ek` and `FN.sk` | write a pair, read either |
| Message and label files | `io.c` 7-102, `msglbl.c` | a file of numbers | read, write |
| Command line | `main.c` | the arguments and the files | `keygen`, `auth`, `eval`, `vrfy`, `msgeval` |
| Big numbers | `mpi-cf.c` | none | arithmetic of GMP and libgcrypt |
| Timing, logging, error texts | `timemeasure.c`, `logger.h`, `error.c` | counters | output |

How they interact. The parser reads a circuit file and, at its end, calls the
sort, which leaves in the circuit an order of its gates. `eval`, `vrfy` and
`msgeval` hand that circuit to an evaluator, which walks the order and frees
each intermediate result at its last read. The tag evaluator calls the tag
algebra for every gate; `cf_vrfy` calls the message evaluator on the values of
the PRF. Commands only meet in files: `keygen` leaves a key pair, `auth` and
`eval` leave tags, and the next command parses what it finds.

There are no threads, but there are processes: commands are started from a
shell, and nothing keeps one from running while another replaces the files it
reads. What is hard here:

- *Manual reference counting.* Results are freed when a counter of reads gets to
  zero. The counter has 16 bits, a gate may read an operand twice, and the order
  is whatever another program printed.
- *Two nearly equal loops.* `tageval.c` is a copy of `aritheval.c` with an index
  that differs in the initialisation (`evals[i + n_inputs]` where the array is
  indexed from zero), so it writes past its array and leaves slots unset.
- *A child process.* The sort runs in another process, through files; `fork` and
  `execl` are not checked, and a child that comes back from `execl` is a second
  copy of the program, with the same temporary files.
- *Readers that are state machines.* The three file formats are read line by
  line into variables that outlive a line: lines out of order, repeated or cut
  off reach states nobody wrote down.
- *Files that outlive a crash.* Nothing is written atomically, and results of
  `fprintf` and `fclose` are not looked at.
- *Commands that overlap.* A command reads its files one after the other, so the
  keys, the messages and the tags it ends up with may be of different sessions;
  an output may be an input; error codes are assigned twice before they are read.
- *Algebra at its edges.* NTL drops leading zeros and asserts on inner ones; the
  verifier tells the schemes apart by the degree of a tag; a message may be `p`.

What makes each part correct:

- parser: a file that breaks no rule is parsed; the adjacency lists have an edge
  for every operand (the counters of the evaluators start from them); what comes
  out of a complete file is what the evaluators assume;
- sort: the caller sees a complete listing or none, never a part of one; the
  traversal's assumption about the first entry holds; files are removed; it ends;
- evaluators: an operand is there whenever it is read, is freed exactly once and
  at its last read, uninitialised memory is never used, and the call returns the
  value of the output gate;
- tag algebra: the tag is the polynomial the operations stand for, of bounded
  degree, and dies only on zeros;
- scheme: honest results verify for every key and mask and other messages do not,
  except where the FFT product leaves a tag of CF_1 constant (see
  [below](#disagreements-between-code-and-documentation)); `d` bounds exactly the
  degree of the programs that CF_2 evaluates;
- files: what is written is read; what a crash leaves is read as a prefix or not
  at all; keys of two runs are never mixed; stores stay in bounds;
- command line: "Verification ok" is said only of results of authenticated
  messages, and is said of them; a failure does not destroy an earlier output; a
  silent `vrfy` is one that refused.

## The modules

| Module | Models | Composes |
|---|---|---|
| `Circuit` | circuits, their graph, `tsort`'s listings and `t_sort` | |
| `CircuitSemantics` | the algebra (as constants) and the meaning of a circuit | extends `Circuit` |
| `CircuitFunction` | abstract specification: a call is one step from inputs to result | extends `CircuitSemantics` |
| `CircuitEval` | `arith_circ_eval` and `_cf_eval_tags` | extends `CircuitSemantics`, implements `CircuitFunction` |
| `CircuitEval_proofs` | TLAPS proofs about it | extends `CircuitEval`, `Recursion` |
| `TopoSort` | `arith_circ_topology_sort` with its child | extends `Circuit` |
| `TopoSort_proofs` | TLAPS proofs about it | extends `TopoSort` |
| `CircuitParser` | `arith_circ_parse` | extends `Circuit` |
| `CircuitParser_proofs` | TLAPS proofs about it | extends `CircuitParser`, `Recursion` |
| `TagAlgebra` | operations on tags, as functions | |
| `TagOps` | sequences of them against the values of polynomials | extends `TagAlgebra` |
| `CFScheme` | a session of a scheme | extends `TagAlgebra`, `Circuit` |
| `CFScheme_proofs` | TLAPS proofs about it and about `TagOps` | extends `CFScheme`, `TagOps`, `Recursion` |
| `TagFile` | the writer and the reader of tags | |
| `TagFile_proofs` | TLAPS proofs about them | extends `TagFile`, `Recursion` |
| `KeyFiles` | the writer and the readers of keys | |
| `KeyFiles_proofs` | TLAPS proofs about them | extends `KeyFiles`, `Recursion` |
| `Recursion` | lemmas: least elements, steps up to a number, values of a recursion, equations along a circuit, remainders, sums of sequences | extends `Circuit` |
| `MacOps` | `cf_auth`, `cf_eval` and `cf_vrfy` on keys and tags of any session | extends `Circuit` |
| `MacService` | abstract specification: what a user is promised | extends `MacOps` |
| `CFTool` | the five commands as processes over one disk | extends `MacOps`, implements `MacService` |
| `CFTool_proofs` | TLAPS proofs about it | extends `CFTool`, `Recursion` |
| `CircuitSamples`, `MC*` | instances for TLC | |

The chain between them: `CircuitParser` shows that a complete file gives a
`WellFormed` circuit; `TopoSort` shows that the sort of one leaves a `t_sort` in
`TSorts`; `CircuitEval` starts from any well-formed circuit with any `t_sort` in
`TSorts`; `CFScheme` takes the value of the output gate, which `CircuitEval`
shows to be what both evaluators return, and shows in turn that tags of one run
of `keygen` behave as the values and masks `MacOps` makes of them, from which
`CFTool` is built. So each module is checked with the inputs the one before it
can produce. For the first three, and within `CFScheme`, the chain is proved and not only checked:
`CompleteWellFormed` is the assumption on circuits of the others, and
`SortIsComplete` the one on `t_sort`.

Definitions marked as mutants are plausible bugs of the definition that follows
them. No specification uses them: a property is worth having if putting the
mutant in place of the definition makes TLC refute it.

### CircuitEval

Variables are those of the C functions: `evals`, `out_deps_not_evaled`, the index
`i`, `gate_id`. `variant` says which of the two functions runs, since they share
all but the initialisation and what copying a missing result does. One iteration
of the loop is three steps (`SkipInput` or `Compute`, then `FreeFirst`, then
`FreeSecond`), because a gate can use the same operand twice and what happens
between the two decrements matters. Three things the code does that are easy
to miss are in the model:

- iteration 0 is on gate 0, not on `t_sort[0]`, which is never visited, and the
  last assignment to `gate_id` reads the extra entry of `t_sort`;
- `tageval.c` writes `n_inputs` NULLs past `evals[]`, onto the counters that lie
  above it on the stack: any of the counters may be zero afterwards
  (`OverrunZeroes`), or the frame is damaged (`OverrunFrame`); the slots of the
  gates below `2 * n_inputs` hold whatever the stack held (`GARBAGE`);
- `graph_al_get_gate_n_out_deps` asserts that a fan-out is below the largest
  `uint16_t` (`TooWide`), and counters wrap (`Decrement`).

`CircuitFunction` promises, for an evaluable circuit, the value of the output gate
in one step, or the error code of a wrong number of inputs; for circuits that are
not evaluable (a cycle, or a last gate with readers) it promises nothing. The
refinement mapping hides `result` until the call is over.

### TopoSort

`pc` has an entry for each process. `Fork` makes the child; `Exec` replaces it by
`tsort`, which prints one line per step, so the listing is incomplete for a
while; `ExecFails` sends the child down the same code as the caller (`Wait`,
`ReadResult`, `RemoveTemps`), whose actions therefore take a process. `failed`
is a history variable. A cyclic graph is sorted too: `tsort` breaks the loop and
its exit status is ignored.

### CircuitParser

A line is a record of its verb and numbers; the module does to it what
`_arith_circ_parse_line` does, check after check in the order of the code. `Num`
and `NumError` are `str_to_size` and the tokens `BadNum`, `HugeNum` and `NoNum`
stand for text it treats differently. `seen` is a history variable. The circuit
is built by `TotalLine`, `GateLine` and, through it, `CountInput`, `Store` and
`AddEdges`; `AssertLine`, `RejectLine` and `CrashLine` are the ways out.

### TagAlgebra, TagOps, CFScheme

A tag is a function from `0 .. degree` to numbers; the code's array with its
length. `tag_fft_mul_mod` has NTL's two surprises: no leading zeros, and death on
a zero elsewhere (`ABORT`). `CFScheme` does arithmetic modulo a prime `P` and, for
the group of CF_2, modulo `2P + 1`. Keys, messages and masks are enumerated; the
PRF (AES on the label) is external and gives any value.

### TagFile, KeyFiles

Writers emit lines; stdio may have brought any number of them to the disk when
the process dies, and the last may be cut (`Cut`: what is left of a number is a
shorter number, or no number; of a header, one of a smaller degree, one without
a number, on which the reader crashes, or none). `TagFile` keeps the position of
the writer in `at` and models the reader as a state machine, with the memory of
`tmp_tag` (`null`, `live`, `freed`), because the code frees it after each tag
and goes on using `d_written`. The key readers keep little state, so they are
recursive functions of the lines: `SkLine` and `EkLine` say what one line does.
Files written by hand come from `WriteByHand`.

### MacOps, MacService, CFTool

`CFTool` is `main.c`. A session is a sequence of command lines, which `Start`
begins in any order, on any process that is idle; a process runs the steps of
its command one at a time, so that another command can change a file between two
of its reads, or while it writes:

| Command | Steps (`pc`) |
|---|---|
| `keygen` | `compute`, `open` both files, `close_ek`, `close_sk` |
| `auth` | `key`, `inputs` (labels, messages), `compute`, `open`, `close` |
| `eval` | `key`, `inputs` (circuit), `tags`, `compute`, `open`, `close`, and for CF_2 `open_loc`, `close_loc` |
| `vrfy` | `key`, `inputs` (circuit, labels, messages), `tags`, `compute`, `check`, `cleanup` |
| `msgeval` | `inputs` (circuit, messages), `key` if given, `compute`, `open`, `close` |

`disk` maps names to contents, `mem` is what a process has read and computed, and
`said` the code it printed, if any. `Report` is the way out with an error, `Die`
an assertion or a fault, `Kill` a signal. Between `open` and `close` of a file
`FlushOut` may bring any beginning of it to the disk. Details of the code that
decide what happens are in the model: the order of the reads; which error wins
when there are several (`InputError`, `ClaimError`); a name without a file that is
taken for a number (`Numbers`); the labels behind the last one (`Strays`); a
program without a value, which leaves a NULL tag and an unset message
(`WriteNull`, `CheckUnset`); the output written only after the result is there, so
that an evaluation can be in place. The histories `before`, `stale`,
`authenticated` and `accepted` are for the properties.

`MacOps` has the pure parts. A tag is the polynomial it stands for, reduced to
its value at 0, its value at `x`, its degree and the run of `keygen` it belongs
to; `CFScheme` shows that this is what tags are. Degrees add up in `MacOps`, as
they do with the schoolbook product (`use_fft = 0`). That the default product
dies on zero coefficients and may lower a degree is what `CFScheme` shows;
`CFTool` does not see it, so what it says of commands is said where the product
loses nothing. Two commands that write one file at the same time are not
modelled: their bytes would mix.

`MacService` knows no files, tags or processes. It promises that a claim is
confirmed only if it is the result of the program on messages authenticated
before, under its labels and with the keys of the verifier.

## The runs

| Run | Module | States | What it shows |
|---|---|---|---|
| `CircuitEval` | `MCCircuitEval` | 53,280 | both evaluators: safety, exact freeing, no leak, termination, and the refinement of `CircuitFunction`; also `IInv`, the invariant of the proofs |
| `TopoSort` | `MCTopoSort` | 10,770 | the sort under every failure of its system calls |
| `CircuitParser` | `MCCircuitParser` | 223,691 | every sequence of up to five lines out of 33, with or without a failing sort |
| `TagOps` | `MCTagOps` | 715 | the operations on tags are those on polynomials |
| `CFScheme` | `MCCFScheme` | 721,708 | whole sessions of both schemes: what honest claims and others come to, the case of a lost degree included |
| `TagFile` | `MCTagFile` | 286,868 | tags through a file, with kills, and files of any lines |
| `KeyFiles` | `MCKeyFiles` | 63,742 | key pairs through files, with kills, a full disk and reruns, and files of any lines |
| `CFTool` | `MCCFTool` | 1,260,058 | ten sessions of commands in any order, two at a time, with kills and files that cannot be opened: the refinement of `MacService`, honest sessions are confirmed, and what failures leave |
| `CircuitEvalCyclic`, `LostDegree`, `SchemeZero`, `AuthMismatch` | | | each refutes one sentence of the documentation; see [below](#disagreements-between-code-and-documentation) |

Bounds, and why they are enough:

- *CircuitEval.* Every evaluable wiring of three gates over one input, with the
  three types of gate in two orders of ids; a product of wirings with cycles,
  self-loops and readers of the last gate; six larger circuits (two and three
  inputs, ids out of topological order, unused inputs and gates, squares); four
  fan-outs around the limit. Each with every listing `tsort` may print and every
  content of the counters after the overrun. `CounterMod = 4` stands for 2^16, so
  that fan-outs 2 (allowed) and 3 and more (refused) occur: that is the boundary
  the assertion guards. The product of the instance is not commutative, so
  operands in the wrong order would show. The proofs remove the bounds.
- *TopoSort.* Wirings with and without cycles and the larger circuits; all four
  kinds of failure. A call meets at most one failure in this code, since each of
  them either returns or is the last call that can fail.
- *CircuitParser.* Five lines are `total` and a complete circuit of four gates, or
  of three with one line more: a repeated id, a redefinition, a second `total`.
  The erroneous lines have one error each, and each error the code tests for has
  one.
- *TagOps.* Modulo a small prime, operands of degree at most one with all
  coefficients up to and including `P`, three operations in a row: enough for
  products of different lengths, vanishing products, lost leading terms and inner
  zeros. Agreement at all `P` points is agreement of the functions.
- *CFScheme.* `P = 5`, all `x`, masks and generators, messages that are 0, 1,
  ordinary, `P` (which the range check lets through) and `P + 1`; programs with
  each gate, a square, a cube with ids out of order; degree bounds 0, 2 and 3,
  which are zero, and below, on and above the degrees of the programs (1 to 3).
- *TagFile.* Up to three tags of degrees 0, 1 and 2, a kill in every line and
  between any two; foreign files of up to five lines, which hold two tags and a
  line more. The digits of a number are those of base `Base`.
- *KeyFiles.* Three runs of `keygen` (two suffice to mix two pairs, a third comes
  after a mixture), degrees 0, 1 and 3, foreign files of four lines. `Base = 2` lets
  the degree 3 lose a digit when its header is cut (`h d:12` becomes `h d:1`, `h d:`
  without a number, or no header); the proofs hold for any base.
- *CFTool.* Ten sessions of up to seven commands, one for each kind of work (CF_1
  in place, CF_2, several evaluations to one file, a second key pair, a program of
  one input, a program without a value, and odd arguments of each command), each
  in every order, so also with commands whose inputs are not there yet or are
  those of an earlier one. Two processes, which are interchangeable (`Symmetry`):
  each hazard of the code is one command between two steps of another. `P = 11`
  and messages below, on and above it; the masks are chosen so that different
  programs and labels have different ones, as a pseudorandom function does but for
  a negligible chance. All keys have one `p`, and no label file repeats a label: the
  schemes ask for that, since under one label `x + y` and `x + x` are the same
  program.

Deadlock is checked in every passing run: the specifications end in explicit
actions of a finished program (`Finished`, `Over`, `ParentFinished`, `Stop`,
`Rest`, `SessionOver`), so a state in which the program is stuck elsewhere would be reported. In
`TagFile` that is how a failure of `assert(d+1 == d_written || d == 0)` would show:
`Header` and its siblings are guarded by it, and nothing else takes a header line.

Fairness. `CircuitEval` has weak fairness of its step: one thread that never
waits for anything but the processor. `TopoSort` has weak fairness of the steps
of its two processes together; the caller only waits for the child, `tsort` prints
finitely many lines, and a child that came back from `execl` runs the rest of a
program that ends. Nothing else states liveness: a command is a straight line of
steps, and files are read once from start to end.

## The proofs

Seven modules hold theorems, for every value of the constants of the components
they are about. All are about whole specifications (`Spec => []...`); each has an
inductive invariant.

An eighth, `Recursion`, has what they share. The provers cannot instantiate an
induction theorem that takes an operator, so an induction is made on a set: the
numbers for which the claim holds have 0 and with each the next one (`UpTo`), or
those for which it fails would have a least one (`Least`). A recursive function
has its equation as soon as some function satisfies it, and `Recursive` shows,
along the same line, that a recursion of `n` steps has values. With that the
readers of keys, and the lengths a batch of tags takes up in a file, can be
reasoned about. For circuits the line is replaced by the edges: equations that
give each element its value from those before it have a solution if the graph is
finite and has no cycle (`Solution`: what is solved so far can be extended by one
element more, until there is none left), in particular equations for the gates of
a circuit (`GatesSolved`), and what holds of a gate as soon as it holds of its
operands holds of every gate (`AlongCircuit`).
Numbers modulo `n` and sums are there too: the provers do not reduce products, so
congruence (`Cong`) has its lemmas, and a sum over a finite set, which the models
write with a fold, is the sum of a sequence that is zero outside it (`FoldIsSum`).

### The evaluators

`CircuitEval_proofs` proves with TLAPS, for every set of well-formed circuits (of
any size, any `t_sort` that `tsort` may leave, both evaluators), every algebra and
every width of the counters:

| Theorem | Statement |
|---|---|
| `TypeCorrect` | `Spec => []TypeOK` |
| `Inductive` | `Spec => []IInv` |
| `OperandsAliveCorrect` | `Spec => []OperandsAlive` |
| `ResultIsMeaning` | `Spec => []ResultCorrect` |
| `GarbageIsUntouched` | `Spec => []GarbageUntouched` |
| `CountersAreExact` | `Spec => []CountersExact` |
| `FreedExactly` | `Spec => []FreedAtLastRead` |
| `Refinement` | `Spec => ImplementsFunction` |
| `MeaningExists` | every acyclic circuit has a meaning on inputs of the right number |

They rest on six assumptions about constants, which TLC evaluates in the runs:
`AlgebraAssumption` (values are closed under the operations, `NULL` is none of
them), `CircuitsAssumption` (circuits are well formed: what
`CompleteWellFormed` proves of the parser), `InputVectorsAssumption`,
`MeaningAssumption` (`Meaning` solves the equations of the gates of an acyclic
circuit; `MeaningExists` proves that there is a solution, for every algebra),
`CounterAssumption` (`CounterMod > 2`) and `GarbageAssumption` (`GARBAGE` is no
value).

The argument. `OperandsAlive` is not inductive: that a slot is not freed yet
depends on its counter, and the counter on which reads have happened. Let
`Pending(k)` be the operand positions that hold `k` and have not been counted down
yet, a function of the position in the order. `IInv` adds to the types, for every
internal gate `k`:

- its counter is the number of pending reads, unless the overrun zeroed it;
- its slot holds the meaning of `k` from the iteration of `k` on, until there is
  no pending read, and then `NULL`; before that iteration it is unset.

An order that respects the edges has visited every operand of a gate it visits
(`TopologicalSort`), and the positions of the gate itself are pending, so its
operands are alive (`Alive`). `FreeFirst` and `FreeSecond` remove one pending
position each (`ReleaseInv`). A zeroed counter is the delicate case: after `r`
reads it is `CounterMod - r`, and it could come back to zero only after
`CounterMod` reads. The assertion on the fan-out excludes that, so the slot is
freed only by the cleanup and everything still holds. The output gate has no
readers, so its slot is full at the end (`AtCopy`), and by then every internal
gate has been visited (`AllVisited`), so no slot holds garbage for the cleanup to
free. `Refinement` maps every step to a stutter except the last one.

The steps of the invariant's proof go by action; the sort's positions are related
to the order by `Position`, counting by `PendingShape` and `DecrementCount`.

`CountersExact` has no run of its own: it is a part of `IInv`, which has one.

Its second half is about the circuits the theorems above exclude as well, those
with cycles or with readers of the last gate, in any order `tsort` may print:

| Theorem | Statement |
|---|---|
| `AnyInductive` | `Spec => []AnyInv` |
| `NothingWrong` | `Spec => []NoWrongResult` |
| `NothingLeaks` | `Spec => NoLeak` |

`AnyInv` says that a slot has a value only from the iteration of its gate on, and
that a gate that was computed comes after the gates it reads (`SlotsInv`). On a
cycle the first gate in the order reads one that comes later, so a loop that ran
to its end has met no cycle (`CycleIsSeen`), except one of the gate that is never
visited. That an order has a gate once (`OnePlace`) gives `NothingLeaks`.

### The parser

`CircuitParser_proofs`, for files of any lines, in any order and number:

| Theorem | Statement |
|---|---|
| `TypeCorrect` | `Spec => []TypeOK` |
| `Inductive` | `Spec => []IInv` |
| `EdgesCover` | `Spec => []EdgesCoverOperands` |
| `LegalParse` | `Spec => []LegalFilesParse` |
| `CompleteWellFormed` | `Spec => []CompleteFilesWellFormed` |

`IInv` is the types, `EdgesCoverOperands` (which is inductive: redefining a gate
only adds edges) and `LegalInv`: as long as the lines read break no rule, the
gates stored are those of the lines seen (`Stored`), `n_inputs` is the number of
inputs among them (`Counted`), and the lists have an edge per operand and no more
(`Listed`). That a complete file has a gate under every id is a pigeonhole: as
many different ids as there are numbers below `total` are all of them (`AllIds`),
and inputs that precede the other ids are an initial part (`InitialPart`). It rests
on `TokensAssumption`, `LinesAssumption`, `NullAssumption` and
`MaxLinesAssumption`: the shapes of lines, and that tokens are no numbers.

### The sort

`TopoSort_proofs`, for well-formed circuits (`CircuitsAssumption`) and any faults
(`FaultsAssumption`):

| Theorem | Statement |
|---|---|
| `TypeCorrect` | `Spec => []TypeOK` |
| `Inductive` | `Spec => []IInv` |
| `SortIsComplete` | `Spec => []SortComplete` |
| `TempsAreRemoved` | `Spec => []TempsRemoved` |

`SortComplete` speaks of the end of the call; `IInv` says for every point of the
two processes what has been done: which of them holds the files (`Control`,
`Temps`), that the edges file has all pairs before `tsort` starts and `printed` is
always the start of a listing in which every gate comes after its operands or
closes a cycle (`Printed`), and that what is read back was complete (`Kept`). A
listing can stop only when there is nothing left to print, so it has every gate
that has an edge; `Padded` adds nothing that breaks the order.

### The files of tags

`TagFile_proofs`, for files of any content, whether the program wrote them, was
killed on the way or somebody else did:

| Theorem | Statement |
|---|---|
| `TypeCorrect` | `Spec => []TypeOK` |
| `Inductive` | `Spec => []IInv` |
| `StoresAreInBounds` | `Spec => []StoresInBounds` |
| `CorruptionNeedsTag` | `Spec => []CorruptedAfterTag` |
| `AssertionHolds` | the assertion at a header, `d+1 == d_written` or `d == 0`, never fails |

`IInv` relates the memory of `tmp_tag` to `d`, `d_written` and the tags complete so
far (`ReaderInv`): while a tag is being read its memory is live and has `d + 1`
places of which `d_written` are filled; it is freed exactly between two tags. What
a line can be is `WriterInv`. Assumptions: `TokensAssumption`, `BatchesAssumption`,
`ForeignLinesAssumption`, on the shapes of lines and tags.

Of the files the program wrote, whole or up to a kill:

| Theorem | Statement |
|---|---|
| `FilesInductive` | `Spec => []FilesInv` |
| `WrittenIsRead` | `Spec => []RoundTrip` |
| `TornIsNearlyPrefix` | `Spec => []TornIsPrefix` |

Both properties speak of the end of a reading; `FilesInv` says for each point of it
where in the batch the reader is. `Layout(L)` gives the line at which each tag of
the batch begins (`LaidOut`: there is such an `L`, and the flattened batch has the
line of each tag at its place, by induction on the number of tags). The file agrees
with the flattened batch but for a last line that was cut (`FileInv`). Between two
lines the reader has stored all tags before the current one and the first
`d_written` coefficients of it (`InStep`), until it meets the cut line, after which
it is `Nearly` right or has refused (`SyncInv`).

### The files of keys

`KeyFiles_proofs`, for any degree bound and number of runs of `keygen`, killed
anywhere and with a disk that is full at any time, and for files of any content:

| Theorem | Statement |
|---|---|
| `TypeCorrect` | `Spec => []TypeOK` |
| `PairInductive` | `Spec => []KInv` |
| `NumbersInPlace` | `Spec => []FieldsInPlace` |
| `PairStaysWhole` | `Spec => []PairWhole` |
| `FilesAccepted` | `Spec => []AcceptedFiles` |

`KInv` says that there are a run and a degree bound of which both files are
parts (`Pair`): a beginning of the file of that run, whose last line may be cut.
Opening both before writing either is what makes this inductive, for at that
moment any two files become parts of the run to come. Then reading a part is
followed line by line: the numbers are those of the run and in their places
(`InEk`, `InSk`), the powers are counted from the third line on (`EkGoes`,
unless the file ends in a header with digits missing, `TornHeader`), and of a
whole file no number is cut (`EkUncut`, `SkUncut`). `FilesAccepted` compares the
readers with `IsSk` and `IsEk`, by induction on the lines read (`SkTold`,
`EkTold`): once a line of powers has come the reader is in the section its
header began, and what it counted is the number of lines since that count.
Assumptions: `DegreesAssumption`, `BoundsAssumption`, `FaultsAssumption`,
`NumbersAssumption`, `ForeignLinesAssumption`, `BaseAssumption`: the shapes of
lines, and that `BadNum`, `NoNum` and `NULL` are no numbers.

### The command line

`CFTool_proofs`, for any number of processes, any sessions, circuits and files:

| Theorem | Statement |
|---|---|
| `TypeCorrect` | `Spec => []TypeOK` |
| `Inductive` | `Spec => []IInv` |
| `UnsetHarmless` | `Spec => []UnsetMessageHarmless` |
| `SilentRefusal` | `Spec => []SilenceIsRefusal` |
| `FailuresKeep` | `Spec => FailureKeepsOutputs` |
| `FilesAreTyped` | `Spec => []FilesTyped` |
| `LocBelongs` | `Spec => []LocBelongsToOut`, if `NULL` is not a sequence of one element |
| `HonestVerifies` | `Spec => []HonestSessionVerifies` |

A step of a process changes nothing of the others and no file that is not an
output of its command (`Own`), and running commands have different outputs
(`Exclusive`). So an output is as it was at the start until its own command opens
it (`Untouched`), which no failing step comes after, except where
`FailureKeepsOutputs` says so: there `HasResult` is needed, that an evaluation of a
program with a value has a tag to write. `Settled` says what `vrfy` knows at each
of its steps, from which `UnsetHarmless` and `SilentRefusal` follow.

`FilesTyped` says what the files hold after any number of commands, kills and
overlaps, and what a process has of them in memory: at most one key, tags, numbers;
and that a command that computes has read a circuit without an error. Inductive it
is only together with what evaluations return, so the values and degrees of circuits
come in: `ValueIsNumber` and `DegreeIsPositive`, both along the circuit
(`AlongCircuit`), after `Solution` has shown that the recursive definitions have a
value at all.

`LocBelongs` needs more than the two files. `LocInv` says of each process what it
has to write (`Computed`: tags that are not compressed, or a tag and its compression;
between the two closes `OUTFILE` is on the disk as computed), and of each name that it
is being written, stale, or has the two files that belong together (`Sound`). Each
step of a process has one of a few effects on a name (`Effect`), none of which
breaks `Sound`. Of tags of one run that are not compressed the evaluation is not
either, since degrees add up and do not get lost: otherwise `eval` without CF_2
could leave a tag that looks compressed and has nothing beside it. The hypothesis
says that the placeholder for "no file" is not mistaken for a file with one tag.

`HonestVerifies` looks at `vrfy` from its end. `Told`: a `vrfy` that has read a tag and
is past its check said `E_VRFY`, or there was a reason not to (`Refuted`), in terms of
what it has read only. `HonestIsNotRefuted`: for key, tags and messages of an honest
session there is none, in either scheme, whether the verifier was given the messages
or the result. That uses that only messages the scheme can authenticate are in
`authenticated` (`AuthInv`) and that the value of the program on the messages is the
first coefficient of the evaluated tag (`FreshEvaluated`).

Assumptions: `NamesAssumption`, `CommandsAssumption` (what a command line can be;
constants of circuits are integers, lines of label files numbers or `BadNum`),
`NumbersAssumption` (`P` is positive; message files have numbers or `BadNum`),
`FaultsAssumption`, `ErrorsAssumption`.

### The scheme

`CFScheme_proofs`, for any prime `P`, any program, messages, masks, key and degree
bound, with either product:

| Theorem | Statement |
|---|---|
| `SessionInductive` | `Spec => []SessionInv` |
| `DegreesExact` | `Spec => []DegreeBoundExact` |
| `GatesHomomorphic` | `Spec => []TagsHomomorphic` |
| `HonestIsAccepted` | `Spec => []HonestAccepted` |
| `OthersAreRejected` | `Spec => []OthersRejected` |
| `OperationsHomomorphic` | `OpsSpec => []Homomorphic`, for any operands and constants |
| `OnlyFFTProductsDie` | `OpsSpec => AbortOnlyOnZero`, if `ABORT` is no tag |

The argument has six parts.

- *Tags are polynomials.* A tag is read as a sequence of coefficients that is zero
  from some place on (`Coef`), and `_compute_rho` as the sum of its terms
  (`RhoPoly`). The value of a sum, a shift and a multiple of a sequence is the sum,
  the shift by a power of `z` and the multiple of the value; a convolution is a sum
  of shifted multiples (`ProductSteps`), so its value is the product. That gives one
  lemma per operation: `AdditionIs`, `ConstantIs`, `NaiveIs`, and `FFTIs` for the
  product without its leading zeros. They say at once what happens at the key and,
  at 0, to the message.
- *Circuits.* The recursive definitions `MessageValues`, `TagValues` and
  `ProgramDegree` are rewritten for any circuit and have values (`GatesSolved`).
  Along the circuit, the tag of a gate takes at the key the value of the masks and
  at 0 that of the messages (`GateValues`), and its degree is at most that of the
  program, and exactly that without the FFT.
- *The session.* `HonestAccepted` compares a verdict with an evaluation that
  happened two steps before. `SessionInv` carries that over: what is authenticated
  fits the keys, once an evaluation is done its result is the one the program makes
  of the tags, or the compression of that, and once a verification is done its
  verdict is the one that follows from the result. No state of the session says so
  by itself, hence the history in the invariant is made of functions of what is
  still there (`ResultIs`, `VerdictOf`).
- *The group.* A generator is the square of a drawn `t` modulo `Q = 2P + 1`, and not
  1. By Fermat's theorem (`Fermat`: multiplying `1 .. Q - 1` by a number permutes
  them, so the products are equal) its `P`-th power is 1. As `P` is prime,
  its powers are equal exactly for exponents that are congruent modulo `P`
  (`PowPeriod`, `PowSame`). Divisibility by a prime comes from the least multiple
  that works, not from greatest common divisors.
- *Verification.* The compressed tag is a power of the generator with the value of
  the tag without its coefficient 0 as the exponent (`CompressedIs`), so the
  equation of `cf_vrfy2` holds exactly if the claim is the message modulo `P`
  (`ComparedIs`).
- *The lost degree.* A result of degree 0 that was not compressed is a constant
  `c`, so the mask of the program and its true message are both `c`
  (`RhoOfConstant`, `DegreeLost`); without the FFT there is none, since every degree
  is positive (`DegreePositive`). `cf_vrfy` compares `g^c` with `g^claim c`: for the
  true message that is `c = 1`, for a key without `g` it dies (`SaysOfLostDegree`).
  A key has a `g` exactly if it has powers, and `SessionInv` says that a session
  that died has lost a degree or has no result (`Died`). So `HonestAccepted` and
  `OthersRejected` hold for every session, and say of this case what happens in it.

`OperationsHomomorphic` and `OnlyFFTProductsDie` are about `TagOps` and use the same
lemmas about operations: `OpsInv` is that the accumulator is a tag whose values are
those of the reference. `FFTAborts` looks at the assertions of the FFT product: they
fail when no coefficient is left or one is missing in the middle (`Gap`).

Assumptions: `PrimeAssumption` and `SchemeAssumption` (`P` and, for CF_2, `2P + 1`
are primes, as `cf_key_gen` chooses them), `CircuitsAssumption` (programs are
well-formed and evaluable, their constants integers), `OperandsAssumption` (tags and
integers). For `OnlyFFTProductsDie` also that the placeholder `ABORT` is not itself
a function from `0 .. l` to integers.

### What is only model-checked

- Liveness (`Terminates`, `CallEnds`): out of the prover's reach.
- `ImplementsMac`: it holds because different programs have different masks, which
  of a pseudorandom function is true but for a negligible chance. The instance
  chooses such masks; an assumption that said so of all programs would be one that
  no function satisfies, since there are more programs than masks.

`MCCircuitEval` holds a recursive operator, for the meaning of its instances; the
modules the proofs use hold none.

## Disagreements between code and documentation

Four are checked by a run that finds the documented sentence violated:

| Run | Documented | Code |
|---|---|---|
| `CircuitEvalCyclic` | `error.h:12` "Everything OK." | `aritheval.c:92` returns `E_NOERR` without a result on a cycle |
| `LostDegree` | thesis, `_homo-macs.tex:122` the evaluated tag is accepted with the evaluated message | `cf.c:156` takes a CF_1 tag of degree 0 for one of CF_2: it dies of a key without `g`, else it refuses the message |
| `SchemeZero` | `README.md:19` the resulting tag is written | `fft_ntl.cpp:53` and `:41` die on products with a zero coefficient |
| `AuthMismatch` | `README.md:18` "The line count of both files must be the same." | `main.c:193` overwrites the error: `auth` goes on with what lies behind the labels |

The second in full. The FFT product drops leading zeros, so messages that equal
their masks, whose tags have no slope, give an evaluated tag that is a constant `c`.
With a key of CF_1 the verifier computes with a `g` that is `NULL`. With a key of
CF_2 it compares `g^(c - claim)` with `c`: the true message `c` passes only if it
is 1, and if `c` is a power of `g` another message passes, which is not authenticated
(`OthersRejected` names it). For a large prime and a pseudorandom mask the chance is
negligible; the schoolbook product keeps the zeros and is not affected.

Others the models show and no run states:

- `tageval.c:51` announces "null tags"; line 52 writes to `evals[i + n_inputs]`, so
  the first slots stay unset (`Initialise`). That is harmless on evaluable circuits
  as far as garbage and freeing go (`GarbageIsUntouched`, `ResultIsMeaning`). With
  many inputs the overrun reaches the frame, which no property excludes
  (`OverrunFrame`);
- `arith.c:107` documents `E_INVAL_ARITH` for what is not a valid circuit; a cyclic
  one is sorted without an error, since `tsort`'s exit status is ignored
  (`TsortPrints`, with no gate unblocked);
- `arith.c:108` documents `E_ERRNO_ERROR`; a failing `fork` or `execl` is not
  reported and leaves a `t_sort` of zeros (`ForkFails`, `ExecFails`; `SortComplete`
  says it is never worse);
- `arith.h:106` says that `n_inputs` is the number of input gates; a repeated input
  line is counted twice (`CountInput`);
- `keys.c:54` speaks of a random `t` in `[2, q-1]`; `t = 2` dies on the assertion
  two lines below (`DrawSmallT`);
- `io.c:245` sets `E_FILE_FORMAT` for an unknown variable in a secret key, and the
  next line overwrites it (`SkLine`; `AcceptedFiles` says what exactly is accepted);
- `io.c:282` means to ignore comments and new lines in an evaluation key; the
  newline is stripped before the test, and a blank line is refused
  (`AcceptedFiles`);
- `README.md:20` says that the result of `vrfy` is printed; when a tag of CF_1 is
  refused `cf.c:167` has overwritten `E_NO_VRFY` with `E_NOERR`, and nothing is
  printed (`SilenceIsRefusal` says that it is the only silence).

## What is not modelled

- `arith_circ_eval_pinocchio` and the two I/O functions it uses (`aritheval.c`
  149-210, `arithparser.c` 1-139): an alternative evaluator that runs an external
  Python program; nothing calls it.
- Splitting of text into lines, verbs and numbers: lines are records. Which
  tokens are numbers is modelled; how they are spelled is not.
- The arithmetic of GMP, libgcrypt and NTL: integers modulo a prime. The primes'
  generation and their size, and the widths of labels and messages, are left out;
  so is `LINE_LEN`, the 512 characters a line of a file may have when it is read:
  numbers of more than 2040 bits are written in longer lines and do not come back.
- AES, random numbers, timing, logging, usage texts, the unit tests, the scripts
  and the thesis.
- Failures of memory allocation: the code asserts or ignores them alike.
- Of the command line: output to the screen without `-o`, options that choose
  the logging, prefixes of the names of functions, and exit codes
  (always 0). The name of the local tag is built in a buffer one byte short
  (`main.c:294`): names are atomic here.
- Two commands that write one file at the same time, and a label used twice.

## Plan

Done, in this order: `Circuit`, `CircuitSemantics`, `CircuitEval` (the most
important behaviour: everything else only feeds it), `CircuitFunction` and the
refinement, the proofs, `TopoSort`, `CircuitParser`, `TagAlgebra`, `TagOps`,
`CFScheme`, `TagFile`, `KeyFiles`; then `MacOps`, `MacService` and `CFTool`, the
composition, and the proofs about `CFTool`, `TopoSort`, `CircuitParser`, `TagFile`
and `KeyFiles`, about the evaluators on any circuit, and about `CFScheme` and `TagOps`.

What could follow:

1. An abstract specification of the sort (one step to a member of `TSorts`, or to
   an error) that `TopoSort` implements when nothing fails.
2. The masks of different programs as an assumption about pairs of programs that occur
   in one session, from which `ImplementsMac` could be proved.
