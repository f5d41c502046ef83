----------------------------- MODULE MCCFTool ------------------------------
(***************************************************************************)
(* Instances of CFTool.                                                    *)
(***************************************************************************)
EXTENDS CFTool, CircuitSamples, TLC

Sum == FromGates(<<In, In, Add(0, 1)>>, 2)
Product == FromGates(<<In, In, Mul(0, 1)>>, 2)
Triple == FromGates(<<In, Cst(0)>>, 1)
Cyclic == FromGates(<<In, In, Mul(0, 2)>>, 2)

\* The two originals and their sum; one original; no lines; a name that is a
\* number without a file; one that is neither; what msgeval writes.
MCContents(n) ==
  CASE n = "m23" -> <<2, 3>>
    [] n = "m2" -> <<2>>
    [] n = "empty" -> <<>>
    [] OTHER -> NULL
MCHexValue(n) ==
  CASE n = "5" -> 5 [] n = "a" -> 10 [] n = "b" -> 11 [] n = "c" -> 12 [] OTHER -> NULL

MCPRF(r, l) == 31 * r + (IF l = 1 THEN 10 ELSE IF l = 2 THEN 23 ELSE 47)

Line == [verb |-> "auth", bits |-> 128, cf |-> "CF_1", d |-> 0, key |-> NULL,
         arith |-> NULL, labels |-> NULL, messages |-> NULL, tags |-> NULL, out |-> "t"]

keygen(cf, d) == [Line EXCEPT !.verb = "keygen", !.cf = cf, !.d = d, !.out = "k"]
auth(labels, messages) ==
  [Line EXCEPT !.key = "k", !.labels = labels, !.messages = messages]
eval(cf, c, tags, out) ==
  [Line EXCEPT !.verb = "eval", !.key = "k", !.cf = cf, !.arith = c, !.tags = tags, !.out = out]
vrfy(c, labels, messages, tags) ==
  [Line EXCEPT !.verb = "vrfy", !.key = "k", !.arith = c, !.labels = labels,
               !.messages = messages, !.tags = tags]
msgeval(c, messages, key) ==
  [Line EXCEPT !.verb = "msgeval", !.key = key, !.arith = c, !.messages = messages, !.out = "a"]

keygen1 == keygen("CF_1", 0)
keygen2 == keygen("CF_2", 1)
auth12 == auth(<<1, 2>>, "m23")

(***************************************************************************)
(* Sessions of one kind of work each; their commands in any order.         *)
(***************************************************************************)
\* CF_1, evaluated in place; all originals, or what msgeval makes of them.
Plain == <<keygen1, auth12, eval("CF_1", Sum, "t", "t"), msgeval(Sum, "m23", "k"),
           vrfy(Sum, <<1, 2>>, "m23", "t"), vrfy(Sum, <<1, 2>>, "a", "t")>>
\* CF_2, the right message and a wrong one.
Compact == <<keygen2, auth12, eval("CF_2", Sum, "t", "u"),
             vrfy(Sum, <<1, 2>>, "5", "u"), vrfy(Sum, <<1, 2>>, "b", "u")>>
\* Three evaluations to one file, one of them of too high a degree.
Rewritten == <<keygen2, auth12, eval("CF_2", Sum, "t", "u"),
               eval("CF_1", Product, "t", "u"), eval("CF_2", Product, "t", "u"),
               eval("CF_2", Triple, "u", "u")>>
\* A second key pair over the first.
Rekeyed == <<keygen2, keygen1, auth12, eval("CF_2", Sum, "t", "u"),
             vrfy(Sum, <<1, 2>>, "5", "u")>>
\* A program of one input.
Single == <<keygen1, auth(<<1>>, "m2"), eval("CF_1", Triple, "t", "u"),
            msgeval(Triple, "m2", NULL),
            vrfy(Triple, <<1>>, "m2", "u"), vrfy(Triple, <<1>>, "a", "u")>>
\* A program without a value.
NoValue == <<keygen2, auth12, eval("CF_1", Cyclic, "t", "t"), eval("CF_2", Cyclic, "t", "u"),
             vrfy(Cyclic, <<1, 2>>, "m23", "t"), msgeval(Cyclic, "m23", NULL)>>

\* Arguments that are refused or deadly.
OddAuth == <<keygen1, auth(<<0, 2>>, "m23"), auth(<<1, 9>>, "m23"),
             auth(<<1>>, "m23"), auth(<<BadNum>>, "m2")>>
OddVrfy == <<keygen1, auth(<<1>>, "m2"), vrfy(Triple, <<0>>, "m2", "t"),
             vrfy(Sum, <<1, 2, 3>>, "m23", "t"), vrfy(Triple, <<1, 2>>, "m23", "t")>>
OddKeys == <<keygen("CF_2", 0), [keygen1 EXCEPT !.bits = 100], keygen1,
             auth(<<1>>, "c"), eval("CF_2", Sum, "t", "u")>>
OddFiles == <<keygen1, auth(<<1, 2>>, "none"), eval("CF_1", BadArith, "t", "u"),
              eval("CF_1", Sum, NULL, "u"), vrfy(Sum, <<1>>, "c", "t"),
              msgeval(Sum, "m2", NULL), msgeval(Sum, "empty", "k")>>

MCSessions ==
  {Plain, Compact, Rewritten, Rekeyed, Single, NoValue,
   OddAuth, OddVrfy, OddKeys, OddFiles}

MCStray == {3, NULL}

\* Mismatch alone: fewer labels than messages.
MismatchSessions == { <<keygen1, auth(<<1>>, "m23")>> }

Symmetry == Permutations(Procs)
=============================================================================
