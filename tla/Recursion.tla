------------------------------ MODULE Recursion ------------------------------
(***************************************************************************)
(* Induction and recursion for the proofs.  The provers cannot instantiate *)
(* an induction theorem that has an operator for a parameter; here what is *)
(* proved by induction is a set of numbers, and what is defined by         *)
(* recursion a function, so that the lemmas are about sets only.  On that  *)
(* rest congruence modulo n, sums of sequences, and equations along the    *)
(* edges of a circuit.                                                     *)
(***************************************************************************)
EXTENDS Circuit, FiniteSetTheorems, NaturalsInduction, WellFoundedInduction, TLAPS

\* A non-empty set of naturals has a least element.
LEMMA Least ==
  ASSUME NEW T \in SUBSET Nat, T # {}
  PROVE  \E n \in T : \A m \in T : n <= m
<1>1. PICK n \in T : \A m \in T : ~ (<<m, n>> \in OpToRel(<, Nat))
  BY NatLessThanWellFounded, WFMin
<1>2. \A m \in T : ~ (m < n)
  BY <1>1 DEF OpToRel
<1> QED
  BY <1>2

\* A set that has 0, and with every number the next one up to n, has them all.
LEMMA UpTo ==
  ASSUME NEW n \in Nat, NEW P, 0 \in P, \A i \in 1 .. n : i - 1 \in P => i \in P
  PROVE  \A i \in 0 .. n : i \in P
<1>1. PICK T : T = {i \in 0 .. n : i \notin P}
  OBVIOUS
<1>2. SUFFICES ASSUME T # {} PROVE FALSE
  BY <1>1
<1>3. T \in SUBSET Nat
  BY <1>1
<1>4. PICK i \in T : \A m \in T : i <= m
  BY <1>2, <1>3, Least
<1>5. i \in 1 .. n /\ i - 1 \in 0 .. n /\ i \notin P
  BY <1>1, <1>4
<1>6. i - 1 \in P
  BY <1>1, <1>3, <1>4, <1>5
<1> QED
  BY <1>5, <1>6

(***************************************************************************)
(* The values of a recursion: f starts with a and goes on, step by step,   *)
(* with F.                                                                 *)
(***************************************************************************)
StepsIn(n, S) == [1 .. n -> [S -> S]]
Recurs(f, n, S, a, F) ==
  f \in [0 .. n -> S] /\ f[0] = a /\ \A i \in 1 .. n : f[i] = F[i][f[i - 1]]

\* There are such values.
LEMMA Recursive ==
  ASSUME NEW n \in Nat, NEW S, NEW a \in S, NEW F \in StepsIn(n, S)
  PROVE  \E f : Recurs(f, n, S, a, F)
<1>1. PICK P : P = {m \in 0 .. n : \E f : Recurs(f, m, S, a, F)}
  OBVIOUS
<1>2. 0 \in P
  <2>1. PICK f : f = [i \in 0 .. 0 |-> a]
    OBVIOUS
  <2>2. Recurs(f, 0, S, a, F)
    BY <2>1 DEF Recurs
  <2> QED
    BY <1>1, <2>2
<1>3. ASSUME NEW m \in 1 .. n, m - 1 \in P
      PROVE  m \in P
  <2>1. PICK f : Recurs(f, m - 1, S, a, F)
    BY <1>1, <1>3
  <2>2. /\ f \in [0 .. (m - 1) -> S] /\ f[0] = a
        /\ \A i \in 1 .. (m - 1) : f[i] = F[i][f[i - 1]]
    BY <2>1 DEF Recurs
  <2>3. PICK x : x = F[m][f[m - 1]]
    OBVIOUS
  <2>4. x \in S
    <3>1. m - 1 \in 0 .. (m - 1) /\ F[m] \in [S -> S]
      BY DEF StepsIn
    <3> QED
      BY <2>2, <2>3, <3>1
  <2>5. PICK g : g = [i \in 0 .. m |-> IF i = m THEN x ELSE f[i]]
    OBVIOUS
  <2>6. g \in [0 .. m -> S] /\ g[0] = a
    BY <2>2, <2>4, <2>5
  <2>7. \A i \in 1 .. m : g[i] = F[i][g[i - 1]]
    <3> TAKE i \in 1 .. m
    <3>1. CASE i = m
      <4>1. g[i] = x /\ g[i - 1] = f[m - 1]
        BY <2>5, <3>1
      <4> QED
        BY <2>3, <3>1, <4>1
    <3>2. CASE i # m
      <4>1. i \in 1 .. (m - 1) /\ g[i] = f[i] /\ g[i - 1] = f[i - 1]
        BY <2>5, <3>2
      <4> QED
        BY <2>2, <4>1
    <3> QED
      BY <3>1, <3>2
  <2>8. Recurs(g, m, S, a, F)
    BY <2>6, <2>7 DEF Recurs
  <2> QED
    BY <1>1, <2>8
<1>4. n \in P
  <2>1. n \in Nat /\ 0 \in P /\ \A m \in 1 .. n : m - 1 \in P => m \in P
    BY <1>2, <1>3
  <2>2. \A m \in 0 .. n : m \in P
    BY ONLY <2>1, UpTo
  <2> QED
    BY ONLY <2>1, <2>2
<1> QED
  BY <1>1, <1>4
-----------------------------------------------------------------------------
(***************************************************************************)
(* Equations along a finite graph without cycles: the value of g is F[g]   *)
(* of the others, and depends on those of Before[g] only.                  *)
(***************************************************************************)
NoCycle(G, Before) ==
  \A T \in SUBSET G : T # {} => \E g \in T : Before[g] \cap T = {}

Equations(G, S) == [G -> [[G -> S] -> S]]

DependsOn(G, S, F, Before) ==
  \A g \in G : \A u, v \in [G -> S] :
    (\A k \in Before[g] : u[k] = v[k]) => F[g][u] = F[g][v]

Solves(v, G, S, F) == v \in [G -> S] /\ \A g \in G : v[g] = F[g][v]

\* They have a solution: one more of them, that of a gate whose predecessors have
\* values already, can always be met.
LEMMA Solution ==
  ASSUME NEW G, IsFiniteSet(G), NEW S, NEW s \in S, NEW Before \in [G -> SUBSET G],
         NEW F \in Equations(G, S), NoCycle(G, Before), DependsOn(G, S, F, Before)
  PROVE  \E v : Solves(v, G, S, F)
<1> DEFINE
  Met(D, v) == /\ D \in SUBSET G /\ v \in [G -> S]
               /\ \A g \in D : v[g] = F[g][v] /\ Before[g] \subseteq D
<1>1. PICK N, M : /\ N = Cardinality(G)
                  /\ M = {n \in 0 .. N : \E D, v : Met(D, v) /\ Cardinality(D) = n}
  OBVIOUS
<1>2. N \in Nat
  BY <1>1, FS_CardinalityType
<1>3. 0 \in M
  <2>1. PICK D, v : D = {} /\ v = [g \in G |-> s]
    OBVIOUS
  <2>2. Met(D, v)
    BY <2>1
  <2>3. Cardinality(D) = 0
    BY <2>1, FS_EmptySet
  <2> HIDE DEF Met
  <2> QED
    BY <1>1, <1>2, <2>2, <2>3
<1>4. ASSUME NEW n \in 1 .. N, n - 1 \in M
      PROVE  n \in M
  <2>1. PICK D, v : Met(D, v) /\ Cardinality(D) = n - 1
    BY <1>1, <1>4
  <2>2. IsFiniteSet(D) /\ D # G /\ D \in SUBSET G
    BY <1>1, <1>2, <2>1, FS_Subset
  <2>3. PICK T : T = G \ D
    OBVIOUS
  <2>4. PICK g \in T : Before[g] \cap T = {}
    <3>1. T \in SUBSET G /\ T # {}
      BY <2>2, <2>3
    <3> QED
      BY <3>1 DEF NoCycle
  <2>5. g \in G /\ g \notin D /\ Before[g] \subseteq D
    BY <2>3, <2>4
  <2>6. PICK w, E : w = [v EXCEPT ![g] = F[g][v]] /\ E = D \cup {g}
    OBVIOUS
  <2>7. /\ F[g][v] \in S /\ v \in [G -> S] /\ w \in [G -> S] /\ w[g] = F[g][v]
        /\ \A k \in D : w[k] = v[k]
    <3>1. F[g] \in [[G -> S] -> S]
      BY <2>5 DEF Equations
    <3>2. F[g][v] \in S /\ v \in [G -> S]
      BY <2>1, <3>1
    <3> QED
      BY <2>2, <2>5, <2>6, <3>2
  <2>8. ASSUME NEW h \in E
        PROVE  w[h] = F[h][w] /\ Before[h] \subseteq E
    <3>1. h \in G /\ Before[h] \subseteq D /\ w[h] = F[h][v]
      BY <2>1, <2>2, <2>5, <2>6, <2>7, <2>8
    <3>2. F[h][v] = F[h][w]
      BY <2>7, <3>1 DEF DependsOn
    <3> QED
      BY <2>6, <3>1, <3>2
  <2>9. Met(E, w)
    BY <2>2, <2>5, <2>6, <2>7, <2>8
  <2>10. Cardinality(E) = n
    <3>1. Cardinality(D \cup {g}) = Cardinality(D) + 1
      BY <2>2, <2>5, FS_AddElement
    <3> QED
      BY <1>2, <2>1, <2>6, <3>1
  <2> HIDE DEF Met
  <2> QED
    BY <1>1, <1>2, <2>9, <2>10
<1> HIDE DEF Met
<1>5. N \in M
  <2>1. N \in Nat /\ 0 \in M /\ \A n \in 1 .. N : n - 1 \in M => n \in M
    BY <1>2, <1>3, <1>4
  <2>2. \A n \in 0 .. N : n \in M
    BY ONLY <2>1, UpTo
  <2> QED
    BY ONLY <2>1, <2>2
<1>6. PICK D, v : Met(D, v) /\ Cardinality(D) = N
  BY <1>1, <1>5
<1>7. D = G
  BY <1>1, <1>6, FS_Subset DEF Met
<1> QED
  BY <1>6, <1>7 DEF Met, Solves
-----------------------------------------------------------------------------
(***************************************************************************)
(* Circuits: equations for the gates, and what holds along the edges       *)
(***************************************************************************)
\* The gates g reads.
Reads(c, g) ==
  IF g < c.n_inputs THEN {}
  ELSE {c.gates[g].input_ids[j] : j \in 1 .. Arity(c.gates[g].type)}

\* What the gates of a circuit are, and what they read comes before them.
LEMMA GatesAre ==
  ASSUME NEW c, WellFormed(c), NEW g \in Gates(c)
  PROVE  /\ c.n_inputs \in Nat \ {0} /\ c.n_gates \in Nat /\ OutputGate(c) \in Gates(c)
         /\ g \in Nat /\ (g < c.n_inputs <=> c.gates[g].type \in InputTypes)
         /\ g >= c.n_inputs => c.gates[g].type \in {"ADD", "MUL", "CONSTMUL"}
         /\ g >= c.n_inputs => c.gates[g].input_ids[1] \in Reads(c, g)
         /\ c.gates[g].type \in {"ADD", "MUL"} => c.gates[g].input_ids[2] \in Reads(c, g)
         /\ Reads(c, g) \subseteq Gates(c)
         /\ \A k \in Reads(c, g) : Precedes(c, k, g)
<1>1. /\ c.n_gates \in Nat /\ c.n_inputs \in 1 .. (c.n_gates - 1) /\ g \in 0 .. (c.n_gates - 1)
      /\ IsGate(c, c.gates[g]) /\ (g < c.n_inputs <=> c.gates[g].type \in InputTypes)
  BY DEF WellFormed, Gates
<1>2. PICK t, in, a : t = c.gates[g].type /\ in = c.gates[g].input_ids /\ a = Arity(t)
  OBVIOUS
<1>3. t \in GateTypes /\ in \in Seq(Gates(c)) /\ Len(in) = a
  BY <1>1, <1>2 DEF IsGate
<1>4. /\ t \in {"ADD", "MUL"} => a = 2 /\ t \notin InputTypes
      /\ t = "CONSTMUL" => a = 1
      /\ t \in InputTypes \/ t \in {"ADD", "MUL", "CONSTMUL"}
      /\ a \in {0, 1, 2} /\ a <= 2
  BY <1>2, <1>3 DEF Arity, GateTypes, BinaryTypes, InputTypes
<1>5. OutputGate(c) \in Gates(c)
  BY <1>1 DEF OutputGate, Gates
<1>6. \A j \in 1 .. a : in[j] \in Gates(c)
  BY <1>3
<1>7. Reads(c, g) = IF g < c.n_inputs THEN {} ELSE {in[j] : j \in 1 .. a}
  BY <1>2 DEF Reads
<1>8. Reads(c, g) \subseteq Gates(c)
  BY <1>6, <1>7
<1>9. ASSUME NEW k \in Reads(c, g) PROVE Precedes(c, k, g)
  <2>1. g >= c.n_inputs
    BY <1>1, <1>7, <1>9
  <2>2. PICK j \in 1 .. a : k = in[j]
    BY <1>7, <1>9, <2>1
  <2>3. j \in {1, 2} /\ j <= a
    BY <1>4, <2>2
  <2>4. g \in Internal(c)
    BY <1>1, <2>1 DEF Internal
  <2>5. <<g, j>> \in Uses(c, k)
    BY <1>2, <2>2, <2>3, <2>4 DEF Uses
  <2> QED
    BY <2>3, <2>5 DEF Precedes
<1>10. g >= c.n_inputs => t \in {"ADD", "MUL", "CONSTMUL"} /\ in[1] \in Reads(c, g)
  BY <1>1, <1>2, <1>4, <1>7
<1>11. t \in {"ADD", "MUL"} => in[2] \in Reads(c, g)
  BY <1>1, <1>2, <1>4, <1>7
<1> QED
  BY <1>1, <1>2, <1>5, <1>8, <1>9, <1>10, <1>11

\* Equations for the gates, each from the values of its operands, have a solution.
LEMMA GatesSolved ==
  ASSUME NEW c, WellFormed(c), Acyclic(c), NEW S, NEW s \in S,
         NEW F \in Equations(Gates(c), S),
         \A g \in Gates(c) : \A u, v \in [Gates(c) -> S] :
           (\A k \in Reads(c, g) : u[k] = v[k]) => F[g][u] = F[g][v]
  PROVE  \E v : Solves(v, Gates(c), S, F)
<1>1. PICK G, B : G = Gates(c) /\ B = [g \in G |-> Reads(c, g)]
  OBVIOUS
<1>2. IsFiniteSet(G)
  <2>1. c.n_gates - 1 \in Int /\ 0 \in Int
    BY DEF WellFormed
  <2>2. IsFiniteSet(0 .. (c.n_gates - 1))
    BY ONLY <2>1, FS_Interval
  <2> QED
    BY <1>1, <2>2 DEF Gates
<1>3. B \in [G -> SUBSET G]
  BY <1>1, GatesAre
<1>4. NoCycle(G, B)
  <2> SUFFICES ASSUME NEW T \in SUBSET G, T # {} PROVE \E g \in T : B[g] \cap T = {}
    BY DEF NoCycle
  <2>1. PICK g \in T : \A k \in T : ~ Precedes(c, k, g)
    BY <1>1 DEF Acyclic
  <2>2. \A k \in Reads(c, g) : Precedes(c, k, g)
    BY <1>1, GatesAre
  <2> QED
    BY <1>1, <2>1, <2>2
<1>5. DependsOn(G, S, F, B)
  BY <1>1 DEF DependsOn
<1>6. F \in Equations(G, S)
  BY <1>1
<1> QED
  BY ONLY <1>1, <1>2, <1>3, <1>4, <1>5, <1>6, s \in S, Solution

\* What holds of a gate as soon as it holds of its operands holds of all of them.
LEMMA AlongCircuit ==
  ASSUME NEW c, WellFormed(c), Acyclic(c), NEW P0,
         \A g \in Gates(c) : Reads(c, g) \subseteq P0 => g \in P0
  PROVE  Gates(c) \subseteq P0
<1>1. PICK T : T = Gates(c) \ P0
  OBVIOUS
<1>2. SUFFICES ASSUME T # {} PROVE FALSE
  BY <1>1
<1>3. PICK g \in T : \A k \in T : ~ Precedes(c, k, g)
  BY <1>1, <1>2 DEF Acyclic
<1>4. /\ \A k \in Reads(c, g) : Precedes(c, k, g)
      /\ Reads(c, g) \subseteq Gates(c)
  BY <1>1, GatesAre
<1> QED
  BY <1>1, <1>3, <1>4

-----------------------------------------------------------------------------
(***************************************************************************)
(* Numbers modulo n                                                        *)
(***************************************************************************)
\* The remainder and the quotient.
LEMMA Remainder ==
  ASSUME NEW n \in Nat \ {0}, NEW a \in Int
  PROVE  a % n \in 0 .. (n - 1) /\ \E q \in Int : a = n * q + (a % n)
<1>1. a = n * (a \div n) + (a % n) /\ a \div n \in Int /\ a % n \in 0 .. (n - 1)
  OBVIOUS
<1> QED
  BY <1>1

\* There is one remainder.
LEMMA RemainderUnique ==
  ASSUME NEW n \in Nat \ {0}, NEW q \in Int, NEW e \in 0 .. (n - 1)
  PROVE  (n * q + e) % n = e
OBVIOUS

\* a and b have the same remainder.
Cong(a, b, n) == a % n = b % n

\* So have numbers that differ by a multiple, and no others.
LEMMA Congruent ==
  ASSUME NEW n \in Nat \ {0}, NEW a \in Int, NEW b \in Int
  PROVE  Cong(a, b, n) <=> \E q \in Int : a = b + n * q
<1>1. PICK q1 \in Int : a = n * q1 + (a % n)
  BY Remainder
<1>2. PICK q2 \in Int : b = n * q2 + (b % n)
  BY Remainder
<1>3. ASSUME a % n = b % n PROVE \E q \in Int : a = b + n * q
  <2>1. a = b + n * (q1 - q2)
    BY <1>1, <1>2, <1>3
  <2> QED
    BY <2>1
<1>4. ASSUME NEW q \in Int, a = b + n * q PROVE a % n = b % n
  <2>1. PICK e, c : e = b % n /\ c = q2 + q
    OBVIOUS
  <2>2. e \in 0 .. (n - 1) /\ c \in Int
    BY <2>1, Remainder
  <2>3. a = n * c + e
    BY <1>2, <1>4, <2>1, <2>2
  <2>4. (n * c + e) % n = e
    BY ONLY n \in Nat \ {0}, <2>2, RemainderUnique
  <2> QED
    BY ONLY <2>1, <2>3, <2>4
<1> QED
  BY <1>3, <1>4 DEF Cong

\* It is an equivalence, and a number is congruent to its remainder.
LEMMA CongruentSame ==
  ASSUME NEW n, NEW a
  PROVE  Cong(a, a, n)
BY DEF Cong

\* Congruence is symmetric,
LEMMA CongruentBack ==
  ASSUME NEW n, NEW a, NEW b, Cong(a, b, n)
  PROVE  Cong(b, a, n)
BY DEF Cong

\* and transitive.
LEMMA CongruentOn ==
  ASSUME NEW n, NEW a, NEW b, NEW c, Cong(a, b, n), Cong(b, c, n)
  PROVE  Cong(a, c, n)
BY DEF Cong

\* A number is congruent to its remainder.
LEMMA CongruentRemainder ==
  ASSUME NEW n \in Nat \ {0}, NEW a \in Int
  PROVE  Cong(a % n, a, n)
<1>1. PICK e : e = a % n
  OBVIOUS
<1>2. e \in 0 .. (n - 1)
  BY <1>1, Remainder
<1>3. (n * 0 + e) % n = e
  BY ONLY n \in Nat \ {0}, <1>2, 0 \in Int, RemainderUnique
<1>4. e % n = e
  BY <1>2, <1>3
<1> QED
  BY <1>1, <1>4 DEF Cong

\* It is kept by sums and products.
LEMMA CongruentSum ==
  ASSUME NEW n \in Nat \ {0}, NEW a \in Int, NEW b \in Int, NEW u \in Int, NEW v \in Int,
         Cong(a, u, n), Cong(b, v, n)
  PROVE  Cong(a + b, u + v, n)
<1>1. PICK q \in Int : a = u + n * q
  BY Congruent
<1>2. PICK s \in Int : b = v + n * s
  BY Congruent
<1>3. PICK c, e, f : c = a + b /\ e = u + v /\ f = q + s
  OBVIOUS
<1>4. c \in Int /\ e \in Int /\ f \in Int /\ c = e + n * f
  BY <1>1, <1>2, <1>3
<1>5. Cong(c, e, n)
  BY ONLY n \in Nat \ {0}, <1>4, Congruent
<1> QED
  BY ONLY <1>3, <1>5

\* The product of congruent numbers is congruent.
LEMMA CongruentProduct ==
  ASSUME NEW n \in Nat \ {0}, NEW a \in Int, NEW b \in Int, NEW u \in Int, NEW v \in Int,
         Cong(a, u, n), Cong(b, v, n)
  PROVE  Cong(a * b, u * v, n)
<1>1. PICK q \in Int : a = u + n * q
  BY Congruent
<1>2. PICK s \in Int : b = v + n * s
  BY Congruent
<1>3. PICK c, e, f : c = a * b /\ e = u * v /\ f = u * s + q * v + n * (q * s)
  OBVIOUS
<1>4. c \in Int /\ e \in Int /\ f \in Int /\ c = e + n * f
  BY <1>1, <1>2, <1>3
<1>5. Cong(c, e, n)
  BY ONLY n \in Nat \ {0}, <1>4, Congruent
<1> QED
  BY ONLY <1>3, <1>5

\* Two that go the same way agree.
LEMMA SameRecursion ==
  ASSUME NEW n \in Nat, NEW f, NEW e, f[0] = e[0],
         \A i \in 1 .. n : f[i - 1] = e[i - 1] => f[i] = e[i]
  PROVE  \A i \in 0 .. n : f[i] = e[i]
<1>1. PICK T : T = {i \in 0 .. n : f[i] = e[i]}
  OBVIOUS
<1>2. n \in Nat /\ 0 \in T /\ \A i \in 1 .. n : i - 1 \in T => i \in T
  BY <1>1
<1>3. \A i \in 0 .. n : i \in T
  BY ONLY <1>2, UpTo
<1> QED
  BY <1>1, <1>3

-----------------------------------------------------------------------------
(***************************************************************************)
(* Sums of the first n values of a function                                *)
(***************************************************************************)
Sum(F, n) ==
  LET sum[i \in 0 .. n] == IF i = 0 THEN 0 ELSE sum[i - 1] + F[i - 1]
  IN  sum[n]

IntSequences == [Nat -> Int]

\* The recursion has values.
LEMMA SumTable ==
  ASSUME NEW F \in IntSequences, NEW n \in Nat
  PROVE  \E s \in [0 .. n -> Int] :
           s[0] = 0 /\ s[n] = Sum(F, n) /\ \A i \in 1 .. n : s[i] = s[i - 1] + F[i - 1]
<1>1. PICK W : W = [i \in 1 .. n |-> [v \in Int |-> v + F[i - 1]]]
  OBVIOUS
<1>2. W \in StepsIn(n, Int)
  <2>1. \A i \in 1 .. n : F[i - 1] \in Int
    BY DEF IntSequences
  <2> QED
    BY <1>1, <2>1 DEF StepsIn
<1>3. n \in Nat /\ 0 \in Int
  OBVIOUS
<1>4. PICK f : Recurs(f, n, Int, 0, W)
  BY ONLY <1>2, <1>3, Recursive
<1>5. f \in [0 .. n -> Int] /\ f[0] = 0 /\ \A i \in 1 .. n : f[i] = f[i - 1] + F[i - 1]
  <2>1. \A i \in 1 .. n : i - 1 \in 0 .. n
    OBVIOUS
  <2> QED
    BY <1>1, <1>4, <2>1 DEF Recurs
<1>6. f = [i \in 0 .. n |-> IF i = 0 THEN 0 ELSE f[i - 1] + F[i - 1]]
  BY <1>5
<1> DEFINE sum[i \in 0 .. n] == IF i = 0 THEN 0 ELSE sum[i - 1] + F[i - 1]
<1>7. Sum(F, n) = sum[n]
  BY Zenon DEF Sum
<1>8. sum = [i \in 0 .. n |-> IF i = 0 THEN 0 ELSE sum[i - 1] + F[i - 1]]
  BY <1>6
<1>9. PICK s : /\ s = [i \in 0 .. n |-> IF i = 0 THEN 0 ELSE s[i - 1] + F[i - 1]]
               /\ Sum(F, n) = s[n]
  BY <1>7, <1>8, Zenon
<1> HIDE DEF sum
<1>10. s[0] = 0 /\ \A i \in 1 .. n : s[i] = s[i - 1] + F[i - 1]
  BY <1>9
<1>11. \A i \in 0 .. n : f[i] = s[i]
  <2>1. n \in Nat /\ f[0] = s[0] /\ \A i \in 1 .. n : f[i - 1] = s[i - 1] => f[i] = s[i]
    BY <1>5, <1>10
  <2> QED
    BY ONLY <2>1, SameRecursion
<1> QED
  BY <1>5, <1>9, <1>10, <1>11

\* Its equations.
LEMMA SumSteps ==
  ASSUME NEW F \in IntSequences
  PROVE  /\ Sum(F, 0) = 0
         /\ \A n \in Nat : Sum(F, n) \in Int /\ Sum(F, n + 1) = Sum(F, n) + F[n]
<1>1. Sum(F, 0) = 0
  BY SumTable
<1>2. ASSUME NEW n \in Nat PROVE Sum(F, n) \in Int /\ Sum(F, n + 1) = Sum(F, n) + F[n]
  <2>1. PICK s : /\ s \in [0 .. n -> Int] /\ s[0] = 0 /\ s[n] = Sum(F, n)
                 /\ \A i \in 1 .. n : s[i] = s[i - 1] + F[i - 1]
    BY SumTable
  <2>2. PICK m : m = n + 1
    OBVIOUS
  <2>3. m \in Nat
    BY <2>2
  <2>4. PICK t : /\ t \in [0 .. m -> Int] /\ t[0] = 0 /\ t[m] = Sum(F, m)
                 /\ \A i \in 1 .. m : t[i] = t[i - 1] + F[i - 1]
    BY <2>3, SumTable
  <2>5. n \in Nat /\ s[0] = t[0] /\ \A i \in 1 .. n : s[i - 1] = t[i - 1] => s[i] = t[i]
    BY <2>1, <2>2, <2>4
  <2>6. \A i \in 0 .. n : s[i] = t[i]
    BY ONLY <2>5, SameRecursion
  <2>7. t[m] = t[n] + F[n] /\ s[n] = t[n]
    BY <2>2, <2>4, <2>6
  <2> QED
    BY <2>1, <2>2, <2>4, <2>7
<1> QED
  BY <1>1, <1>2

\* A set that has 0, and with every number the next one, has them all.
LEMMA AllNumbers ==
  ASSUME NEW T, 0 \in T, \A n \in Nat : n \in T => n + 1 \in T
  PROVE  \A n \in Nat : n \in T
<1> TAKE n \in Nat
<1>1. \A i \in 1 .. n : i - 1 \in T => i \in T
  <2> TAKE i \in 1 .. n
  <2>1. i - 1 \in Nat /\ (i - 1) + 1 = i
    OBVIOUS
  <2>2. i - 1 \in T => (i - 1) + 1 \in T
    BY <2>1
  <2> QED
    BY <2>1, <2>2
<1>2. n \in Nat /\ 0 \in T
  OBVIOUS
<1>3. \A i \in 0 .. n : i \in T
  BY ONLY <1>1, <1>2, UpTo
<1> QED
  BY <1>3

\* Sums of equal numbers are equal.
LEMMA SumEqual ==
  ASSUME NEW F \in IntSequences, NEW G \in IntSequences, NEW n \in Nat,
         \A k \in 0 .. (n - 1) : F[k] = G[k]
  PROVE  Sum(F, n) = Sum(G, n)
<1>1. PICK T : T = {i \in 0 .. n : Sum(F, i) = Sum(G, i)}
  OBVIOUS
<1>2. 0 \in T
  BY <1>1, SumSteps
<1>3. ASSUME NEW i \in 1 .. n, i - 1 \in T PROVE i \in T
  <2>1. PICK j : j = i - 1
    OBVIOUS
  <2>2. j \in Nat /\ i = j + 1 /\ F[j] = G[j] /\ Sum(F, j) = Sum(G, j)
    BY <1>1, <1>3, <2>1
  <2>3. Sum(F, j + 1) = Sum(G, j + 1)
    BY <2>2, SumSteps
  <2> QED
    BY <1>1, <2>2, <2>3
<1>4. n \in Nat /\ 0 \in T /\ \A i \in 1 .. n : i - 1 \in T => i \in T
  BY <1>2, <1>3
<1>5. \A i \in 0 .. n : i \in T
  BY ONLY <1>4, UpTo
<1> QED
  BY <1>1, <1>5

\* Sums of congruent numbers are congruent.
LEMMA SumCongruent ==
  ASSUME NEW m \in Nat \ {0}, NEW F \in IntSequences, NEW G \in IntSequences, NEW n \in Nat,
         \A k \in 0 .. (n - 1) : Cong(F[k], G[k], m)
  PROVE  Cong(Sum(F, n), Sum(G, n), m)
<1>1. PICK T : T = {i \in 0 .. n : Cong(Sum(F, i), Sum(G, i), m)}
  OBVIOUS
<1>2. 0 \in T
  BY <1>1, SumSteps, CongruentSame
<1>3. ASSUME NEW i \in 1 .. n, i - 1 \in T PROVE i \in T
  <2>1. PICK j, a, b, c, e : /\ j = i - 1 /\ a = Sum(F, j) /\ b = Sum(G, j)
                             /\ c = F[j] /\ e = G[j]
    OBVIOUS
  <2>2. j \in Nat /\ i = j + 1 /\ Cong(c, e, m) /\ Cong(a, b, m)
    BY <1>1, <1>3, <2>1
  <2>3. /\ a \in Int /\ b \in Int /\ c \in Int /\ e \in Int
        /\ Sum(F, i) = a + c /\ Sum(G, i) = b + e
    BY <2>1, <2>2, SumSteps DEF IntSequences
  <2>4. Cong(a + c, b + e, m)
    <3>1. /\ m \in Nat \ {0} /\ a \in Int /\ b \in Int /\ c \in Int /\ e \in Int
          /\ Cong(a, b, m) /\ Cong(c, e, m)
      BY <2>2, <2>3
    <3> QED
      BY ONLY <3>1, CongruentSum
  <2> QED
    BY <1>1, <2>3, <2>4
<1>4. n \in Nat /\ 0 \in T /\ \A i \in 1 .. n : i - 1 \in T => i \in T
  BY <1>2, <1>3
<1>5. \A i \in 0 .. n : i \in T
  BY ONLY <1>4, UpTo
<1> QED
  BY <1>1, <1>5

\* The sum of the sums, and of multiples.
Combined(F, c, G) == [k \in Nat |-> F[k] + c * G[k]]

\* A sum is linear.
LEMMA SumLinear ==
  ASSUME NEW F \in IntSequences, NEW G \in IntSequences, NEW c \in Int, NEW H,
         H = Combined(F, c, G), NEW n \in Nat
  PROVE  H \in IntSequences /\ Sum(H, n) = Sum(F, n) + c * Sum(G, n)
<1>1. H \in IntSequences /\ H = [k \in Nat |-> F[k] + c * G[k]]
  BY DEF IntSequences, Combined
<1>2. PICK T : T = {i \in Nat : Sum(H, i) = Sum(F, i) + c * Sum(G, i)}
  OBVIOUS
<1>3. 0 \in T
  BY <1>1, <1>2, SumSteps
<1>4. ASSUME NEW j \in Nat, j \in T PROVE j + 1 \in T
  <2>1. PICK a, b, e, f : a = Sum(F, j) /\ b = Sum(G, j) /\ e = F[j] /\ f = G[j]
    OBVIOUS
  <2>2. /\ a \in Int /\ b \in Int /\ e \in Int /\ f \in Int /\ H[j] = e + c * f
        /\ Sum(F, j + 1) = a + e /\ Sum(G, j + 1) = b + f
        /\ Sum(H, j + 1) = Sum(H, j) + H[j] /\ Sum(H, j) = a + c * b
    BY <1>1, <1>2, <1>4, <2>1, SumSteps DEF IntSequences
  <2>3. (a + c * b) + (e + c * f) = (a + e) + c * (b + f)
    BY <2>2
  <2> QED
    BY <1>2, <2>2, <2>3
<1>5. \A i \in Nat : i \in T
  BY ONLY <1>3, <1>4, AllNumbers
<1> QED
  BY <1>1, <1>2, <1>5

\* Zeros add nothing.
LEMMA SumTail ==
  ASSUME NEW F \in IntSequences, NEW n \in Nat, NEW m \in Nat, n <= m,
         \A k \in n .. (m - 1) : F[k] = 0
  PROVE  Sum(F, m) = Sum(F, n)
<1>1. PICK l : l = m - n
  OBVIOUS
<1>2. PICK T : T = {i \in 0 .. l : Sum(F, n + i) = Sum(F, n)}
  OBVIOUS
<1>3. l \in Nat /\ 0 \in T
  BY <1>1, <1>2
<1>4. ASSUME NEW i \in 1 .. l, i - 1 \in T PROVE i \in T
  <2>1. PICK j : j = n + (i - 1)
    OBVIOUS
  <2>2. j \in Nat /\ n + i = j + 1 /\ F[j] = 0 /\ Sum(F, j) = Sum(F, n)
    BY <1>1, <1>2, <1>4, <2>1
  <2>3. Sum(F, j + 1) = Sum(F, n)
    BY <2>2, SumSteps
  <2> QED
    BY <1>2, <2>2, <2>3
<1>5. l \in Nat /\ 0 \in T /\ \A i \in 1 .. l : i - 1 \in T => i \in T
  BY <1>3, <1>4
<1>6. \A i \in 0 .. l : i \in T
  BY ONLY <1>5, UpTo
<1>7. Sum(F, n + l) = Sum(F, n)
  BY <1>2, <1>3, <1>6
<1> QED
  BY <1>1, <1>7

\* One value among zeros.
Point(c, v) == [k \in Nat |-> IF k = c THEN v ELSE 0]

\* The sum of one value among zeros is that value.
LEMMA SumPoint ==
  ASSUME NEW n \in Nat, NEW c \in 0 .. (n - 1), NEW v \in Int, NEW F, F = Point(c, v)
  PROVE  F \in IntSequences /\ Sum(F, n) = v
<1>1. F \in IntSequences /\ F = [k \in Nat |-> IF k = c THEN v ELSE 0]
  BY DEF IntSequences, Point
<1>2. PICK m : m = c + 1
  OBVIOUS
<1>3. c \in Nat /\ m \in Nat /\ m <= n /\ 0 \in Nat /\ 0 <= c
  BY <1>2
<1>4. Sum(F, c) = Sum(F, 0)
  <2>1. \A k \in 0 .. (c - 1) : F[k] = 0
    BY <1>1
  <2> QED
    BY <1>1, <1>3, <2>1, SumTail
<1>5. Sum(F, n) = Sum(F, m)
  <2>1. \A k \in m .. (n - 1) : F[k] = 0
    BY <1>1, <1>2
  <2> QED
    BY <1>1, <1>3, <2>1, SumTail
<1>6. Sum(F, m) = Sum(F, c) + F[c] /\ Sum(F, 0) = 0
  BY <1>1, <1>2, <1>3, SumSteps
<1> QED
  BY <1>1, <1>3, <1>4, <1>5, <1>6

-----------------------------------------------------------------------------
(***************************************************************************)
(* Sums over sets                                                          *)
(***************************************************************************)
Restricted(F, s) == [k \in Nat |-> IF k \in s THEN F[k] ELSE 0]
Pick(s) == CHOOSE c \in s : TRUE

\* iter is the recursion of MapThenSumSet over S.
Folds(iter, S, F) ==
  iter = [s \in SUBSET S |->
            IF s = {} THEN 0 ELSE F[Pick(s)] + iter[s \ {Pick(s)}]]

\* An element contributes its value.
LEMMA RestrictedSum ==
  ASSUME NEW F \in IntSequences, NEW n \in Nat, NEW s \in SUBSET (0 .. (n - 1)), NEW c \in s
  PROVE  Sum(Restricted(F, s), n) = F[c] + Sum(Restricted(F, s \ {c}), n)
<1>1. PICK G, H, D : /\ G = Restricted(F, s \ {c}) /\ H = Restricted(F, s)
                     /\ D = Point(c, 1)
  OBVIOUS
<1>2. G \in IntSequences /\ F[c] \in Int /\ c \in 0 .. (n - 1)
  BY <1>1 DEF IntSequences, Restricted
<1>3. D \in IntSequences /\ Sum(D, n) = 1
  BY <1>1, <1>2, 1 \in Int, SumPoint
<1>4. H = Combined(G, F[c], D)
  <2>1. ASSUME NEW k \in Nat PROVE H[k] = G[k] + F[c] * D[k]
    <3>1. CASE k = c
      <4>1. H[k] = F[c] /\ G[k] = 0 /\ D[k] = 1
        BY <1>1, <3>1 DEF Restricted, Point
      <4> QED
        BY <1>2, <4>1
    <3>2. CASE k # c
      <4>1. H[k] = G[k] /\ D[k] = 0
        BY <1>1, <3>2 DEF Restricted, Point
      <4>2. G[k] \in Int
        BY <1>2 DEF IntSequences
      <4> QED
        BY <1>2, <4>1, <4>2
    <3> QED
      BY <3>1, <3>2
  <2> QED
    BY <1>1, <2>1 DEF Restricted, Combined
<1>5. Sum(H, n) = Sum(G, n) + F[c] * Sum(D, n)
  BY <1>2, <1>3, <1>4, SumLinear
<1>6. Sum(G, n) \in Int
  BY <1>2, SumSteps
<1> QED
  BY <1>1, <1>2, <1>3, <1>5, <1>6

\* Nothing adds nothing.
LEMMA EmptySum ==
  ASSUME NEW F \in IntSequences, NEW n \in Nat
  PROVE  Sum(Restricted(F, {}), n) = 0
<1>1. PICK G : G = Restricted(F, {})
  OBVIOUS
<1>2. G \in IntSequences /\ \A k \in 0 .. (n - 1) : G[k] = 0
  BY <1>1 DEF Restricted, IntSequences
<1>3. Sum(G, n) = Sum(G, 0)
  BY <1>2, SumTail, 0 \in Nat, 0 <= n
<1> QED
  BY <1>1, <1>2, <1>3, SumSteps

\* The recursion has values.
LEMMA FoldExists ==
  ASSUME NEW F \in IntSequences, NEW n \in Nat, NEW S \in SUBSET (0 .. (n - 1))
  PROVE  \E iter : Folds(iter, S, F)
<1>1. PICK f : f = [s \in SUBSET S |-> Sum(Restricted(F, s), n)]
  OBVIOUS
<1>2. ASSUME NEW s \in SUBSET S
      PROVE  f[s] = IF s = {} THEN 0 ELSE F[Pick(s)] + f[s \ {Pick(s)}]
  <2>1. CASE s = {}
    BY <1>1, <2>1, EmptySum
  <2>2. CASE s # {}
    <3>1. PICK c : c = Pick(s)
      OBVIOUS
    <3>2. c \in s
      BY <2>2, <3>1 DEF Pick
    <3>3. s \in SUBSET (0 .. (n - 1)) /\ s \ {c} \in SUBSET S
      OBVIOUS
    <3>4. Sum(Restricted(F, s), n) = F[c] + Sum(Restricted(F, s \ {c}), n)
      BY <3>2, <3>3, RestrictedSum
    <3> QED
      BY <1>1, <2>2, <3>1, <3>3, <3>4
  <2> QED
    BY <2>1, <2>2
<1>3. f = [s \in SUBSET S |-> IF s = {} THEN 0 ELSE F[Pick(s)] + f[s \ {Pick(s)}]]
  BY <1>1, <1>2
<1> QED
  BY <1>3 DEF Folds

\* And they are these sums, whatever the order in which elements are picked.
LEMMA FoldIsSum ==
  ASSUME NEW F \in IntSequences, NEW n \in Nat, NEW S \in SUBSET (0 .. (n - 1)),
         NEW iter, Folds(iter, S, F)
  PROVE  iter[S] = Sum(Restricted(F, S), n)
<1>0. iter = [s \in SUBSET S |-> IF s = {} THEN 0 ELSE F[Pick(s)] + iter[s \ {Pick(s)}]]
  BY DEF Folds
<1>1. PICK T : T = {i \in Nat : \A s \in SUBSET S :
                      Cardinality(s) = i => iter[s] = Sum(Restricted(F, s), n)}
  OBVIOUS
<1>2. IsFiniteSet(S)
  <2>1. 0 \in Int /\ n - 1 \in Int
    OBVIOUS
  <2>2. IsFiniteSet(0 .. (n - 1))
    BY ONLY <2>1, FS_Interval
  <2> QED
    BY <2>2, FS_Subset
<1>3. 0 \in T
  <2>1. ASSUME NEW s \in SUBSET S, Cardinality(s) = 0 PROVE iter[s] = Sum(Restricted(F, s), n)
    <3>1. IsFiniteSet(s)
      BY <1>2, FS_Subset
    <3>2. s = {}
      BY <2>1, <3>1, FS_EmptySet
    <3>3. iter[s] = 0
      BY <1>0, <3>2
    <3> QED
      BY <3>2, <3>3, EmptySum
  <2> QED
    BY <1>1, <2>1
<1>4. ASSUME NEW i \in Nat, i \in T PROVE i + 1 \in T
  <2>1. ASSUME NEW s \in SUBSET S, Cardinality(s) = i + 1
        PROVE  iter[s] = Sum(Restricted(F, s), n)
    <3>1. IsFiniteSet(s)
      BY <1>2, FS_Subset
    <3>2. s # {}
      BY <2>1, <3>1, FS_EmptySet
    <3>3. PICK c : c = Pick(s)
      OBVIOUS
    <3>4. c \in s
      BY <3>2, <3>3 DEF Pick
    <3>5. PICK e : e = s \ {c}
      OBVIOUS
    <3>6. Cardinality(e) = i
      <4>1. Cardinality(e) = Cardinality(s) - 1
        BY <3>1, <3>4, <3>5, FS_RemoveElement
      <4> QED
        BY <2>1, <4>1
    <3>7. iter[e] = Sum(Restricted(F, e), n)
      BY <1>1, <1>4, <3>5, <3>6
    <3>8. iter[s] = F[c] + iter[e]
      BY <1>0, <3>2, <3>3, <3>5
    <3>9. s \in SUBSET (0 .. (n - 1))
      OBVIOUS
    <3>10. Sum(Restricted(F, s), n) = F[c] + Sum(Restricted(F, e), n)
      BY <3>4, <3>5, <3>9, RestrictedSum
    <3> QED
      BY <3>7, <3>8, <3>10
  <2> QED
    BY <1>1, <2>1
<1>5. \A i \in Nat : i \in T
  BY ONLY <1>3, <1>4, AllNumbers
<1> QED
  BY <1>1, <1>2, <1>5, FS_CardinalityType
=============================================================================
