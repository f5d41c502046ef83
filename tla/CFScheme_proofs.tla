---------------------------- MODULE CFScheme_proofs ----------------------------
EXTENDS CFScheme, TagOps, Recursion

-----------------------------------------------------------------------------
(***************************************************************************)
(* Powers                                                                  *)
(***************************************************************************)
\* The recursion has values.
LEMMA PowTable ==
  ASSUME NEW b \in Int, NEW e \in Nat, NEW m \in Nat \ {0}
  PROVE  \E s : /\ s \in [0 .. e -> 0 .. (m - 1)] /\ s[0] = 1 % m /\ s[e] = PowMod(b, e, m)
                /\ \A i \in 1 .. e : s[i] = (s[i - 1] * b) % m
<1>1. PICK R, W, a : /\ R = 0 .. (m - 1) /\ a = 1 % m
                     /\ W = [i \in 1 .. e |-> [v \in R |-> (v * b) % m]]
  OBVIOUS
<1>2. W \in StepsIn(e, R) /\ a \in R
  <2>1. ASSUME NEW v \in R PROVE (v * b) % m \in R
    <3>1. PICK w : w = v * b
      OBVIOUS
    <3>2. w \in Int
      BY <1>1, <3>1
    <3> QED
      BY <1>1, <3>1, <3>2, Remainder
  <2>2. 1 \in Int /\ a \in R
    BY <1>1, Remainder
  <2> QED
    BY <1>1, <2>1, <2>2 DEF StepsIn
<1>3. PICK f : Recurs(f, e, R, a, W)
  BY ONLY e \in Nat, <1>2, Recursive
<1>4. f \in [0 .. e -> R] /\ f[0] = a /\ \A i \in 1 .. e : f[i] = (f[i - 1] * b) % m
  <2>1. \A i \in 1 .. e : i - 1 \in 0 .. e
    OBVIOUS
  <2> QED
    BY <1>1, <1>3, <2>1 DEF Recurs
<1>5. f = [i \in 0 .. e |-> IF i = 0 THEN 1 % m ELSE (f[i - 1] * b) % m]
  BY <1>1, <1>4
<1> DEFINE pow[i \in 0 .. e] == IF i = 0 THEN 1 % m ELSE (pow[i - 1] * b) % m
<1>6. PowMod(b, e, m) = pow[e]
  BY Zenon DEF PowMod
<1>7. pow = [i \in 0 .. e |-> IF i = 0 THEN 1 % m ELSE (pow[i - 1] * b) % m]
  BY <1>5
<1>8. PICK s : /\ s = [i \in 0 .. e |-> IF i = 0 THEN 1 % m ELSE (s[i - 1] * b) % m]
               /\ PowMod(b, e, m) = s[e]
  BY <1>6, <1>7, Zenon
<1> HIDE DEF pow
<1>9. s[0] = 1 % m /\ \A i \in 1 .. e : s[i] = (s[i - 1] * b) % m
  BY <1>8
<1>10. \A i \in 0 .. e : f[i] = s[i]
  <2>1. e \in Nat /\ f[0] = s[0] /\ \A i \in 1 .. e : f[i - 1] = s[i - 1] => f[i] = s[i]
    BY <1>1, <1>4, <1>9
  <2> QED
    BY ONLY <2>1, SameRecursion
<1>11. f = s
  BY <1>4, <1>8, <1>10
<1> QED
  BY <1>1, <1>4, <1>8, <1>9, <1>11

\* Its equations.
LEMMA PowSteps ==
  ASSUME NEW b \in Int, NEW m \in Nat \ {0}
  PROVE  /\ PowMod(b, 0, m) = 1 % m
         /\ \A e \in Nat : /\ PowMod(b, e, m) \in 0 .. (m - 1)
                           /\ PowMod(b, e + 1, m) = (PowMod(b, e, m) * b) % m
<1>1. PowMod(b, 0, m) = 1 % m
  <2>1. PICK e : e = 0
    OBVIOUS
  <2>2. e \in Nat
    BY <2>1
  <2>3. PICK s : s[0] = 1 % m /\ s[e] = PowMod(b, e, m)
    BY <2>2, PowTable
  <2> QED
    BY <2>1, <2>3
<1>2. ASSUME NEW e \in Nat
      PROVE  PowMod(b, e, m) \in 0 .. (m - 1) /\ PowMod(b, e + 1, m) = (PowMod(b, e, m) * b) % m
  <2>1. PICK s : /\ s \in [0 .. e -> 0 .. (m - 1)] /\ s[0] = 1 % m /\ s[e] = PowMod(b, e, m)
                 /\ \A i \in 1 .. e : s[i] = (s[i - 1] * b) % m
    BY PowTable
  <2>2. PICK f : f = e + 1
    OBVIOUS
  <2>3. f \in Nat
    BY <2>2
  <2>4. PICK t : /\ t \in [0 .. f -> 0 .. (m - 1)] /\ t[0] = 1 % m /\ t[f] = PowMod(b, f, m)
                 /\ \A i \in 1 .. f : t[i] = (t[i - 1] * b) % m
    BY <2>3, PowTable
  <2>5. e \in Nat /\ s[0] = t[0] /\ \A i \in 1 .. e : s[i - 1] = t[i - 1] => s[i] = t[i]
    BY <2>1, <2>2, <2>4
  <2>6. \A i \in 0 .. e : s[i] = t[i]
    BY ONLY <2>5, SameRecursion
  <2>7. t[f] = (t[e] * b) % m /\ s[e] = t[e]
    BY <2>2, <2>4, <2>6
  <2> QED
    BY <2>1, <2>2, <2>4, <2>7
<1> QED
  BY <1>1, <1>2

\* As congruences.
LEMMA PowCongruent ==
  ASSUME NEW b \in Int, NEW m \in Nat \ {0}
  PROVE  /\ Cong(PowMod(b, 0, m), 1, m)
         /\ \A e \in Nat : /\ PowMod(b, e, m) \in Nat
                           /\ Cong(PowMod(b, e + 1, m), PowMod(b, e, m) * b, m)
<1>1. Cong(PowMod(b, 0, m), 1, m)
  <2>1. 1 \in Int
    OBVIOUS
  <2>2. Cong(1 % m, 1, m)
    BY ONLY <2>1, m \in Nat \ {0}, CongruentRemainder
  <2> QED
    BY <2>2, PowSteps
<1>2. ASSUME NEW e \in Nat
      PROVE  PowMod(b, e, m) \in Nat /\ Cong(PowMod(b, e + 1, m), PowMod(b, e, m) * b, m)
  <2>1. PICK v : v = PowMod(b, e, m)
    OBVIOUS
  <2>2. v \in 0 .. (m - 1) /\ PowMod(b, e + 1, m) = (v * b) % m
    BY <2>1, PowSteps
  <2>3. PICK w : w = v * b
    OBVIOUS
  <2>4. w \in Int /\ v \in Nat
    BY <2>2, <2>3
  <2>5. Cong(w % m, w, m)
    BY ONLY <2>4, m \in Nat \ {0}, CongruentRemainder
  <2> QED
    BY <2>1, <2>2, <2>3, <2>4, <2>5
<1> QED
  BY <1>1, <1>2

\* The power of a sum is the product of the powers.
LEMMA PowSum ==
  ASSUME NEW b \in Int, NEW m \in Nat \ {0}, NEW e \in Nat, NEW f \in Nat
  PROVE  Cong(PowMod(b, e + f, m), PowMod(b, e, m) * PowMod(b, f, m), m)
<1>1. PICK T : T = {i \in Nat : Cong(PowMod(b, e + i, m), PowMod(b, e, m) * PowMod(b, i, m), m)}
  OBVIOUS
<1>2. PICK u : u = PowMod(b, e, m)
  OBVIOUS
<1>3. u \in Int
  BY <1>2, PowCongruent
<1>4. 0 \in T
  <2>1. PICK o : o = PowMod(b, 0, m)
    OBVIOUS
  <2>2. o \in Int /\ Cong(1, o, m) /\ Cong(u, u, m)
    BY <2>1, PowCongruent, CongruentBack, CongruentSame
  <2>3. Cong(u * 1, u * o, m)
    BY ONLY <1>3, <2>2, 1 \in Int, m \in Nat \ {0}, CongruentProduct
  <2> QED
    BY <1>1, <1>2, <1>3, <2>1, <2>3
<1>5. ASSUME NEW i \in Nat, i \in T PROVE i + 1 \in T
  <2>1. PICK j, v, w, y, z : /\ j = e + i /\ v = PowMod(b, i, m) /\ w = PowMod(b, j, m)
                             /\ y = PowMod(b, i + 1, m) /\ z = PowMod(b, j + 1, m)
    OBVIOUS
  <2>2. /\ j \in Nat /\ v \in Int /\ w \in Int /\ y \in Int /\ z \in Int
        /\ Cong(z, w * b, m) /\ Cong(y, v * b, m)
    BY <2>1, PowCongruent
  <2>3. Cong(w, u * v, m)
    BY <1>1, <1>2, <1>5, <2>1
  <2>4. PICK c : c = u * v
    OBVIOUS
  <2>5. Cong(w, c, m) /\ c \in Int
    BY <1>3, <2>2, <2>3, <2>4
  <2>6. Cong(w * b, c * b, m)
    BY <2>2, <2>5, CongruentSame, CongruentProduct
  <2>7. PICK q : q = v * b
    OBVIOUS
  <2>8. q \in Int /\ Cong(q, y, m)
    BY <2>2, <2>7, CongruentBack
  <2>9. Cong(u * q, u * y, m)
    BY <1>3, <2>2, <2>8, CongruentSame, CongruentProduct
  <2>10. c * b = u * q
    BY <1>3, <2>2, <2>4, <2>7
  <2>11. Cong(z, u * y, m)
    BY <2>2, <2>6, <2>9, <2>10, CongruentOn
  <2>12. e + (i + 1) = j + 1
    BY <2>1
  <2> QED
    BY <1>1, <1>2, <2>1, <2>11, <2>12
<1>6. \A i \in Nat : i \in T
  BY ONLY <1>4, <1>5, AllNumbers
<1> QED
  BY <1>1, <1>6

-----------------------------------------------------------------------------
(***************************************************************************)
(* Polynomials: a sequence of coefficients, almost all of them zero, and   *)
(* the value at z of its first n terms, powers being reduced modulo P.     *)
(***************************************************************************)
Terms(F, z) == [k \in Nat |-> PowMod(z, k, P) * F[k]]
\* The value of the polynomial at z: the powers of z by the coefficients.
PolyAt(F, z, n) == Sum(Terms(F, z), n)

\* P is a modulus.
LEMMA Modulus == P \in Nat \ {0} /\ P > 1
BY PrimeAssumption

\* Terms are numbers.
LEMMA TermsAre ==
  ASSUME NEW F \in IntSequences, NEW z \in Int
  PROVE  Terms(F, z) \in IntSequences /\ \A n \in Nat : PolyAt(F, z, n) \in Int
<1>1. \A k \in Nat : PowMod(z, k, P) \in Int
  BY Modulus, PowCongruent
<1>2. \A k \in Nat : PowMod(z, k, P) * F[k] \in Int
  BY <1>1 DEF IntSequences
<1>3. Terms(F, z) \in IntSequences
  BY <1>2 DEF Terms, IntSequences
<1> QED
  BY <1>3, SumSteps DEF PolyAt

\* The value is linear in the coefficients.
LEMMA PolyLinear ==
  ASSUME NEW F \in IntSequences, NEW G \in IntSequences, NEW c \in Int, NEW H,
         H = Combined(F, c, G), NEW z \in Int, NEW n \in Nat
  PROVE  H \in IntSequences /\ PolyAt(H, z, n) = PolyAt(F, z, n) + c * PolyAt(G, z, n)
<1>1. PICK u, v, w : u = Terms(F, z) /\ v = Terms(G, z) /\ w = Terms(H, z)
  OBVIOUS
<1>2. u \in IntSequences /\ v \in IntSequences
  BY <1>1, TermsAre
<1>3. w = Combined(u, c, v)
  <2>1. ASSUME NEW k \in Nat PROVE PowMod(z, k, P) * H[k] = u[k] + c * v[k]
    <3>1. PICK p, e, f : p = PowMod(z, k, P) /\ e = F[k] /\ f = G[k]
      OBVIOUS
    <3>2. p \in Int /\ e \in Int /\ f \in Int
      BY <3>1, Modulus, PowCongruent DEF IntSequences
    <3>3. u[k] = p * e /\ v[k] = p * f /\ H[k] = e + c * f
      BY <1>1, <3>1 DEF Terms, Combined
    <3>4. p * (e + c * f) = p * e + c * (p * f)
      BY <3>2
    <3> QED
      BY <3>1, <3>3, <3>4
  <2> QED
    BY <1>1, <2>1 DEF Terms, Combined
<1>4. Sum(w, n) = Sum(u, n) + c * Sum(v, n)
  BY <1>2, <1>3, SumLinear
<1>5. H \in IntSequences
  BY DEF IntSequences, Combined
<1> QED
  BY <1>1, <1>4, <1>5 DEF PolyAt

\* Coefficients count modulo P.
LEMMA PolyCongruent ==
  ASSUME NEW F \in IntSequences, NEW G \in IntSequences, NEW z \in Int, NEW n \in Nat,
         \A k \in 0 .. (n - 1) : Cong(F[k], G[k], P)
  PROVE  Cong(PolyAt(F, z, n), PolyAt(G, z, n), P)
<1>1. PICK u, v : u = Terms(F, z) /\ v = Terms(G, z)
  OBVIOUS
<1>2. u \in IntSequences /\ v \in IntSequences
  BY <1>1, TermsAre
<1>3. ASSUME NEW k \in 0 .. (n - 1) PROVE Cong(u[k], v[k], P)
  <2>1. PICK p, e, f : p = PowMod(z, k, P) /\ e = F[k] /\ f = G[k]
    OBVIOUS
  <2>2. k \in Nat /\ p \in Int /\ e \in Int /\ f \in Int /\ Cong(p, p, P) /\ Cong(e, f, P)
    BY <2>1, Modulus, PowCongruent, CongruentSame DEF IntSequences
  <2>3. Cong(p * e, p * f, P)
    BY <2>2, Modulus, CongruentProduct
  <2>4. u[k] = p * e /\ v[k] = p * f
    BY <1>1, <2>1, <2>2 DEF Terms
  <2> QED
    BY <2>3, <2>4
<1> QED
  BY <1>1, <1>2, <1>3, Modulus, SumCongruent DEF PolyAt

\* Zeros at the end do not count.
LEMMA PolyTail ==
  ASSUME NEW F \in IntSequences, NEW z \in Int, NEW n \in Nat, NEW m \in Nat, n <= m,
         \A k \in n .. (m - 1) : F[k] = 0
  PROVE  PolyAt(F, z, m) = PolyAt(F, z, n)
<1>1. PICK u : u = Terms(F, z)
  OBVIOUS
<1>2. u \in IntSequences
  BY <1>1, TermsAre
<1>3. ASSUME NEW k \in n .. (m - 1) PROVE u[k] = 0
  <2>1. k \in Nat /\ F[k] = 0 /\ PowMod(z, k, P) \in Int
    BY Modulus, PowCongruent
  <2> QED
    BY <1>1, <2>1 DEF Terms
<1> QED
  BY <1>1, <1>2, <1>3, SumTail DEF PolyAt

\* z^i times the polynomial.
Shifted(F, i) == [k \in Nat |-> IF k >= i THEN F[k - i] ELSE 0]

\* Shifting the coefficients by i multiplies the value at z by z^i.
LEMMA PolyShift ==
  ASSUME NEW F \in IntSequences, NEW i \in Nat, NEW z \in Int, NEW n \in Nat
  PROVE  /\ Shifted(F, i) \in IntSequences
         /\ Cong(PolyAt(Shifted(F, i), z, i + n), PowMod(z, i, P) * PolyAt(F, z, n), P)
<1>1. PICK G : G = Shifted(F, i)
  OBVIOUS
<1>2. G \in IntSequences
  <2>1. \A k \in Nat : k >= i => k - i \in Nat
    OBVIOUS
  <2> QED
    BY <1>1, <2>1 DEF Shifted, IntSequences
<1>3. PICK p : p = PowMod(z, i, P)
  OBVIOUS
<1>4. p \in Int
  BY <1>3, Modulus, PowCongruent
<1>5. PICK T : T = {j \in Nat : Cong(PolyAt(G, z, i + j), p * PolyAt(F, z, j), P)}
  OBVIOUS
<1>6. 0 \in T
  <2>1. PolyAt(G, z, i) = PolyAt(G, z, 0)
    <3>1. 0 \in Nat /\ 0 <= i /\ \A k \in 0 .. (i - 1) : G[k] = 0
      BY <1>1 DEF Shifted
    <3> QED
      BY <1>2, <3>1, PolyTail
  <2>2. PolyAt(G, z, 0) = 0 /\ PolyAt(F, z, 0) = 0
    BY <1>2, TermsAre, SumSteps DEF PolyAt
  <2>3. p * 0 = 0 /\ i + 0 = i
    BY <1>4
  <2> QED
    BY <1>5, <2>1, <2>2, <2>3, CongruentSame
<1>7. ASSUME NEW j \in Nat, j \in T PROVE j + 1 \in T
  <2>1. PICK m, a, b, f, q, s :
          /\ m = i + j /\ a = PolyAt(G, z, m) /\ b = PolyAt(F, z, j) /\ f = F[j]
          /\ q = PowMod(z, j, P) /\ s = PowMod(z, m, P)
    OBVIOUS
  <2>2. /\ m \in Nat /\ a \in Int /\ b \in Int /\ f \in Int /\ q \in Int /\ s \in Int
        /\ Cong(a, p * b, P) /\ Cong(s, p * q, P)
    <3>1. m \in Nat /\ f \in Int
      BY <2>1 DEF IntSequences
    <3>2. a \in Int /\ b \in Int
      BY <1>2, <2>1, <3>1, TermsAre
    <3>3. q \in Int /\ s \in Int
      BY <2>1, <3>1, Modulus, PowCongruent
    <3>4. Cong(s, p * q, P)
      BY <1>3, <2>1, Modulus, PowSum
    <3> QED
      BY <1>5, <1>7, <2>1, <3>1, <3>2, <3>3, <3>4
  <2>3. PolyAt(G, z, m + 1) = a + s * f
    <3>1. Sum(Terms(G, z), m + 1) = Sum(Terms(G, z), m) + Terms(G, z)[m]
      BY <1>2, <2>2, TermsAre, SumSteps
    <3>2. Terms(G, z)[m] = s * G[m]
      BY <2>1, <2>2 DEF Terms
    <3>3. G[m] = f
      <4>1. m >= i /\ m - i = j
        BY <2>1
      <4> QED
        BY <1>1, <2>1, <2>2, <4>1 DEF Shifted
    <3> QED
      BY <2>1, <3>1, <3>2, <3>3 DEF PolyAt
  <2>4. PolyAt(F, z, j + 1) = b + q * f
    <3>1. Sum(Terms(F, z), j + 1) = Sum(Terms(F, z), j) + Terms(F, z)[j]
      BY TermsAre, SumSteps
    <3>2. Terms(F, z)[j] = q * f
      BY <2>1 DEF Terms
    <3> QED
      BY <2>1, <3>1, <3>2 DEF PolyAt
  <2>5. PICK c, e : c = p * q /\ e = p * b
    OBVIOUS
  <2>6. c \in Int /\ e \in Int /\ Cong(s, c, P) /\ Cong(a, e, P) /\ Cong(f, f, P)
    BY <1>4, <2>2, <2>5, CongruentSame
  <2>7. Cong(s * f, c * f, P)
    BY <2>2, <2>6, Modulus, CongruentProduct
  <2>8. PICK v, w : v = s * f /\ w = c * f
    OBVIOUS
  <2>9. v \in Int /\ w \in Int /\ Cong(v, w, P)
    BY <2>2, <2>6, <2>7, <2>8
  <2>10. Cong(a + v, e + w, P)
    BY <2>2, <2>6, <2>9, Modulus, CongruentSum
  <2>11. e + w = p * (b + q * f)
    BY <1>4, <2>2, <2>5, <2>6, <2>8
  <2>12. i + (j + 1) = m + 1
    BY <2>1
  <2>13. Cong(PolyAt(G, z, i + (j + 1)), p * PolyAt(F, z, j + 1), P)
    BY <2>3, <2>4, <2>8, <2>10, <2>11, <2>12
  <2> QED
    BY <1>5, <2>13
<1>8. \A j \in Nat : j \in T
  BY ONLY <1>6, <1>7, AllNumbers
<1> QED
  BY <1>1, <1>2, <1>3, <1>5, <1>8

\* Coefficient k of the product of the first n terms of A with B.
Products(A, B, k) == [i \in Nat |-> A[i] * Shifted(B, i)[k]]
\* All the coefficients of that product.
Product(A, B, n) == [k \in Nat |-> Sum(Products(A, B, k), n)]

\* A product is made term by term: each adds a multiple of the shifted second factor.
LEMMA ProductSteps ==
  ASSUME NEW A \in IntSequences, NEW B \in IntSequences, NEW n \in Nat
  PROVE  /\ Product(A, B, n) \in IntSequences
         /\ Product(A, B, 0) = [k \in Nat |-> 0]
         /\ Product(A, B, n + 1) = Combined(Product(A, B, n), A[n], Shifted(B, n))
<1>1. ASSUME NEW k \in Nat PROVE Products(A, B, k) \in IntSequences
  <2>1. ASSUME NEW i \in Nat PROVE A[i] * Shifted(B, i)[k] \in Int
    <3>1. A[i] \in Int /\ Shifted(B, i)[k] \in Int
      BY PolyShift DEF IntSequences
    <3> QED
      BY <3>1
  <2> QED
    BY <2>1 DEF Products, IntSequences
<1>2. ASSUME NEW k \in Nat
      PROVE  /\ Sum(Products(A, B, k), 0) = 0 /\ Sum(Products(A, B, k), n) \in Int
             /\ Sum(Products(A, B, k), n + 1) =
                  Sum(Products(A, B, k), n) + A[n] * Shifted(B, n)[k]
  <2>1. Products(A, B, k)[n] = A[n] * Shifted(B, n)[k]
    BY DEF Products
  <2> QED
    BY <1>1, <2>1, SumSteps
<1>3. Product(A, B, n) \in IntSequences
  BY <1>2 DEF Product, IntSequences
<1>4. Product(A, B, 0) = [k \in Nat |-> 0]
  BY <1>2 DEF Product
<1>5. Product(A, B, n + 1) = Combined(Product(A, B, n), A[n], Shifted(B, n))
  BY <1>2 DEF Product, Combined
<1> QED
  BY <1>3, <1>4, <1>5

\* The value of a product is the product of the values.
LEMMA PolyProduct ==
  ASSUME NEW A \in IntSequences, NEW B \in IntSequences, NEW n \in Nat, NEW m \in Nat,
         \A k \in Nat : k >= m => B[k] = 0, NEW z \in Int, NEW l \in Nat, l + 1 >= n + m
  PROVE  Cong(PolyAt(Product(A, B, n), z, l), PolyAt(A, z, n) * PolyAt(B, z, m), P)
<1>1. PICK b : b = PolyAt(B, z, m)
  OBVIOUS
<1>2. b \in Int
  BY <1>1, TermsAre
<1>3. PICK T : T = {i \in 0 .. n : Cong(PolyAt(Product(A, B, i), z, l), PolyAt(A, z, i) * b, P)}
  OBVIOUS
<1>4. 0 \in T
  <2>1. PICK O : O = Product(A, B, 0)
    OBVIOUS
  <2>2. O \in IntSequences /\ \A k \in Nat : O[k] = 0
    <3>1. 0 \in Nat
      OBVIOUS
    <3>2. O \in IntSequences /\ O = [k \in Nat |-> 0]
      BY <2>1, <3>1, ProductSteps
    <3> QED
      BY <3>2
  <2>3. PolyAt(O, z, l) = PolyAt(O, z, 0)
    <3>1. 0 \in Nat /\ 0 <= l /\ \A k \in 0 .. (l - 1) : O[k] = 0
      BY <2>2
    <3> QED
      BY <2>2, <3>1, PolyTail
  <2>4. PolyAt(O, z, 0) = 0 /\ PolyAt(A, z, 0) = 0
    BY <2>2, TermsAre, SumSteps DEF PolyAt
  <2>5. 0 * b = 0
    BY <1>2
  <2> QED
    BY <1>3, <2>1, <2>3, <2>4, <2>5, CongruentSame
<1>5. ASSUME NEW i \in 1 .. n, i - 1 \in T PROVE i \in T
  <2>1. PICK j, F, G, H : /\ j = i - 1 /\ F = Product(A, B, j) /\ G = Shifted(B, j)
                          /\ H = Product(A, B, j + 1)
    OBVIOUS
  <2>2. j \in Nat /\ i = j + 1 /\ j < n
    BY <2>1
  <2>3. PICK a, u, v, w, p :
          /\ a = A[j] /\ u = PolyAt(F, z, l) /\ v = PolyAt(G, z, l) /\ w = PolyAt(A, z, j)
          /\ p = PowMod(z, j, P)
    OBVIOUS
  <2>4. /\ F \in IntSequences /\ G \in IntSequences /\ H \in IntSequences /\ a \in Int
        /\ H = Combined(F, a, G)
    <3>1. F \in IntSequences /\ H \in IntSequences /\ H = Combined(F, a, G)
      <4>1. j + 1 \in Nat
        BY <2>2
      <4> QED
        BY <2>1, <2>2, <2>3, <4>1, ProductSteps
    <3>2. G \in IntSequences
      BY <2>1, <2>2, PolyShift
    <3> QED
      BY <2>2, <2>3, <3>1, <3>2 DEF IntSequences
  <2>5. u \in Int /\ v \in Int /\ w \in Int /\ p \in Int
    <3>1. u \in Int /\ v \in Int /\ w \in Int
      BY <2>2, <2>3, <2>4, TermsAre
    <3> QED
      BY <2>2, <2>3, <3>1, Modulus, PowCongruent
  <2>6. PolyAt(H, z, l) = u + a * v
    BY <2>3, <2>4, PolyLinear
  <2>7. Cong(v, p * b, P)
    <3>1. CASE l >= j
      <4>1. PICK e : e = l - j
        OBVIOUS
      <4>2. e \in Nat /\ j + e = l /\ m <= e
        BY <2>2, <3>1, <4>1
      <4>3. Cong(PolyAt(G, z, j + e), p * PolyAt(B, z, e), P)
        BY <2>1, <2>2, <2>3, <4>2, PolyShift
      <4>4. PolyAt(B, z, e) = b
        <5>1. \A k \in m .. (e - 1) : B[k] = 0
          OBVIOUS
        <5> QED
          BY <1>1, <4>2, <5>1, PolyTail
      <4> QED
        BY <2>3, <4>2, <4>3, <4>4
    <3>2. CASE l < j
      BY <2>2, <3>2
    <3> QED
      BY <2>2, <3>1, <3>2
  <2>8. PolyAt(A, z, i) = w + p * a
    <3>1. Sum(Terms(A, z), j + 1) = Sum(Terms(A, z), j) + Terms(A, z)[j]
      BY <2>2, TermsAre, SumSteps
    <3>2. Terms(A, z)[j] = p * a
      BY <2>2, <2>3 DEF Terms
    <3> QED
      BY <2>2, <2>3, <3>1, <3>2 DEF PolyAt
  <2>9. PICK c, e : c = w * b /\ e = p * b
    OBVIOUS
  <2>10. c \in Int /\ e \in Int /\ Cong(u, c, P) /\ Cong(v, e, P) /\ Cong(a, a, P)
    BY <1>2, <1>3, <1>5, <2>1, <2>3, <2>5, <2>7, <2>9, CongruentSame
  <2>11. Cong(a * v, a * e, P)
    BY <2>4, <2>5, <2>10, Modulus, CongruentProduct
  <2>12. PICK f, q : f = a * v /\ q = a * e
    OBVIOUS
  <2>13. f \in Int /\ q \in Int /\ Cong(f, q, P)
    BY <2>4, <2>5, <2>10, <2>11, <2>12
  <2>14. Cong(u + f, c + q, P)
    BY <2>5, <2>10, <2>13, Modulus, CongruentSum
  <2>15. c + q = (w + p * a) * b
    BY <1>2, <2>4, <2>5, <2>9, <2>10, <2>12
  <2>16. Cong(PolyAt(H, z, l), PolyAt(A, z, i) * b, P)
    BY <2>6, <2>8, <2>12, <2>14, <2>15
  <2> QED
    BY <1>3, <2>1, <2>2, <2>16
<1>6. n \in Nat /\ 0 \in T /\ \A i \in 1 .. n : i - 1 \in T => i \in T
  BY <1>4, <1>5
<1>7. \A i \in 0 .. n : i \in T
  BY ONLY <1>6, UpTo
<1> QED
  BY <1>1, <1>3, <1>7

-----------------------------------------------------------------------------
(***************************************************************************)
(* Tags                                                                    *)
(***************************************************************************)
IsTag(t, n) == n \in Nat /\ t \in [0 .. n -> Nat]

\* The coefficients of a tag, continued by zeros.
Coef(t) == [k \in Nat |-> IF k \in DOMAIN t THEN t[k] ELSE 0]

\* The continued coefficients: those of the tag up to its degree and zero above.
LEMMA CoefIs ==
  ASSUME NEW n, NEW t, IsTag(t, n)
  PROVE  /\ Coef(t) \in IntSequences /\ n \in Nat /\ DOMAIN t = 0 .. n
         /\ \A k \in 0 .. n : Coef(t)[k] = t[k] /\ t[k] \in Nat
         /\ \A k \in Nat : k > n => Coef(t)[k] = 0
BY DEF IsTag, Coef, IntSequences

\* The sums over sets in _compute_rho and in a product of tags are sums of sequences.
LEMMA RhoSum ==
  ASSUME NEW n, NEW t, IsTag(t, n), NEW z \in Int, NEW F \in IntSequences,
         \A k \in 0 .. n : F[k] = (PowMod(z, k, P) * t[k]) % P
  PROVE  rho(t, z) = Sum(F, n + 1) % P
<1>1. PICK S, m : S = DOMAIN t /\ m = n + 1
  OBVIOUS
<1>2. S = 0 .. (m - 1) /\ m \in Nat /\ n \in Nat
  BY <1>1 DEF IsTag
<1> DEFINE iter[s \in SUBSET DOMAIN t] ==
             IF s = {} THEN 0
             ELSE LET c == CHOOSE c \in s : TRUE
                  IN  ((PowMod(z, c, P) * t[c]) % P) + iter[s \ {c}]
<1>3. rho(t, z) = iter[DOMAIN t] % P
  BY Zenon DEF rho, MapThenSumSet, MapThenFoldSet
<1>4. PICK f : Folds(f, S, F)
  BY <1>2, FoldExists
<1>5. f = [s \in SUBSET S |-> IF s = {} THEN 0 ELSE F[Pick(s)] + f[s \ {Pick(s)}]]
  BY <1>4 DEF Folds
<1>6. ASSUME NEW s \in SUBSET S, s # {}
      PROVE  F[Pick(s)] = (PowMod(z, Pick(s), P) * t[Pick(s)]) % P
  <2>1. Pick(s) \in s
    BY <1>6 DEF Pick
  <2>2. Pick(s) \in 0 .. n
    BY <1>1, <2>1 DEF IsTag
  <2> QED
    BY <2>2
<1>7. f = [s \in SUBSET DOMAIN t |->
             IF s = {} THEN 0
             ELSE LET c == CHOOSE c \in s : TRUE
                  IN  ((PowMod(z, c, P) * t[c]) % P) + f[s \ {c}]]
  BY <1>1, <1>5, <1>6 DEF Pick
<1>8. iter = [s \in SUBSET DOMAIN t |->
             IF s = {} THEN 0
             ELSE LET c == CHOOSE c \in s : TRUE
                  IN  ((PowMod(z, c, P) * t[c]) % P) + iter[s \ {c}]]
  BY <1>7, Zenon
<1>9. PICK e : /\ e = [s \in SUBSET DOMAIN t |->
                        IF s = {} THEN 0
                        ELSE LET c == CHOOSE c \in s : TRUE
                             IN  ((PowMod(z, c, P) * t[c]) % P) + e[s \ {c}]]
               /\ rho(t, z) = e[DOMAIN t] % P
  BY <1>3, <1>8, Zenon
<1> HIDE DEF iter
<1>10. e = [s \in SUBSET S |-> IF s = {} THEN 0 ELSE F[Pick(s)] + e[s \ {Pick(s)}]]
  BY <1>1, <1>6, <1>9 DEF Pick
<1>11. Folds(e, S, F)
  BY <1>10 DEF Folds
<1>12. e[S] = Sum(Restricted(F, S), m)
  BY <1>2, <1>11, FoldIsSum
<1>13. Sum(Restricted(F, S), m) = Sum(F, m)
  <2>1. PICK G : G = Restricted(F, S)
    OBVIOUS
  <2>2. G \in IntSequences /\ \A k \in 0 .. (m - 1) : G[k] = F[k]
    BY <1>2, <2>1 DEF Restricted, IntSequences
  <2> QED
    BY <1>2, <2>1, <2>2, SumEqual
<1> QED
  BY <1>1, <1>9, <1>12, <1>13

\* The value of a tag is the value of its polynomial.
LEMMA RhoPoly ==
  ASSUME NEW n, NEW t, IsTag(t, n), NEW z \in Int, NEW m \in Nat, m > n
  PROVE  rho(t, z) \in 0 .. (P - 1) /\ Cong(rho(t, z), PolyAt(Coef(t), z, m), P)
<1>1. PICK C, T, F : /\ C = Coef(t) /\ T = Terms(C, z)
                     /\ F = [k \in Nat |-> IF k \in 0 .. n THEN (PowMod(z, k, P) * t[k]) % P ELSE 0]
  OBVIOUS
<1>2. /\ C \in IntSequences /\ n \in Nat /\ \A k \in 0 .. n : C[k] = t[k] /\ t[k] \in Int
      /\ \A k \in Nat : k > n => C[k] = 0
  BY <1>1, CoefIs
<1>3. T \in IntSequences
  BY <1>1, <1>2, TermsAre
<1>4. ASSUME NEW k \in 0 .. n
      PROVE  F[k] = (PowMod(z, k, P) * t[k]) % P /\ F[k] \in Int /\ Cong(F[k], T[k], P)
  <2>1. PICK v : v = PowMod(z, k, P) * t[k]
    OBVIOUS
  <2>2. k \in Nat /\ v = T[k] /\ F[k] = v % P
    BY <1>1, <1>2, <2>1 DEF Terms
  <2>3. v \in Int
    BY <1>3, <2>2 DEF IntSequences
  <2>4. Cong(v % P, v, P) /\ v % P \in 0 .. (P - 1)
    BY <2>3, Modulus, CongruentRemainder, Remainder
  <2> QED
    BY <1>1, <2>1, <2>2, <2>4
<1>5. F \in IntSequences
  BY <1>1, <1>4 DEF IntSequences
<1>6. PICK l, u, w : l = n + 1 /\ u = Sum(F, l) /\ w = Sum(T, l)
  OBVIOUS
<1>7. l \in Nat /\ u \in Int /\ w \in Int
  BY <1>2, <1>3, <1>5, <1>6, SumSteps
<1>8. Cong(u, w, P)
  <2>1. \A k \in 0 .. (l - 1) : Cong(F[k], T[k], P)
    BY <1>2, <1>4, <1>6
  <2> QED
    BY <1>3, <1>5, <1>6, <1>7, <2>1, Modulus, SumCongruent
<1>9. rho(t, z) = u % P
  BY <1>4, <1>5, <1>6, RhoSum
<1>10. Cong(u % P, u, P) /\ u % P \in 0 .. (P - 1)
  BY <1>7, Modulus, CongruentRemainder, Remainder
<1>11. PolyAt(C, z, m) = w
  <2>1. l <= m /\ \A k \in l .. (m - 1) : C[k] = 0
    BY <1>2, <1>6
  <2>2. PolyAt(C, z, m) = PolyAt(C, z, l)
    BY <1>2, <1>7, <2>1, PolyTail
  <2> QED
    BY <1>1, <1>6, <2>2 DEF PolyAt
<1> QED
  BY <1>1, <1>8, <1>9, <1>10, <1>11, CongruentOn

\* A coefficient of the product of tags is that of the product of polynomials.
LEMMA ConvolutionSum ==
  ASSUME NEW n, NEW a, IsTag(a, n), NEW m, NEW b, IsTag(b, m), NEW k \in Nat,
         NEW F \in IntSequences, NEW S, S = {i \in DOMAIN a : k - i \in DOMAIN b},
         \A i \in S : F[i] = (a[i] * b[k - i]) % P
  PROVE  Convolution(a, b, k) = Sum(Restricted(F, S), n + 1) % P
<1>1. PICK l : l = n + 1
  OBVIOUS
<1>2. S \in SUBSET (0 .. (l - 1)) /\ l \in Nat /\ n \in Nat
  BY <1>1 DEF IsTag
<1> DEFINE I == {i \in DOMAIN a : k - i \in DOMAIN b}
<1> DEFINE iter[s \in SUBSET I] ==
             IF s = {} THEN 0
             ELSE LET c == CHOOSE c \in s : TRUE
                  IN  ((a[c] * b[k - c]) % P) + iter[s \ {c}]
<1>3. Convolution(a, b, k) = iter[I] % P
  BY Zenon DEF Convolution, MapThenSumSet, MapThenFoldSet
<1>0. S = I
  OBVIOUS
<1> HIDE DEF I
<1>4. PICK f : Folds(f, S, F)
  BY <1>2, FoldExists
<1>5. f = [s \in SUBSET S |-> IF s = {} THEN 0 ELSE F[Pick(s)] + f[s \ {Pick(s)}]]
  BY <1>4 DEF Folds
<1>6. ASSUME NEW s \in SUBSET S, s # {}
      PROVE  F[Pick(s)] = (a[Pick(s)] * b[k - Pick(s)]) % P
  <2>1. Pick(s) \in s
    BY <1>6 DEF Pick
  <2>2. Pick(s) \in S
    BY <2>1
  <2> QED
    BY <2>2
<1>7. f = [s \in SUBSET I |->
             IF s = {} THEN 0
             ELSE LET c == CHOOSE c \in s : TRUE
                  IN  ((a[c] * b[k - c]) % P) + f[s \ {c}]]
  BY <1>0, <1>5, <1>6 DEF Pick
<1>8. iter = [s \in SUBSET I |->
             IF s = {} THEN 0
             ELSE LET c == CHOOSE c \in s : TRUE
                  IN  ((a[c] * b[k - c]) % P) + iter[s \ {c}]]
  BY ONLY <1>7, Zenon
<1>9. PICK e : /\ e = [s \in SUBSET I |->
                        IF s = {} THEN 0
                        ELSE LET c == CHOOSE c \in s : TRUE
                             IN  ((a[c] * b[k - c]) % P) + e[s \ {c}]]
               /\ Convolution(a, b, k) = e[I] % P
  BY <1>3, <1>8, Zenon
<1> HIDE DEF iter
<1>10. e = [s \in SUBSET S |-> IF s = {} THEN 0 ELSE F[Pick(s)] + e[s \ {Pick(s)}]]
  BY <1>0, <1>6, <1>9 DEF Pick
<1>11. Folds(e, S, F)
  BY <1>10 DEF Folds
<1>12. e[S] = Sum(Restricted(F, S), l)
  BY <1>2, <1>11, FoldIsSum
<1> QED
  BY <1>0, <1>1, <1>9, <1>12

\* A coefficient of tag_mul_naive is that of the product of the polynomials.
LEMMA ConvolutionProduct ==
  ASSUME NEW n, NEW a, IsTag(a, n), NEW m, NEW b, IsTag(b, m), NEW k \in Nat
  PROVE  /\ Convolution(a, b, k) \in 0 .. (P - 1)
         /\ Cong(Convolution(a, b, k), Product(Coef(a), Coef(b), n + 1)[k], P)
<1>1. PICK A, B, S, H, F, G :
        /\ A = Coef(a) /\ B = Coef(b) /\ S = {i \in DOMAIN a : k - i \in DOMAIN b}
        /\ H = Products(A, B, k)
        /\ F = [i \in Nat |-> IF i \in S THEN (a[i] * b[k - i]) % P ELSE 0]
        /\ G = Restricted(F, S)
  OBVIOUS
<1>2. /\ n \in Nat /\ m \in Nat /\ DOMAIN a = 0 .. n /\ DOMAIN b = 0 .. m
      /\ A \in IntSequences /\ B \in IntSequences
      /\ \A i \in 0 .. n : A[i] = a[i] /\ a[i] \in Int
      /\ \A i \in 0 .. m : B[i] = b[i] /\ b[i] \in Int
      /\ \A i \in Nat : i > m => B[i] = 0
  BY <1>1, CoefIs
<1>3. ASSUME NEW i \in Nat PROVE H[i] = A[i] * (IF k >= i THEN B[k - i] ELSE 0)
  BY <1>1 DEF Products, Shifted
<1>4. H \in IntSequences
  <2>1. ASSUME NEW i \in Nat PROVE A[i] * (IF k >= i THEN B[k - i] ELSE 0) \in Int
    <3>1. A[i] \in Int /\ (k >= i => B[k - i] \in Int)
      BY <1>2 DEF IntSequences
    <3> QED
      BY <3>1
  <2>2. H = [i \in Nat |-> H[i]]
    BY <1>1 DEF Products
  <2> QED
    BY <1>3, <2>1, <2>2 DEF IntSequences
<1>5. ASSUME NEW i \in S
      PROVE  F[i] = (a[i] * b[k - i]) % P /\ F[i] \in 0 .. (P - 1) /\ Cong(F[i], H[i], P)
  <2>1. PICK v : v = a[i] * b[k - i]
    OBVIOUS
  <2>2. i \in 0 .. n /\ k - i \in 0 .. m /\ i \in Nat
    BY <1>1, <1>2
  <2>3. k >= i
    BY <2>2
  <2>4. H[i] = v /\ F[i] = v % P /\ v \in Int
    <3>1. F[i] = v % P
      BY <1>1, <2>1, <2>2
    <3>2. H[i] = A[i] * B[k - i]
      BY <1>3, <2>2, <2>3
    <3>3. A[i] = a[i] /\ a[i] \in Int /\ B[k - i] = b[k - i] /\ b[k - i] \in Int
      BY <1>2, <2>2
    <3> QED
      BY <2>1, <3>1, <3>2, <3>3
  <2>5. Cong(v % P, v, P) /\ v % P \in 0 .. (P - 1)
    BY <2>4, Modulus, CongruentRemainder, Remainder
  <2> QED
    BY <2>1, <2>4, <2>5
<1>6. F \in IntSequences /\ G \in IntSequences
  <2>1. F \in IntSequences
    BY <1>1, <1>5, Modulus DEF IntSequences
  <2> QED
    BY <1>1, <2>1 DEF IntSequences, Restricted
<1>7. PICK l, u, w : l = n + 1 /\ u = Sum(G, l) /\ w = Sum(H, l)
  OBVIOUS
<1>8. l \in Nat /\ u \in Int /\ w \in Int
  BY <1>2, <1>4, <1>6, <1>7, SumSteps
<1>9. ASSUME NEW i \in 0 .. (l - 1) PROVE Cong(G[i], H[i], P)
  <2>1. i \in 0 .. n /\ i \in Nat
    BY <1>2, <1>7
  <2>2. CASE i \in S
    BY <1>1, <1>5, <2>1, <2>2 DEF Restricted
  <2>3. CASE i \notin S
    <3>1. G[i] = 0
      BY <1>1, <2>1, <2>3 DEF Restricted
    <3>2. k >= i => k - i \in Nat /\ k - i > m
      BY <1>1, <1>2, <2>1, <2>3
    <3>3. (IF k >= i THEN B[k - i] ELSE 0) = 0
      BY <1>2, <3>2
    <3>4. H[i] = 0
      BY <1>2, <1>3, <2>1, <3>3
    <3> QED
      BY <3>1, <3>4, CongruentSame
  <2> QED
    BY <2>2, <2>3
<1>10. Cong(u, w, P)
  BY <1>4, <1>6, <1>7, <1>8, <1>9, Modulus, SumCongruent
<1>11. Convolution(a, b, k) = u % P
  BY <1>1, <1>5, <1>6, <1>7, ConvolutionSum
<1>12. Cong(u % P, u, P) /\ u % P \in 0 .. (P - 1)
  BY <1>8, Modulus, CongruentRemainder, Remainder
<1>13. Product(A, B, n + 1)[k] = w
  BY <1>1, <1>7 DEF Product
<1> QED
  BY <1>1, <1>10, <1>11, <1>12, <1>13, CongruentOn

\* Two tags with congruent coefficients have the same value.
LEMMA RhoOf ==
  ASSUME NEW n, NEW t, IsTag(t, n), NEW z \in Int, NEW G \in IntSequences, NEW m \in Nat,
         m > n, \A k \in 0 .. (m - 1) : Cong(Coef(t)[k], G[k], P)
  PROVE  Cong(rho(t, z), PolyAt(G, z, m), P)
<1>1. PICK C : C = Coef(t)
  OBVIOUS
<1>2. C \in IntSequences
  BY <1>1, CoefIs
<1>3. Cong(PolyAt(C, z, m), PolyAt(G, z, m), P)
  BY <1>1, <1>2, PolyCongruent
<1>4. Cong(rho(t, z), PolyAt(C, z, m), P)
  BY <1>1, RhoPoly
<1> QED
  BY <1>3, <1>4, CongruentOn

\* A tag at 0 is its first coefficient.
LEMMA RhoAtZero ==
  ASSUME NEW n, NEW t, IsTag(t, n)
  PROVE  Cong(rho(t, 0), t[0], P)
<1>1. PICK C, T, l : C = Coef(t) /\ T = Terms(C, 0) /\ l = n + 1
  OBVIOUS
<1>2. /\ C \in IntSequences /\ n \in Nat /\ l \in Nat /\ 1 <= l /\ C[0] = t[0] /\ t[0] \in Int
  BY <1>1, CoefIs
<1>3. T \in IntSequences
  BY <1>1, <1>2, TermsAre
<1>0. 0 \in Int /\ l > n
  BY <1>1, <1>2
<1>4. Cong(rho(t, 0), Sum(T, l), P)
  <2>1. Cong(rho(t, 0), PolyAt(C, 0, l), P)
    BY <1>0, <1>1, <1>2, RhoPoly
  <2> QED
    BY <1>1, <2>1 DEF PolyAt
<1>5. ASSUME NEW k \in 1 .. (l - 1) PROVE T[k] = 0
  <2>1. PICK j : j = k - 1
    OBVIOUS
  <2>2. j \in Nat /\ k = j + 1 /\ k \in Nat
    BY <2>1
  <2>3. PowMod(0, j, P) \in 0 .. (P - 1) /\ PowMod(0, k, P) = (PowMod(0, j, P) * 0) % P
    BY ONLY <1>0, <2>2, Modulus, PowSteps
  <2>4. PowMod(0, k, P) = 0
    <3>1. PICK v : v = PowMod(0, j, P)
      OBVIOUS
    <3>2. v * 0 = 0
      BY <2>3, <3>1
    <3> QED
      BY <2>3, <3>1, <3>2, Modulus
  <2>5. C[k] \in Int
    BY <1>2, <2>2 DEF IntSequences
  <2> QED
    BY <1>1, <2>2, <2>4, <2>5 DEF Terms
<1>6. Sum(T, l) = Sum(T, 1)
  BY <1>2, <1>3, <1>5, SumTail
<1>7. Sum(T, 1) = T[0] /\ T[0] = PowMod(0, 0, P) * C[0]
  <2>1. Sum(T, 0 + 1) = Sum(T, 0) + T[0] /\ Sum(T, 0) = 0
    BY <1>3, SumSteps
  <2>2. T[0] \in Int
    BY <1>3 DEF IntSequences
  <2> QED
    BY <1>1, <2>1, <2>2 DEF Terms
<1>8. PowMod(0, 0, P) = 1
  <2>1. PowMod(0, 0, P) = 1 % P
    BY ONLY <1>0, Modulus, PowSteps
  <2> QED
    BY <2>1, Modulus
<1>9. T[0] = t[0]
  BY <1>2, <1>7, <1>8
<1> QED
  BY <1>4, <1>6, <1>7, <1>9

\* A tag of degree 0 has its only coefficient everywhere.
LEMMA RhoOfConstant ==
  ASSUME NEW t, IsTag(t, 0), NEW z \in Int
  PROVE  Cong(rho(t, z), t[0], P)
<1>1. PICK C, T : C = Coef(t) /\ T = Terms(C, z)
  OBVIOUS
<1>2. C \in IntSequences /\ C[0] = t[0] /\ t[0] \in Int
  BY <1>1, CoefIs
<1>3. T \in IntSequences
  BY <1>1, <1>2, TermsAre
<1>4. Cong(rho(t, z), Sum(T, 1), P)
  <2>1. 1 \in Nat /\ 1 > 0
    OBVIOUS
  <2>2. Cong(rho(t, z), PolyAt(C, z, 1), P)
    BY <1>1, <2>1, RhoPoly
  <2> QED
    BY <1>1, <2>2 DEF PolyAt
<1>5. Sum(T, 1) = T[0] /\ T[0] = PowMod(z, 0, P) * C[0]
  <2>1. Sum(T, 0 + 1) = Sum(T, 0) + T[0] /\ Sum(T, 0) = 0
    BY <1>3, SumSteps
  <2>2. T[0] \in Int
    BY <1>3 DEF IntSequences
  <2> QED
    BY <1>1, <2>1, <2>2 DEF Terms
<1>6. PowMod(z, 0, P) = 1
  <2>1. PowMod(z, 0, P) = 1 % P
    BY Modulus, PowSteps
  <2> QED
    BY <2>1, Modulus
<1>7. T[0] = t[0]
  BY <1>2, <1>5, <1>6
<1> QED
  BY <1>4, <1>5, <1>7

\* The operations give tags, and their values at every point are the sum, the multiple and
\* the product of the values.
LEMMA AdditionIs ==
  ASSUME NEW n, NEW a, IsTag(a, n), NEW m, NEW b, IsTag(b, m), NEW t, t = tag_addition(a, b)
  PROVE  /\ IsTag(t, IF n >= m THEN n ELSE m) /\ t[0] \in 0 .. (P - 1)
         /\ \A z \in Int : Cong(rho(t, z), rho(a, z) + rho(b, z), P)
<1>1. PICK A, B, H, C, l : /\ A = Coef(a) /\ B = Coef(b) /\ H = Combined(A, 1, B)
                           /\ C = Coef(t) /\ l = IF n >= m THEN n ELSE m
  OBVIOUS
<1>2. /\ n \in Nat /\ m \in Nat /\ DOMAIN a = 0 .. n /\ DOMAIN b = 0 .. m
      /\ A \in IntSequences /\ B \in IntSequences
      /\ \A k \in 0 .. n : A[k] = a[k] /\ a[k] \in Nat
      /\ \A k \in 0 .. m : B[k] = b[k] /\ b[k] \in Nat
      /\ \A k \in Nat : k > n => A[k] = 0
      /\ \A k \in Nat : k > m => B[k] = 0
  BY <1>1, CoefIs
<1>3. l \in Nat /\ l >= n /\ l >= m /\ 0 .. l = DOMAIN a \cup DOMAIN b
  BY <1>1, <1>2
<1>4. t = [k \in 0 .. l |-> IF k \notin DOMAIN b THEN a[k]
                            ELSE IF k \notin DOMAIN a THEN b[k] ELSE (a[k] + b[k]) % P]
  BY <1>3 DEF tag_addition
<1>5. ASSUME NEW k \in 0 .. l
      PROVE  t[k] \in Nat /\ H[k] \in Int /\ Cong(t[k], H[k], P)
  <2>0. k \in Nat
    BY <1>3
  <2>1. k \in Nat /\ H[k] = A[k] + 1 * B[k] /\ A[k] \in Int /\ B[k] \in Int
    BY <1>1, <1>2, <2>0 DEF Combined, IntSequences
  <2>2. CASE k \notin DOMAIN b
    <3>1. k \in 0 .. n /\ k \notin 0 .. m
      BY ONLY <1>2, <1>3, <2>2, k \in 0 .. l
    <3>0. k > m
      BY <1>2, <2>1, <3>1
    <3>2. B[k] = 0 /\ A[k] = a[k] /\ t[k] = a[k] /\ a[k] \in Nat
      BY <1>2, <1>4, <2>1, <2>2, <3>0, <3>1
    <3>3. t[k] = H[k]
      BY <2>1, <3>2
    <3> QED
      BY <2>1, <3>2, <3>3, CongruentSame
  <2>3. CASE k \in DOMAIN b /\ k \notin DOMAIN a
    <3>1. k \in 0 .. m /\ k \notin 0 .. n
      BY ONLY <1>2, <1>3, <2>3, k \in 0 .. l
    <3>0. k > n
      BY <1>2, <2>1, <3>1
    <3>2. A[k] = 0 /\ B[k] = b[k] /\ t[k] = b[k] /\ b[k] \in Nat
      BY <1>2, <1>4, <2>1, <2>3, <3>0, <3>1
    <3>3. t[k] = H[k]
      BY <2>1, <3>2
    <3> QED
      BY <2>1, <3>2, <3>3, CongruentSame
  <2>4. CASE k \in DOMAIN b /\ k \in DOMAIN a
    <3>1. PICK v : v = a[k] + b[k]
      OBVIOUS
    <3>2. A[k] = a[k] /\ B[k] = b[k] /\ t[k] = v % P
      BY <1>2, <1>4, <2>4, <3>1
    <3>3. H[k] = v /\ v \in Int
      BY <2>1, <3>1, <3>2
    <3>4. Cong(v % P, v, P) /\ v % P \in 0 .. (P - 1)
      BY <3>3, Modulus, CongruentRemainder, Remainder
    <3> QED
      BY <3>2, <3>3, <3>4
  <2> QED
    BY <2>2, <2>3, <2>4
<1>6. IsTag(t, l)
  BY <1>3, <1>4, <1>5 DEF IsTag
<1>7. ASSUME NEW z \in Int PROVE Cong(rho(t, z), rho(a, z) + rho(b, z), P)
  <2>1. PICK j, u, v, p, q : /\ j = l + 1 /\ u = PolyAt(A, z, j) /\ v = PolyAt(B, z, j)
                             /\ p = rho(a, z) /\ q = rho(b, z)
    OBVIOUS
  <2>2. j \in Nat /\ j > l /\ j > n /\ j > m /\ \A k \in 0 .. (j - 1) : k \in 0 .. l
    BY <1>2, <1>3, <2>1
  <2>3. u \in Int /\ v \in Int
    BY <1>2, <2>1, <2>2, TermsAre
  <2>4. p \in Int /\ q \in Int /\ Cong(u, p, P) /\ Cong(v, q, P)
    BY <1>1, <2>1, <2>2, RhoPoly, CongruentBack
  <2>5. H \in IntSequences /\ PolyAt(H, z, j) = u + 1 * v
    BY <1>1, <1>2, <2>1, <2>2, PolyLinear
  <2>6. \A k \in 0 .. (j - 1) : Cong(C[k], H[k], P)
    <3>1. \A k \in 0 .. l : C[k] = t[k]
      BY <1>1, <1>6, CoefIs
    <3> QED
      BY <1>5, <2>2, <3>1
  <2>7. Cong(rho(t, z), PolyAt(H, z, j), P)
    BY <1>1, <1>6, <2>2, <2>5, <2>6, RhoOf
  <2>8. Cong(u + v, p + q, P)
    BY <2>3, <2>4, Modulus, CongruentSum
  <2>9. u + 1 * v = u + v
    BY <2>3
  <2> QED
    BY <2>1, <2>5, <2>7, <2>8, <2>9, CongruentOn
<1>8. t[0] \in 0 .. (P - 1)
  <2>1. 0 \in 0 .. l /\ 0 \in 0 .. n /\ 0 \in 0 .. m
    BY <1>2, <1>3
  <2>2. PICK v : v = a[0] + b[0]
    OBVIOUS
  <2>3. v \in Int /\ t[0] = v % P
    BY <1>2, <1>4, <2>1, <2>2
  <2> QED
    BY <2>3, Modulus, Remainder
<1> QED
  BY <1>1, <1>6, <1>7, <1>8

\* tag_constant_product: a tag of the same degree, its value everywhere times the constant.
LEMMA ConstantIs ==
  ASSUME NEW n, NEW a, IsTag(a, n), NEW c \in Int, NEW t, t = tag_constant_product(a, c)
  PROVE  /\ IsTag(t, n) /\ t[0] \in 0 .. (P - 1)
         /\ \A z \in Int : Cong(rho(t, z), rho(a, z) * c, P)
<1>1. PICK A, O, H, C : /\ A = Coef(a) /\ O = [k \in Nat |-> 0] /\ H = Combined(O, c, A)
                        /\ C = Coef(t)
  OBVIOUS
<1>2. /\ n \in Nat /\ DOMAIN a = 0 .. n /\ A \in IntSequences /\ O \in IntSequences
      /\ \A k \in 0 .. n : A[k] = a[k] /\ a[k] \in Nat
  <2>1. O \in IntSequences
    BY <1>1 DEF IntSequences
  <2> QED
    BY <1>1, <2>1, CoefIs
<1>3. t = [k \in 0 .. n |-> IF c = 0 THEN 0 ELSE (a[k] * c) % P]
  BY <1>2 DEF tag_constant_product
<1>4. ASSUME NEW k \in 0 .. n
      PROVE  t[k] \in Nat /\ Cong(t[k], H[k], P)
  <2>1. k \in Nat /\ A[k] = a[k] /\ a[k] \in Nat
    BY <1>2
  <2>2. H[k] = 0 + c * A[k]
    BY <1>1, <2>1 DEF Combined
  <2>3. PICK v : v = a[k] * c
    OBVIOUS
  <2>4. v \in Int /\ H[k] = v
    BY <2>1, <2>2, <2>3
  <2>5. Cong(v % P, v, P) /\ v % P \in 0 .. (P - 1)
    BY <2>4, Modulus, CongruentRemainder, Remainder
  <2>6. CASE c = 0
    <3>1. t[k] = 0 /\ v = 0
      BY <1>3, <2>1, <2>3, <2>6
    <3> QED
      BY <2>4, <3>1, CongruentSame
  <2>7. CASE c # 0
    <3>1. t[k] = v % P
      BY <1>3, <2>3, <2>7
    <3> QED
      BY <2>4, <2>5, <3>1
  <2> QED
    BY <2>6, <2>7
<1>5. IsTag(t, n)
  BY <1>2, <1>3, <1>4 DEF IsTag
<1>6. ASSUME NEW z \in Int PROVE Cong(rho(t, z), rho(a, z) * c, P)
  <2>1. PICK j, o, u, p : /\ j = n + 1 /\ u = PolyAt(A, z, j) /\ o = PolyAt(O, z, j)
                          /\ p = rho(a, z)
    OBVIOUS
  <2>2. j \in Nat /\ j > n /\ 0 \in Nat /\ 0 <= j /\ \A k \in 0 .. (j - 1) : k \in 0 .. n
    BY <1>2, <2>1
  <2>3. u \in Int
    BY <1>2, <2>1, <2>2, TermsAre
  <2>4. p \in Int /\ Cong(u, p, P)
    <3>1. p \in 0 .. (P - 1) /\ Cong(p, u, P)
      BY <1>1, <2>1, <2>2, RhoPoly
    <3> QED
      BY <3>1, CongruentBack
  <2>5. o = 0
    <3>1. \A k \in 0 .. (j - 1) : O[k] = 0
      BY <1>1
    <3>2. o = PolyAt(O, z, 0)
      BY <1>2, <2>1, <2>2, <3>1, PolyTail
    <3>3. Sum(Terms(O, z), 0) = 0
      BY <1>2, TermsAre, SumSteps
    <3> QED
      BY <3>2, <3>3 DEF PolyAt
  <2>6. H \in IntSequences /\ PolyAt(H, z, j) = o + c * u
    BY <1>1, <1>2, <2>1, <2>2, PolyLinear
  <2>7. \A k \in 0 .. (j - 1) : Cong(C[k], H[k], P)
    <3>1. \A k \in 0 .. n : C[k] = t[k]
      BY <1>1, <1>5, CoefIs
    <3> QED
      BY <1>4, <2>2, <3>1
  <2>8. Cong(rho(t, z), PolyAt(H, z, j), P)
    BY <1>1, <1>5, <2>2, <2>6, <2>7, RhoOf
  <2>9. Cong(u * c, p * c, P)
    BY <2>3, <2>4, Modulus, CongruentSame, CongruentProduct
  <2>10. o + c * u = u * c
    BY <2>3, <2>5
  <2> QED
    BY <2>1, <2>6, <2>8, <2>9, <2>10, CongruentOn
<1>7. t[0] \in 0 .. (P - 1)
  <2>1. 0 \in 0 .. n
    BY <1>2
  <2>2. PICK v : v = a[0] * c
    OBVIOUS
  <2>3. v \in Int /\ t[0] = IF c = 0 THEN 0 ELSE v % P
    BY <1>2, <1>3, <2>1, <2>2
  <2> QED
    BY <2>3, Modulus, Remainder
<1> QED
  BY <1>5, <1>6, <1>7

\* The degree, as the code counts it.
LEMMA DegreeIs ==
  ASSUME NEW n, NEW t, IsTag(t, n)
  PROVE  Degree(t) = n
<1>1. n \in Nat /\ DOMAIN t = 0 .. n /\ 0 \in Int /\ n \in Int
  BY DEF IsTag
<1>2. Cardinality(0 .. n) = IF 0 > n THEN 0 ELSE n - 0 + 1
  BY ONLY <1>1, FS_Interval
<1> QED
  BY <1>1, <1>2 DEF Degree

\* tag_mul_naive: a tag of the sum of the degrees, its value everywhere the product.
LEMMA NaiveIs ==
  ASSUME NEW n, NEW a, IsTag(a, n), NEW m, NEW b, IsTag(b, m), NEW t, t = tag_mul_naive(a, b)
  PROVE  /\ IsTag(t, n + m) /\ \A k \in 0 .. (n + m) : t[k] \in 0 .. (P - 1)
         /\ \A z \in Int : Cong(rho(t, z), rho(a, z) * rho(b, z), P)
<1>1. PICK A, B, H, C, l : /\ A = Coef(a) /\ B = Coef(b) /\ H = Product(A, B, n + 1)
                           /\ C = Coef(t) /\ l = n + m
  OBVIOUS
<1>2. /\ n \in Nat /\ m \in Nat /\ l \in Nat /\ A \in IntSequences /\ B \in IntSequences
      /\ \A k \in Nat : k > m => B[k] = 0
  BY <1>1, CoefIs
<1>3. t = [k \in 0 .. l |-> Convolution(a, b, k)]
  BY <1>1, DegreeIs DEF tag_mul_naive
<1>4. ASSUME NEW k \in 0 .. l
      PROVE  t[k] \in 0 .. (P - 1) /\ t[k] \in Int /\ Cong(t[k], H[k], P)
  <2>1. k \in Nat
    BY <1>2
  <2>2. Convolution(a, b, k) \in 0 .. (P - 1) /\ Cong(Convolution(a, b, k), H[k], P)
    BY <1>1, <2>1, ConvolutionProduct
  <2> QED
    BY <1>3, <2>2, Modulus
<1>5. IsTag(t, l)
  BY <1>2, <1>3, <1>4 DEF IsTag
<1>6. ASSUME NEW z \in Int PROVE Cong(rho(t, z), rho(a, z) * rho(b, z), P)
  <2>1. PICK j, e, f, u, v, p, q :
          /\ j = l + 1 /\ e = n + 1 /\ f = m + 1 /\ u = PolyAt(A, z, e) /\ v = PolyAt(B, z, f)
          /\ p = rho(a, z) /\ q = rho(b, z)
    OBVIOUS
  <2>2. /\ j \in Nat /\ j > l /\ e \in Nat /\ e > n /\ f \in Nat /\ f > m /\ j + 1 >= e + f
        /\ \A k \in 0 .. (j - 1) : k \in 0 .. l
    BY <1>1, <1>2, <2>1
  <2>3. u \in Int /\ v \in Int
    BY <1>2, <2>1, <2>2, TermsAre
  <2>4. p \in Int /\ Cong(u, p, P) /\ q \in Int /\ Cong(v, q, P)
    <3>1. p \in 0 .. (P - 1) /\ Cong(p, u, P)
      BY <1>1, <2>1, <2>2, RhoPoly
    <3>2. q \in 0 .. (P - 1) /\ Cong(q, v, P)
      BY <1>1, <2>1, <2>2, RhoPoly
    <3> QED
      BY <3>1, <3>2, CongruentBack
  <2>5. H \in IntSequences
    BY <1>1, <1>2, <2>1, <2>2, ProductSteps
  <2>6. Cong(PolyAt(H, z, j), u * v, P)
    <3>1. \A k \in Nat : k >= f => B[k] = 0
      BY <1>2, <2>1
    <3> QED
      BY <1>1, <1>2, <2>1, <2>2, <3>1, PolyProduct
  <2>7. \A k \in 0 .. (j - 1) : Cong(C[k], H[k], P)
    <3>1. \A k \in 0 .. l : C[k] = t[k]
      BY <1>1, <1>5, CoefIs
    <3> QED
      BY <1>4, <2>2, <3>1
  <2>8. Cong(rho(t, z), PolyAt(H, z, j), P)
    BY <1>1, <1>5, <2>2, <2>5, <2>7, RhoOf
  <2>9. Cong(u * v, p * q, P)
    BY <2>3, <2>4, Modulus, CongruentProduct
  <2> QED
    BY <2>1, <2>6, <2>8, <2>9, CongruentOn
<1> QED
  BY <1>1, <1>4, <1>5, <1>6

\* A non-empty set of bounded numbers has a greatest.
LEMMA Greatest ==
  ASSUME NEW n \in Nat, NEW S \in SUBSET (0 .. n), S # {}
  PROVE  Max(S) \in S /\ \A k \in S : Max(S) >= k
<1>1. PICK T : T = {n - k : k \in S}
  OBVIOUS
<1>2. T \in SUBSET Nat /\ T # {}
  <2>1. \A k \in S : n - k \in Nat
    OBVIOUS
  <2> QED
    BY <1>1, <2>1
<1>3. PICK i \in T : \A j \in T : i <= j
  BY <1>2, Least
<1>4. PICK k \in S : i = n - k
  BY <1>1
<1>5. \A j \in S : k >= j
  <2> TAKE j \in S
  <2>1. n - j \in T
    BY <1>1
  <2> QED
    BY <1>3, <1>4, <2>1
<1> QED
  BY <1>5 DEF Max

\* The same coefficients followed by zeros.
LEMMA RhoTail ==
  ASSUME NEW n, NEW t, IsTag(t, n), NEW m \in Nat, m <= n, \A k \in (m + 1) .. n : t[k] = 0,
         NEW w, w = [k \in 0 .. m |-> t[k]]
  PROVE  IsTag(w, m) /\ \A z \in Int : Cong(rho(w, z), rho(t, z), P)
<1>1. PICK C, W : C = Coef(t) /\ W = Coef(w)
  OBVIOUS
<1>2. /\ n \in Nat /\ DOMAIN t = 0 .. n /\ C \in IntSequences
      /\ \A k \in 0 .. n : C[k] = t[k] /\ t[k] \in Int
  BY <1>1, CoefIs
<1>3. IsTag(w, m)
  BY <1>2 DEF IsTag
<1>4. ASSUME NEW z \in Int PROVE Cong(rho(w, z), rho(t, z), P)
  <2>1. PICK l, j : l = m + 1 /\ j = n + 1
    OBVIOUS
  <2>2. l \in Nat /\ j \in Nat /\ l <= j /\ l > m /\ j > n
    BY <1>2, <2>1
  <2>3. \A k \in l .. (j - 1) : C[k] = 0
    BY <1>2, <2>1
  <2>4. PolyAt(C, z, j) = PolyAt(C, z, l)
    BY <1>2, <2>2, <2>3, PolyTail
  <2>5. \A k \in 0 .. (l - 1) : Cong(W[k], C[k], P)
    <3>1. \A k \in 0 .. m : W[k] = w[k]
      BY <1>1, <1>3, CoefIs
    <3>2. \A k \in 0 .. m : k \in 0 .. n /\ w[k] = t[k]
      BY <1>2
    <3>3. \A k \in 0 .. (l - 1) : k \in 0 .. m /\ W[k] = C[k]
      BY <1>2, <2>1, <3>1, <3>2
    <3> QED
      BY <3>3, CongruentSame
  <2>6. Cong(rho(w, z), PolyAt(C, z, l), P)
    BY <1>1, <1>2, <1>3, <2>2, <2>5, RhoOf
  <2>7. Cong(rho(t, z), PolyAt(C, z, j), P)
    BY <1>1, <2>2, RhoPoly
  <2> QED
    BY <2>4, <2>6, <2>7, CongruentBack, CongruentOn
<1> QED
  BY <1>3, <1>4

\* The FFT product, when there is one.
LEMMA FFTIs ==
  ASSUME NEW n, NEW a, IsTag(a, n), NEW m, NEW b, IsTag(b, m), NEW t,
         t = tag_fft_mul_mod(a, b), t # ABORT
  PROVE  \E l \in 0 .. (n + m) :
           /\ IsTag(t, l) /\ t[0] \in 0 .. (P - 1)
           /\ \A z \in Int : Cong(rho(t, z), rho(a, z) * rho(b, z), P)
<1>1. PICK p, S, M : /\ p = tag_mul_naive(a, b) /\ S = {k \in DOMAIN p : p[k] # 0}
                     /\ M = Max(S)
  OBVIOUS
<1>2. /\ IsTag(p, n + m) /\ n + m \in Nat
      /\ \A z \in Int : Cong(rho(p, z), rho(a, z) * rho(b, z), P)
  <2>1. IsTag(p, n + m) /\ \A z \in Int : Cong(rho(p, z), rho(a, z) * rho(b, z), P)
    BY <1>1, NaiveIs
  <2> QED
    BY <2>1 DEF IsTag
<1>3. S # {} /\ S = 0 .. M /\ t = [k \in S |-> p[k]]
  BY <1>1 DEF tag_fft_mul_mod
<1>4. S \in SUBSET (0 .. (n + m))
  BY <1>1, <1>2 DEF IsTag
<1>5. M \in S /\ \A k \in S : M >= k
  BY <1>1, <1>2, <1>3, <1>4, Greatest
<1>6. M \in Nat /\ M <= n + m /\ M \in 0 .. (n + m)
  BY <1>2, <1>4, <1>5
<1>7. \A k \in (M + 1) .. (n + m) : p[k] = 0
  <2> TAKE k \in (M + 1) .. (n + m)
  <2>1. k \in DOMAIN p /\ k \notin S
    BY <1>2, <1>3, <1>6 DEF IsTag
  <2> QED
    BY <1>1, <2>1
<1>8. IsTag(t, M) /\ \A z \in Int : Cong(rho(t, z), rho(p, z), P)
  BY <1>2, <1>3, <1>6, <1>7, RhoTail
<1>9. \A z \in Int : Cong(rho(t, z), rho(a, z) * rho(b, z), P)
  BY <1>2, <1>8, CongruentOn
<1>10. t[0] \in 0 .. (P - 1)
  <2>1. 0 \in S /\ 0 \in 0 .. (n + m)
    BY <1>2, <1>3, <1>6
  <2>2. \A k \in 0 .. (n + m) : p[k] \in 0 .. (P - 1)
    BY <1>1, NaiveIs
  <2> QED
    BY <1>3, <2>1, <2>2
<1> QED
  BY <1>6, <1>8, <1>9, <1>10

\* Without one, the product is 0 everywhere or has a coefficient 0 below another.
LEMMA FFTAborts ==
  ASSUME NEW n, NEW a, IsTag(a, n), NEW m, NEW b, IsTag(b, m),
         \A l \in Nat : ABORT \notin [0 .. l -> Int], tag_fft_mul_mod(a, b) = ABORT
  PROVE  \/ \A z \in Int : (rho(a, z) * rho(b, z)) % P = 0
         \/ \E k \in 0 .. (n + m) : \E j \in 0 .. (k - 1) :
              Convolution(a, b, j) = 0 /\ Convolution(a, b, k) # 0
<1>1. PICK p, S, M : /\ p = tag_mul_naive(a, b) /\ S = {k \in DOMAIN p : p[k] # 0}
                     /\ M = Max(S)
  OBVIOUS
<1>2. /\ IsTag(p, n + m) /\ n + m \in Nat /\ n \in Nat /\ m \in Nat
      /\ \A k \in 0 .. (n + m) : p[k] \in Int /\ p[k] = Convolution(a, b, k)
      /\ \A z \in Int : Cong(rho(p, z), rho(a, z) * rho(b, z), P)
  <2>1. IsTag(p, n + m) /\ \A z \in Int : Cong(rho(p, z), rho(a, z) * rho(b, z), P)
    BY <1>1, NaiveIs
  <2>2. p = [k \in 0 .. (n + m) |-> Convolution(a, b, k)]
    BY <1>1, DegreeIs DEF tag_mul_naive
  <2>3. n \in Nat /\ m \in Nat
    BY DEF IsTag
  <2> QED
    BY <2>1, <2>2, <2>3 DEF IsTag
<1>3. S \in SUBSET (0 .. (n + m))
  BY <1>1, <1>2 DEF IsTag
<1>4. CASE S = {}
  <2>1. \A k \in 1 .. (n + m) : p[k] = 0
    <3> TAKE k \in 1 .. (n + m)
    <3>1. k \in DOMAIN p
      BY <1>2 DEF IsTag
    <3> QED
      BY <1>1, <1>4, <3>1
  <2>3. p[0] = 0 /\ 0 \in Nat /\ 0 <= n + m
    <3>1. 0 \in DOMAIN p
      BY <1>2 DEF IsTag
    <3> QED
      BY <1>1, <1>2, <1>4, <3>1
  <2>4. ASSUME NEW z \in Int PROVE (rho(a, z) * rho(b, z)) % P = 0
    <3>1. PICK O, C, l : O = [k \in Nat |-> 0] /\ C = Coef(p) /\ l = n + m + 1
      OBVIOUS
    <3>2. O \in IntSequences /\ l \in Nat /\ l > n + m /\ 0 <= l
      BY <1>2, <3>1 DEF IntSequences
    <3>3. \A k \in 0 .. (l - 1) : C[k] = O[k]
      <4>1. \A k \in 0 .. (n + m) : C[k] = p[k]
        BY <1>2, <3>1, CoefIs
      <4>2. \A k \in 0 .. (n + m) : p[k] = 0
        BY <1>2, <2>1, <2>3
      <4> QED
        BY <1>2, <3>1, <4>1, <4>2
    <3>4. Cong(rho(p, z), PolyAt(O, z, l), P)
      BY <1>2, <3>1, <3>2, <3>3, RhoOf, CongruentSame
    <3>5. PolyAt(O, z, l) = 0
      <4>1. \A k \in 0 .. (l - 1) : O[k] = 0
        BY <3>1
      <4>2. PolyAt(O, z, l) = PolyAt(O, z, 0)
        BY <2>3, <3>2, <4>1, PolyTail
      <4>3. Sum(Terms(O, z), 0) = 0
        BY <3>2, TermsAre, SumSteps
      <4> QED
        BY <4>2, <4>3 DEF PolyAt
    <3>6. Cong(rho(a, z) * rho(b, z), 0, P)
      BY <1>2, <3>4, <3>5, CongruentBack, CongruentOn
    <3>7. (rho(a, z) * rho(b, z)) % P = 0 % P
      BY <3>6 DEF Cong
    <3>8. 0 % P = 0
      BY Modulus
    <3> QED
      BY <3>7, <3>8
  <2> QED
    BY <2>4
<1>5. CASE S # {}
  <2>1. M \in S /\ \A k \in S : M >= k
    BY <1>1, <1>2, <1>3, <1>5, Greatest
  <2>2. M \in Nat /\ M \in 0 .. (n + m)
    BY <1>2, <1>3, <2>1
  <2>3. S # 0 .. M
    <3> SUFFICES ASSUME S = 0 .. M PROVE FALSE
      OBVIOUS
    <3>1. ABORT = [k \in S |-> p[k]]
      BY <1>1, <1>5 DEF tag_fft_mul_mod
    <3>2. ABORT \in [0 .. M -> Int]
      BY <1>2, <1>3, <3>1
    <3> QED
      BY <2>2, <3>2
  <2>4. PICK j \in 0 .. M : j \notin S
    <3>1. \A i \in S : i \in 0 .. M
      BY <1>2, <1>3, <2>1, <2>2
    <3>2. ~ (0 .. M \subseteq S)
      BY <2>3, <3>1
    <3> QED
      BY <3>2
  <2>5. j \in 0 .. (n + m) /\ p[j] = 0 /\ p[M] # 0 /\ j \in 0 .. (M - 1)
    <3>1. j \in 0 .. (n + m) /\ j \in DOMAIN p
      BY <1>2, <2>2, <2>4 DEF IsTag
    <3>2. p[j] = 0 /\ p[M] # 0
      BY <1>1, <2>1, <2>4, <3>1
    <3> QED
      BY <2>1, <2>2, <2>4, <3>1, <3>2
  <2> QED
    BY <1>2, <2>2, <2>5
<1> QED
  BY <1>4, <1>5

-----------------------------------------------------------------------------
(***************************************************************************)
(* Prime numbers                                                           *)
(***************************************************************************)
Prime(n) == n \in Nat \ {0, 1} /\ \A e \in 2 .. (n - 1) : n % e # 0

\* Modulo a prime every number but 0 has an inverse: the least of its multiples divides n.
LEMMA InverseExists ==
  ASSUME NEW n, Prime(n), NEW a \in Int, a % n # 0
  PROVE  \E b \in 1 .. (n - 1) : (a * b) % n = 1
<1>1. n \in Nat \ {0} /\ n > 1 /\ n \in Int
  BY DEF Prime
<1>2. PICK T : T = {e \in 1 .. (n - 1) : \E b \in Int : Cong(a * b, e, n)}
  OBVIOUS
<1>3. ASSUME NEW c \in Int, NEW b \in Int, c = a * b, c % n # 0
      PROVE  c % n \in T
  <2>1. c % n \in 0 .. (n - 1) /\ Cong(c, c % n, n)
    BY <1>1, <1>3, Remainder, CongruentRemainder, CongruentBack
  <2>2. PICK e : e = c % n
    OBVIOUS
  <2>3. e \in 1 .. (n - 1) /\ Cong(a * b, e, n)
    BY <1>1, <1>3, <2>1, <2>2
  <2> QED
    BY <1>2, <2>2, <2>3
<1>4. T \in SUBSET Nat /\ T # {}
  <2>1. a = a * 1 /\ 1 \in Int
    OBVIOUS
  <2>2. a % n \in T
    BY <1>3, <2>1
  <2>3. \A e \in 1 .. (n - 1) : e \in Nat
    OBVIOUS
  <2>4. T \in SUBSET Nat
    BY <1>2, <2>3
  <2>5. T # {}
    BY <2>2
  <2> QED
    BY <2>4, <2>5
<1>5. PICK e \in T : \A f \in T : e <= f
  BY <1>4, Least
<1>6. PICK b \in Int : Cong(a * b, e, n)
  BY <1>2, <1>5
<1>7. e \in 1 .. (n - 1) /\ e \in Nat \ {0} /\ e \in Int
  BY <1>1, <1>2, <1>5
<1>8. n % e = 0
  <2> SUFFICES ASSUME n % e # 0 PROVE FALSE
    OBVIOUS
  <2>1. PICK q, f : q \in Int /\ f = n % e /\ n = e * q + f /\ f \in 0 .. (e - 1)
    BY <1>1, <1>7, Remainder
  <2>2. PICK u, v, w : u = a * b /\ v = 0 - q /\ w = b * v
    OBVIOUS
  <2>3. u \in Int /\ v \in Int /\ w \in Int /\ f \in Int /\ f # 0
    BY <1>6, <2>1, <2>2
  <2>4. Cong(u, e, n) /\ Cong(v, v, n)
    BY <1>6, <2>2, CongruentSame
  <2>5. Cong(u * v, e * v, n)
    BY <1>1, <1>7, <2>3, <2>4, CongruentProduct
  <2>6. PICK s : s = e * v
    OBVIOUS
  <2>7. s \in Int /\ f = s + n * 1
    BY <1>1, <1>7, <2>1, <2>2, <2>3, <2>6
  <2>8. Cong(f, s, n)
    BY ONLY <1>1, <2>3, <2>7, 1 \in Int, Congruent
  <2>9. u * v = a * w
    BY <2>2, <2>3
  <2>10. Cong(a * w, f, n)
    BY <2>5, <2>6, <2>8, <2>9, CongruentBack, CongruentOn
  <2>11. f \in 1 .. (n - 1)
    BY <1>1, <1>7, <2>1, <2>3
  <2>12. f \in T
    BY <1>2, <2>3, <2>10, <2>11
  <2> QED
    BY <1>5, <1>7, <2>1, <2>12
<1>9. e = 1
  BY <1>1, <1>7, <1>8 DEF Prime
<1>10. PICK c, f : c = b % n /\ f = a * c
  OBVIOUS
<1>11. c \in 0 .. (n - 1) /\ Cong(c, b, n) /\ c \in Int /\ f \in Int
  <2>1. c \in 0 .. (n - 1) /\ Cong(c, b, n)
    BY <1>1, <1>10, Remainder, CongruentRemainder
  <2> QED
    BY <1>10, <2>1
<1>12. Cong(f, 1, n)
  <2>1. Cong(a * c, a * b, n)
    BY <1>1, <1>11, CongruentSame, CongruentProduct
  <2> QED
    BY <1>6, <1>9, <1>10, <2>1, CongruentOn
<1>13. f % n = 1
  BY <1>1, <1>12 DEF Cong
<1>14. c # 0
  <2> SUFFICES ASSUME c = 0 PROVE FALSE
    OBVIOUS
  <2>1. f = 0
    BY <1>10
  <2>2. 0 % n = 0
    BY <1>1
  <2> QED
    BY <1>13, <2>1, <2>2
<1> QED
  BY <1>10, <1>11, <1>13, <1>14

\* So a factor that is not 0 can be cancelled.
LEMMA Cancelled ==
  ASSUME NEW n, Prime(n), NEW a \in Int, a % n # 0, NEW u \in Int, NEW v \in Int,
         Cong(a * u, a * v, n)
  PROVE  Cong(u, v, n)
<1>1. n \in Nat \ {0} /\ n > 1
  BY DEF Prime
<1>2. PICK b \in 1 .. (n - 1) : (a * b) % n = 1
  BY InverseExists
<1>3. PICK c, p, q : c = a * b /\ p = a * u /\ q = a * v
  OBVIOUS
<1>4. b \in Int /\ c \in Int /\ p \in Int /\ q \in Int /\ Cong(c, 1, n) /\ Cong(p, q, n)
  <2>1. 1 % n = 1
    BY <1>1
  <2> QED
    BY <1>1, <1>2, <1>3, <2>1 DEF Cong
<1>5. Cong(b * p, b * q, n)
  BY <1>1, <1>4, CongruentSame, CongruentProduct
<1>6. ASSUME NEW w \in Int PROVE Cong(c * w, w, n)
  <2>1. Cong(c * w, 1 * w, n)
    BY <1>1, <1>4, 1 \in Int, CongruentSame, CongruentProduct
  <2>2. 1 * w = w
    OBVIOUS
  <2> QED
    BY <2>1, <2>2
<1>7. b * p = c * u /\ b * q = c * v
  BY <1>3, <1>4
<1> QED
  BY <1>5, <1>6, <1>7, CongruentBack, CongruentOn

-----------------------------------------------------------------------------
(***************************************************************************)
(* Evaluation of circuits                                                  *)
(***************************************************************************)
\* What the operands of a gate are.
LEMMA CircuitIs ==
  ASSUME NEW c \in Circuits
  PROVE  /\ WellFormed(c) /\ Acyclic(c) /\ c.n_inputs \in Nat \ {0} /\ OutputGate(c) \in Gates(c)
         /\ \A k \in Gates(c) :
              LET in == c.gates[k].input_ids
                  type == c.gates[k].type
              IN  /\ k \in Nat /\ Reads(c, k) \subseteq Gates(c)
                  /\ k < c.n_inputs <=> type \in InputTypes
                  /\ k >= c.n_inputs =>
                       /\ type \in {"ADD", "MUL", "CONSTMUL"} /\ in[1] \in Reads(c, k)
                       /\ type \in {"ADD", "MUL"} => in[2] \in Reads(c, k) /\ Arity(type) = 2
                       /\ type = "CONSTMUL" => c.gates[k].const_val \in Int /\ Arity(type) = 1
<1>1. WellFormed(c) /\ Acyclic(c)
  BY CircuitsAssumption DEF Evaluable
<1>2. 0 \in Gates(c)
  BY <1>1 DEF WellFormed, Gates
<1>3. c.n_inputs \in Nat \ {0} /\ OutputGate(c) \in Gates(c)
  BY <1>1, <1>2, GatesAre
<1>4. ASSUME NEW k \in Gates(c), NEW in, in = c.gates[k].input_ids,
             NEW t, t = c.gates[k].type
      PROVE  /\ k \in Nat /\ Reads(c, k) \subseteq Gates(c)
             /\ k < c.n_inputs <=> t \in InputTypes
             /\ k >= c.n_inputs =>
                  /\ t \in {"ADD", "MUL", "CONSTMUL"} /\ in[1] \in Reads(c, k)
                  /\ t \in {"ADD", "MUL"} => in[2] \in Reads(c, k) /\ Arity(t) = 2
                  /\ t = "CONSTMUL" => c.gates[k].const_val \in Int /\ Arity(t) = 1
  <2>1. /\ k \in Nat /\ (k < c.n_inputs <=> t \in InputTypes)
        /\ k >= c.n_inputs => t \in {"ADD", "MUL", "CONSTMUL"} /\ in[1] \in Reads(c, k)
        /\ t \in {"ADD", "MUL"} => in[2] \in Reads(c, k)
        /\ Reads(c, k) \subseteq Gates(c)
    BY <1>1, <1>4, GatesAre
  <2>2. t = "CONSTMUL" => c.gates[k].const_val \in Int
    BY <1>4, CircuitsAssumption
  <2>3. (t \in {"ADD", "MUL"} => Arity(t) = 2) /\ (t = "CONSTMUL" => Arity(t) = 1)
    BY DEF Arity, InputTypes, BinaryTypes
  <2> QED
    BY <2>1, <2>2, <2>3
<1> QED
  BY <1>1, <1>3, <1>4

\* MessageValues and its steps, for any circuit.
Numbers(c, inputs) ==
  LET value[k \in Gates(c)] ==
        LET gate == c.gates[k]
        IN  IF k < c.n_inputs THEN inputs[k]
            ELSE CASE gate.type = "ADD" ->
                        (value[gate.input_ids[1]] + value[gate.input_ids[2]]) % P
                   [] gate.type = "MUL" ->
                        (value[gate.input_ids[1]] * value[gate.input_ids[2]]) % P
                   [] OTHER ->
                        (value[gate.input_ids[1]] * gate.const_val) % P
  IN  value

\* MessageValues is that evaluation of the program at hand.
LEMMA MessageValuesAre ==
  ASSUME NEW inputs
  PROVE  MessageValues(inputs) = Numbers(circ, inputs)
BY Zenon DEF MessageValues, Numbers

\* One gate of it, from the values of the gates before.
NumberStep(c, inputs, v, k) ==
  LET gate == c.gates[k]
  IN  IF k < c.n_inputs THEN inputs[k]
      ELSE CASE gate.type = "ADD" -> (v[gate.input_ids[1]] + v[gate.input_ids[2]]) % P
             [] gate.type = "MUL" -> (v[gate.input_ids[1]] * v[gate.input_ids[2]]) % P
             [] OTHER -> (v[gate.input_ids[1]] * gate.const_val) % P

\* A step from numbers gives a number, the same from the same numbers.
LEMMA NumberStepIs ==
  ASSUME NEW c \in Circuits, NEW inputs, \A k \in 0 .. (c.n_inputs - 1) : inputs[k] \in Int,
         NEW k \in Gates(c), NEW u
  PROVE  /\ (\A j \in Reads(c, k) : u[j] \in Int) => NumberStep(c, inputs, u, k) \in Int
         /\ \A v : (\A j \in Reads(c, k) : u[j] = v[j]) =>
                     NumberStep(c, inputs, u, k) = NumberStep(c, inputs, v, k)
<1>1. CASE k < c.n_inputs
  <2>1. k \in 0 .. (c.n_inputs - 1)
    BY <1>1, CircuitIs
  <2> QED
    BY <1>1, <2>1 DEF NumberStep
<1>2. CASE ~ (k < c.n_inputs)
  <2>1. PICK t, i, j, z : /\ t = c.gates[k].type /\ i = c.gates[k].input_ids[1]
                          /\ j = c.gates[k].input_ids[2] /\ z = c.gates[k].const_val
    OBVIOUS
  <2>2. /\ t \in {"ADD", "MUL", "CONSTMUL"} /\ i \in Reads(c, k)
        /\ t \in {"ADD", "MUL"} => j \in Reads(c, k)
        /\ t = "CONSTMUL" => z \in Int
    <3>1. k \in Nat /\ c.n_inputs \in Nat
      BY CircuitIs
    <3> QED
      BY <1>2, <2>1, <3>1, CircuitIs
  <2>3. \A v : NumberStep(c, inputs, v, k) =
          CASE t = "ADD" -> (v[i] + v[j]) % P
            [] t = "MUL" -> (v[i] * v[j]) % P
            [] OTHER -> (v[i] * z) % P
    BY <1>2, <2>1 DEF NumberStep
  <2>4. ASSUME \A l \in Reads(c, k) : u[l] \in Int PROVE NumberStep(c, inputs, u, k) \in Int
    <3>1. CASE t = "ADD"
      <4>1. PICK w : w = u[i] + u[j]
        OBVIOUS
      <4>2. w \in Int /\ NumberStep(c, inputs, u, k) = w % P
        BY <2>2, <2>3, <2>4, <3>1, <4>1
      <4> QED
        BY <4>2, Modulus, Remainder
    <3>2. CASE t = "MUL"
      <4>1. PICK w : w = u[i] * u[j]
        OBVIOUS
      <4>2. w \in Int /\ NumberStep(c, inputs, u, k) = w % P
        BY <2>2, <2>3, <2>4, <3>2, <4>1
      <4> QED
        BY <4>2, Modulus, Remainder
    <3>3. CASE t = "CONSTMUL"
      <4>1. PICK w : w = u[i] * z
        OBVIOUS
      <4>2. w \in Int /\ NumberStep(c, inputs, u, k) = w % P
        BY <2>2, <2>3, <2>4, <3>3, <4>1
      <4> QED
        BY <4>2, Modulus, Remainder
    <3> QED
      BY <2>2, <3>1, <3>2, <3>3
  <2>5. ASSUME NEW v, \A l \in Reads(c, k) : u[l] = v[l]
        PROVE  NumberStep(c, inputs, u, k) = NumberStep(c, inputs, v, k)
    <3>1. u[i] = v[i] /\ (t \in {"ADD", "MUL"} => u[j] = v[j])
      BY <2>2, <2>5
    <3> QED
      BY <2>2, <2>3, <3>1
  <2> QED
    BY <2>4, <2>5
<1> QED
  BY <1>1, <1>2

\* The evaluation on numbers has values, one for each gate.
LEMMA NumbersAre ==
  ASSUME NEW c \in Circuits, NEW inputs, \A k \in 0 .. (c.n_inputs - 1) : inputs[k] \in Int
  PROVE  \E v \in [Gates(c) -> Int] :
           /\ v = Numbers(c, inputs)
           /\ \A k \in Gates(c) : v[k] = NumberStep(c, inputs, v, k)
<1>1. PICK G, F : /\ G = Gates(c)
                  /\ F = [k \in G |-> [v \in [G -> Int] |-> NumberStep(c, inputs, v, k)]]
  OBVIOUS
<1>2. WellFormed(c) /\ Acyclic(c) /\ 0 \in Int
  BY CircuitIs
<1>3. F \in Equations(G, Int)
  <2>1. ASSUME NEW k \in G, NEW v \in [G -> Int] PROVE NumberStep(c, inputs, v, k) \in Int
    <3>1. \A j \in Reads(c, k) : v[j] \in Int
      BY <1>1, CircuitIs
    <3> QED
      BY <1>1, <3>1, NumberStepIs
  <2> QED
    BY <1>1, <2>1 DEF Equations
<1>4. ASSUME NEW k \in G, NEW u \in [G -> Int], NEW v \in [G -> Int],
             \A j \in Reads(c, k) : u[j] = v[j]
      PROVE  F[k][u] = F[k][v]
  <2>1. NumberStep(c, inputs, u, k) = NumberStep(c, inputs, v, k)
    BY <1>1, <1>4, NumberStepIs
  <2> QED
    BY <1>1, <2>1
<1>5. PICK f : Solves(f, G, Int, F)
  <2>1. F \in Equations(Gates(c), Int)
    BY <1>1, <1>3
  <2>2. \A k \in Gates(c) : \A u, v \in [Gates(c) -> Int] :
           (\A j \in Reads(c, k) : u[j] = v[j]) => F[k][u] = F[k][v]
    BY <1>1, <1>4
  <2>3. \E v : Solves(v, Gates(c), Int, F)
    BY ONLY <1>2, <2>1, <2>2, GatesSolved
  <2> QED
    BY <1>1, <2>3
<1>6. f = [k \in Gates(c) |-> NumberStep(c, inputs, f, k)]
  BY <1>1, <1>5 DEF Solves
<1> DEFINE value[k \in Gates(c)] ==
        LET gate == c.gates[k]
        IN  IF k < c.n_inputs THEN inputs[k]
            ELSE CASE gate.type = "ADD" ->
                        (value[gate.input_ids[1]] + value[gate.input_ids[2]]) % P
                   [] gate.type = "MUL" ->
                        (value[gate.input_ids[1]] * value[gate.input_ids[2]]) % P
                   [] OTHER ->
                        (value[gate.input_ids[1]] * gate.const_val) % P
<1>7. Numbers(c, inputs) = value
  BY Zenon DEF Numbers
<1>8. value = [k \in Gates(c) |-> NumberStep(c, inputs, value, k)]
  BY <1>6 DEF NumberStep
<1>9. PICK e : e = [k \in Gates(c) |-> NumberStep(c, inputs, e, k)] /\ Numbers(c, inputs) = e
  BY <1>7, <1>8, Zenon
<1> HIDE DEF value
<1>10. PICK N : N = {k \in G : e[k] \in Int}
  OBVIOUS
<1>11. \A k \in Gates(c) : Reads(c, k) \subseteq N => k \in N
  <2> SUFFICES ASSUME NEW k \in Gates(c), Reads(c, k) \subseteq N PROVE k \in N
    OBVIOUS
  <2>1. \A j \in Reads(c, k) : e[j] \in Int
    BY <1>10
  <2>2. NumberStep(c, inputs, e, k) \in Int
    BY <2>1, NumberStepIs
  <2> QED
    BY <1>1, <1>9, <1>10, <2>2
<1>12. Gates(c) \subseteq N
  BY ONLY <1>2, <1>11, AlongCircuit
<1>13. e \in [Gates(c) -> Int] /\ \A k \in Gates(c) : e[k] = NumberStep(c, inputs, e, k)
  <2>1. \A k \in Gates(c) : e[k] \in Int
    BY <1>10, <1>12
  <2> QED
    BY <1>9, <2>1
<1> QED
  BY <1>9, <1>13

-----------------------------------------------------------------------------
\* TagValues and its steps, for any circuit.
TagsOf(c, fft, ts) ==
  LET value[k \in Gates(c)] ==
        LET gate == c.gates[k]
        IN  IF k < c.n_inputs THEN ts[k]
            ELSE IF ABORT \in {value[gate.input_ids[1]],
                               value[gate.input_ids[Arity(gate.type)]]} THEN ABORT
            ELSE CASE gate.type = "ADD" ->
                        tag_addition(value[gate.input_ids[1]],
                                     value[gate.input_ids[Arity(gate.type)]])
                   [] gate.type = "MUL" ->
                        tag_product(fft, value[gate.input_ids[1]],
                                    value[gate.input_ids[Arity(gate.type)]])
                   [] OTHER ->
                        tag_constant_product(value[gate.input_ids[1]], gate.const_val)
  IN  value

\* _cf_eval_tags is that evaluation of the program on the tags of the session.
LEMMA TagValuesAre == TagValues = TagsOf(circ, use_fft, tags)
BY Zenon DEF TagValues, TagsOf, ApplyTags

\* One gate of it, from the tags of the gates before.
TagStep(c, fft, ts, v, k) ==
  LET gate == c.gates[k]
      a == v[gate.input_ids[1]]
      b == v[gate.input_ids[Arity(gate.type)]]
  IN  IF k < c.n_inputs THEN ts[k]
      ELSE IF ABORT \in {a, b} THEN ABORT
      ELSE CASE gate.type = "ADD" -> tag_addition(a, b)
             [] gate.type = "MUL" -> tag_product(fft, a, b)
             [] OTHER -> tag_constant_product(a, gate.const_val)

\* Tags of any degree, and none.
AnyTags == {ABORT} \cup UNION {[0 .. n -> Nat] : n \in Nat}

\* AnyTags are the tags and the placeholder of an operation that died.
LEMMA AnyTagIs ==
  ASSUME NEW t
  PROVE  /\ t \in AnyTags /\ t # ABORT => \E n : IsTag(t, n)
         /\ \A n : IsTag(t, n) => t \in AnyTags
         /\ t = ABORT => t \in AnyTags
BY DEF AnyTags, IsTag

\* The product that use_fft selects.
LEMMA ProductIs ==
  ASSUME NEW n, NEW a, IsTag(a, n), NEW m, NEW b, IsTag(b, m), NEW fft \in BOOLEAN, NEW t,
         t = tag_product(fft, a, b), t # ABORT
  PROVE  \E l \in 0 .. (n + m) :
           /\ IsTag(t, l) /\ (~ fft => l = n + m) /\ t[0] \in 0 .. (P - 1)
           /\ \A z \in Int : Cong(rho(t, z), rho(a, z) * rho(b, z), P)
<1>1. CASE fft
  <2>1. t = tag_fft_mul_mod(a, b)
    BY <1>1 DEF tag_product
  <2> QED
    BY <1>1, <2>1, FFTIs
<1>2. CASE ~ fft
  <2>1. t = tag_mul_naive(a, b)
    BY <1>2 DEF tag_product
  <2>2. /\ IsTag(t, n + m) /\ \A k \in 0 .. (n + m) : t[k] \in 0 .. (P - 1)
        /\ \A z \in Int : Cong(rho(t, z), rho(a, z) * rho(b, z), P)
    BY <2>1, NaiveIs
  <2>3. n + m \in 0 .. (n + m) /\ 0 \in 0 .. (n + m)
    BY DEF IsTag
  <2> QED
    BY <1>2, <2>2, <2>3
<1> QED
  BY <1>1, <1>2

\* The tag t of gate k comes from those of i and j, of degrees n and m: its degree, and its
\* value at every z.
GateResult(c, fft, k, v, t, n, i, m, j) ==
  LET a == v[i]
      b == v[j]
      type == c.gates[k].type
  IN  /\ i \in Reads(c, k) /\ j \in Reads(c, k) /\ i = c.gates[k].input_ids[1]
      /\ type \in {"ADD", "MUL"} => j = c.gates[k].input_ids[2]
      /\ a # ABORT /\ b # ABORT /\ IsTag(a, n) /\ IsTag(b, m)
      /\ type = "ADD" =>
           /\ IsTag(t, IF n >= m THEN n ELSE m) /\ t[0] \in 0 .. (P - 1)
           /\ \A z \in Int : Cong(rho(t, z), rho(a, z) + rho(b, z), P)
      /\ type = "MUL" =>
           \E l \in 0 .. (n + m) :
             /\ IsTag(t, l) /\ (~ fft => l = n + m) /\ t[0] \in 0 .. (P - 1)
             /\ \A z \in Int : Cong(rho(t, z), rho(a, z) * rho(b, z), P)
      /\ type = "CONSTMUL" =>
           /\ IsTag(t, n) /\ t[0] \in 0 .. (P - 1) /\ c.gates[k].const_val \in Int
           /\ \A z \in Int : Cong(rho(t, z), rho(a, z) * c.gates[k].const_val, P)

\* So it is.
LEMMA TagStepIs ==
  ASSUME NEW c \in Circuits, NEW fft \in BOOLEAN, NEW ts, NEW k \in Gates(c),
         k >= c.n_inputs, NEW v, \A j \in Reads(c, k) : v[j] \in AnyTags,
         NEW t, t = TagStep(c, fft, ts, v, k), t # ABORT
  PROVE  \E n, i, m, j : GateResult(c, fft, k, v, t, n, i, m, j)
<1>1. PICK type, i, j, a, b, e :
        /\ type = c.gates[k].type /\ i = c.gates[k].input_ids[1]
        /\ j = c.gates[k].input_ids[Arity(type)] /\ a = v[i] /\ b = v[j]
        /\ e = c.gates[k].const_val
  OBVIOUS
<1>2. /\ type \in {"ADD", "MUL", "CONSTMUL"} /\ i \in Reads(c, k) /\ j \in Reads(c, k)
      /\ type \in {"ADD", "MUL"} => j = c.gates[k].input_ids[2]
      /\ type = "CONSTMUL" => e \in Int
      /\ ~ (k < c.n_inputs)
  <2>1. k \in Nat /\ c.n_inputs \in Nat
    BY CircuitIs
  <2> QED
    BY <1>1, <2>1, CircuitIs
<1>3. /\ a # ABORT /\ b # ABORT
      /\ t = CASE type = "ADD" -> tag_addition(a, b)
               [] type = "MUL" -> tag_product(fft, a, b)
               [] OTHER -> tag_constant_product(a, e)
  <2>1. t = IF ABORT \in {a, b} THEN ABORT
            ELSE CASE type = "ADD" -> tag_addition(a, b)
                   [] type = "MUL" -> tag_product(fft, a, b)
                   [] OTHER -> tag_constant_product(a, e)
    BY <1>1, <1>2, Zenon DEF TagStep
  <2>2. ABORT \notin {a, b}
    BY <2>1
  <2> QED
    BY <2>1, <2>2
<1>4. PICK n, m : IsTag(a, n) /\ IsTag(b, m)
  BY <1>1, <1>2, <1>3, AnyTagIs
<1>5. type = "ADD" =>
        /\ IsTag(t, IF n >= m THEN n ELSE m) /\ t[0] \in 0 .. (P - 1)
        /\ \A z \in Int : Cong(rho(t, z), rho(a, z) + rho(b, z), P)
  <2> SUFFICES ASSUME type = "ADD"
               PROVE  /\ IsTag(t, IF n >= m THEN n ELSE m) /\ t[0] \in 0 .. (P - 1)
                      /\ \A z \in Int : Cong(rho(t, z), rho(a, z) + rho(b, z), P)
    OBVIOUS
  <2>1. t = tag_addition(a, b)
    BY <1>3
  <2> QED
    BY ONLY <1>4, <2>1, AdditionIs
<1>6. type = "MUL" =>
        \E l \in 0 .. (n + m) :
          /\ IsTag(t, l) /\ (~ fft => l = n + m) /\ t[0] \in 0 .. (P - 1)
          /\ \A z \in Int : Cong(rho(t, z), rho(a, z) * rho(b, z), P)
  <2> SUFFICES ASSUME type = "MUL"
               PROVE  \E l \in 0 .. (n + m) :
                        /\ IsTag(t, l) /\ (~ fft => l = n + m) /\ t[0] \in 0 .. (P - 1)
                        /\ \A z \in Int : Cong(rho(t, z), rho(a, z) * rho(b, z), P)
    OBVIOUS
  <2>1. t = tag_product(fft, a, b)
    BY <1>3
  <2> QED
    BY ONLY <1>4, <2>1, t # ABORT, fft \in BOOLEAN, ProductIs
<1>7. type = "CONSTMUL" =>
        /\ IsTag(t, n) /\ t[0] \in 0 .. (P - 1) /\ e \in Int
        /\ \A z \in Int : Cong(rho(t, z), rho(a, z) * e, P)
  <2> SUFFICES ASSUME type = "CONSTMUL"
               PROVE  /\ IsTag(t, n) /\ t[0] \in 0 .. (P - 1) /\ e \in Int
                      /\ \A z \in Int : Cong(rho(t, z), rho(a, z) * e, P)
    OBVIOUS
  <2>1. t = tag_constant_product(a, e) /\ e \in Int
    BY <1>2, <1>3
  <2> QED
    BY ONLY <1>4, <2>1, ConstantIs
<1> HIDE DEF rho
<1> QED
  BY ONLY <1>1, <1>2, <1>3, <1>4, <1>5, <1>6, <1>7, Zenon DEF GateResult

\* A gate makes a tag or dies.
LEMMA TagStepIsTag ==
  ASSUME NEW c \in Circuits, NEW fft \in BOOLEAN, NEW ts,
         \A k \in 0 .. (c.n_inputs - 1) : ts[k] \in AnyTags,
         NEW k \in Gates(c), NEW v, \A j \in Reads(c, k) : v[j] \in AnyTags
  PROVE  TagStep(c, fft, ts, v, k) \in AnyTags
<1>1. PICK t : t = TagStep(c, fft, ts, v, k)
  OBVIOUS
<1>2. CASE k < c.n_inputs
  <2>1. k \in 0 .. (c.n_inputs - 1)
    BY <1>2, CircuitIs
  <2>2. t = ts[k]
    BY <1>1, <1>2, Zenon DEF TagStep
  <2> QED
    BY <1>1, <2>1, <2>2
<1>3. CASE t = ABORT
  BY <1>1, <1>3, AnyTagIs
<1>4. CASE k >= c.n_inputs /\ t # ABORT
  <2>1. c.gates[k].type \in {"ADD", "MUL", "CONSTMUL"}
    BY <1>4, CircuitIs
  <2>2. \E l : IsTag(t, l)
    <3>1. k >= c.n_inputs /\ t # ABORT
      BY <1>4
    <3>2. PICK n, i, m, j : GateResult(c, fft, k, v, t, n, i, m, j)
      BY ONLY <1>1, <3>1, c \in Circuits, fft \in BOOLEAN, k \in Gates(c),
              \A j \in Reads(c, k) : v[j] \in AnyTags, TagStepIs
    <3> QED
      BY ONLY <2>1, <3>2, Zenon DEF GateResult
  <2> QED
    BY <1>1, <2>2, AnyTagIs
<1>5. k < c.n_inputs \/ k >= c.n_inputs
  BY CircuitIs
<1> QED
  BY <1>2, <1>3, <1>4, <1>5

\* A gate reads its operands only.
LEMMA TagStepSame ==
  ASSUME NEW c \in Circuits, NEW fft, NEW ts, NEW k \in Gates(c), NEW u, NEW v,
         \A j \in Reads(c, k) : u[j] = v[j]
  PROVE  TagStep(c, fft, ts, u, k) = TagStep(c, fft, ts, v, k)
<1>1. CASE k < c.n_inputs
  BY <1>1, Zenon DEF TagStep
<1>2. CASE ~ (k < c.n_inputs)
  <2>1. PICK type, i, j : /\ type = c.gates[k].type /\ i = c.gates[k].input_ids[1]
                          /\ j = c.gates[k].input_ids[Arity(type)]
    OBVIOUS
  <2>2. i \in Reads(c, k) /\ j \in Reads(c, k)
    <3>1. k \in Nat /\ c.n_inputs \in Nat
      BY CircuitIs
    <3> QED
      BY <1>2, <2>1, <3>1, CircuitIs
  <2>3. u[i] = v[i] /\ u[j] = v[j]
    BY <2>2
  <2> QED
    BY <2>1, <2>3, Zenon DEF TagStep
<1> QED
  BY <1>1, <1>2

\* The evaluation on tags has values, one for each gate.
LEMMA TagsAre ==
  ASSUME NEW c \in Circuits, NEW fft \in BOOLEAN, NEW ts,
         \A k \in 0 .. (c.n_inputs - 1) : ts[k] \in AnyTags
  PROVE  \E v \in [Gates(c) -> AnyTags] :
           /\ v = TagsOf(c, fft, ts)
           /\ \A k \in Gates(c) : v[k] = TagStep(c, fft, ts, v, k)
<1>1. PICK G, F : /\ G = Gates(c)
                  /\ F = [k \in G |-> [v \in [G -> AnyTags] |-> TagStep(c, fft, ts, v, k)]]
  OBVIOUS
<1>2. WellFormed(c) /\ Acyclic(c) /\ ABORT \in AnyTags
  BY CircuitIs, AnyTagIs
<1>3. F \in Equations(G, AnyTags)
  <2>1. ASSUME NEW k \in G, NEW v \in [G -> AnyTags] PROVE TagStep(c, fft, ts, v, k) \in AnyTags
    <3>1. \A j \in Reads(c, k) : v[j] \in AnyTags
      BY <1>1, CircuitIs
    <3> QED
      BY <1>1, <3>1, TagStepIsTag
  <2> QED
    BY <1>1, <2>1 DEF Equations
<1>4. ASSUME NEW k \in G, NEW u \in [G -> AnyTags], NEW v \in [G -> AnyTags],
             \A j \in Reads(c, k) : u[j] = v[j]
      PROVE  F[k][u] = F[k][v]
  <2>1. TagStep(c, fft, ts, u, k) = TagStep(c, fft, ts, v, k)
    BY <1>1, <1>4, TagStepSame
  <2> QED
    BY <1>1, <2>1
<1>5. PICK f : Solves(f, G, AnyTags, F)
  <2>1. F \in Equations(Gates(c), AnyTags)
    BY <1>1, <1>3
  <2>2. \A k \in Gates(c) : \A u, v \in [Gates(c) -> AnyTags] :
           (\A j \in Reads(c, k) : u[j] = v[j]) => F[k][u] = F[k][v]
    BY <1>1, <1>4
  <2>3. \E v : Solves(v, Gates(c), AnyTags, F)
    BY ONLY <1>2, <2>1, <2>2, GatesSolved
  <2> QED
    BY <1>1, <2>3
<1>6. f = [k \in Gates(c) |-> TagStep(c, fft, ts, f, k)]
  BY <1>1, <1>5 DEF Solves
<1> DEFINE value[k \in Gates(c)] ==
        LET gate == c.gates[k]
        IN  IF k < c.n_inputs THEN ts[k]
            ELSE IF ABORT \in {value[gate.input_ids[1]],
                               value[gate.input_ids[Arity(gate.type)]]} THEN ABORT
            ELSE CASE gate.type = "ADD" ->
                        tag_addition(value[gate.input_ids[1]],
                                     value[gate.input_ids[Arity(gate.type)]])
                   [] gate.type = "MUL" ->
                        tag_product(fft, value[gate.input_ids[1]],
                                    value[gate.input_ids[Arity(gate.type)]])
                   [] OTHER ->
                        tag_constant_product(value[gate.input_ids[1]], gate.const_val)
<1>7. TagsOf(c, fft, ts) = value
  BY Zenon DEF TagsOf
<1>8. value = [k \in Gates(c) |-> TagStep(c, fft, ts, value, k)]
  BY ONLY <1>6, Zenon DEF TagStep
<1>9. PICK e : e = [k \in Gates(c) |-> TagStep(c, fft, ts, e, k)] /\ TagsOf(c, fft, ts) = e
  BY <1>7, <1>8, Zenon
<1> HIDE DEF value
<1>10. PICK N : N = {k \in G : e[k] \in AnyTags}
  OBVIOUS
<1>11. \A k \in Gates(c) : Reads(c, k) \subseteq N => k \in N
  <2> SUFFICES ASSUME NEW k \in Gates(c), Reads(c, k) \subseteq N PROVE k \in N
    OBVIOUS
  <2>1. \A j \in Reads(c, k) : e[j] \in AnyTags
    BY <1>10
  <2>2. TagStep(c, fft, ts, e, k) \in AnyTags
    BY <2>1, TagStepIsTag
  <2> QED
    BY <1>1, <1>9, <1>10, <2>2
<1>12. Gates(c) \subseteq N
  BY ONLY <1>2, <1>11, AlongCircuit
<1>13. e \in [Gates(c) -> AnyTags] /\ \A k \in Gates(c) : e[k] = TagStep(c, fft, ts, e, k)
  <2>1. \A k \in Gates(c) : e[k] \in AnyTags
    BY <1>10, <1>12
  <2> QED
    BY <1>9, <2>1
<1> QED
  BY <1>9, <1>13

\* ProgramDegree and its steps, for any circuit.
DegreeOf(c) ==
  LET degree[k \in Gates(c)] ==
        LET gate == c.gates[k]
            of(j) == degree[gate.input_ids[j]]
        IN  IF gate.type \in InputTypes THEN 1
            ELSE IF gate.type = "MUL" THEN of(1) + of(2)
            ELSE Max({of(j) : j \in 1 .. Arity(gate.type)})
  IN  degree[OutputGate(c)]

\* ProgramDegree is that degree of the program at hand.
LEMMA ProgramDegreeIs == ProgramDegree = DegreeOf(circ)
BY Zenon DEF ProgramDegree, DegreeOf

\* The degree at one gate, from those of the gates before.
DegreeStep(c, v, k) ==
  LET gate == c.gates[k]
      of(j) == v[gate.input_ids[j]]
  IN  IF gate.type \in InputTypes THEN 1
      ELSE IF gate.type = "MUL" THEN of(1) + of(2)
      ELSE Max({of(j) : j \in 1 .. Arity(gate.type)})

\* That degree, type of gate by type of gate.
LEMMA DegreeStepIs ==
  ASSUME NEW c \in Circuits, NEW k \in Gates(c), NEW v, \A j \in Reads(c, k) : v[j] \in Nat,
         NEW w, w = DegreeStep(c, v, k),
         NEW a, a = v[c.gates[k].input_ids[1]], NEW b, b = v[c.gates[k].input_ids[2]]
  PROVE  /\ w \in Nat
         /\ k < c.n_inputs => w = 1
         /\ c.gates[k].type = "MUL" => w = a + b /\ a \in Nat /\ b \in Nat
         /\ c.gates[k].type = "ADD" => w = (IF a >= b THEN a ELSE b) /\ a \in Nat /\ b \in Nat
         /\ c.gates[k].type = "CONSTMUL" => w = a /\ a \in Nat
<1>1. PICK type : type = c.gates[k].type
  OBVIOUS
<1>2. w = IF type \in InputTypes THEN 1
          ELSE IF type = "MUL" THEN a + b
          ELSE Max({v[c.gates[k].input_ids[j]] : j \in 1 .. Arity(type)})
  BY <1>1, Zenon DEF DegreeStep
<1>3. CASE k < c.n_inputs
  <2>1. type \in {"INPUT", "ONEINPUT"}
    BY <1>1, <1>3, CircuitIs DEF InputTypes
  <2> QED
    BY <1>1, <1>2, <1>3, <2>1 DEF InputTypes
<1>4. CASE k >= c.n_inputs
  <2>1. type \in {"ADD", "MUL", "CONSTMUL"} /\ type \notin InputTypes /\ ~ (k < c.n_inputs)
    <3>1. k \in Nat /\ c.n_inputs \in Nat
      BY CircuitIs
    <3> QED
      BY <1>1, <1>4, <3>1, CircuitIs DEF InputTypes
  <2>2. a \in Nat /\ (type \in {"ADD", "MUL"} => b \in Nat /\ Arity(type) = 2)
    BY <1>1, <1>4, CircuitIs
  <2>3. type = "CONSTMUL" => Arity(type) = 1
    BY <1>1, <1>4, CircuitIs
  <2>4. CASE type = "MUL"
    BY <1>1, <1>2, <2>1, <2>2, <2>4
  <2>5. CASE type = "ADD"
    <3>1. 1 .. Arity(type) = {1, 2}
      BY <2>2, <2>5
    <3>2. {v[c.gates[k].input_ids[j]] : j \in 1 .. Arity(type)} = {a, b}
      BY <3>1
    <3>3. w = Max({a, b})
      BY <1>2, <2>1, <2>5, <3>2
    <3>4. Max({a, b}) = IF a >= b THEN a ELSE b
      BY <2>2, <2>5 DEF Max
    <3> QED
      BY <1>1, <2>1, <2>2, <2>5, <3>3, <3>4
  <2>6. CASE type = "CONSTMUL"
    <3>1. 1 .. Arity(type) = {1}
      BY <2>3, <2>6
    <3>2. {v[c.gates[k].input_ids[j]] : j \in 1 .. Arity(type)} = {a}
      BY <3>1
    <3>3. w = Max({a})
      BY <1>2, <2>1, <2>6, <3>2
    <3>4. Max({a}) = a
      BY <2>2 DEF Max
    <3> QED
      BY <1>1, <2>1, <2>2, <2>6, <3>3, <3>4
  <2> QED
    BY <2>1, <2>4, <2>5, <2>6
<1>5. k < c.n_inputs \/ k >= c.n_inputs
  BY CircuitIs
<1> QED
  BY <1>3, <1>4, <1>5

\* The degree at a gate depends on its operands only.
LEMMA DegreeStepSame ==
  ASSUME NEW c \in Circuits, NEW k \in Gates(c), NEW u, \A j \in Reads(c, k) : u[j] \in Nat,
         NEW v, \A j \in Reads(c, k) : u[j] = v[j]
  PROVE  DegreeStep(c, u, k) = DegreeStep(c, v, k)
<1>1. PICK i, j : i = c.gates[k].input_ids[1] /\ j = c.gates[k].input_ids[2]
  OBVIOUS
<1>2. /\ \A l \in Reads(c, k) : v[l] \in Nat
      /\ k < c.n_inputs \/ c.gates[k].type \in {"ADD", "MUL", "CONSTMUL"}
      /\ k >= c.n_inputs => u[i] = v[i]
      /\ k >= c.n_inputs /\ c.gates[k].type \in {"ADD", "MUL"} => u[j] = v[j]
  BY <1>1, CircuitIs
<1>3. PICK p, q : p = DegreeStep(c, u, k) /\ q = DegreeStep(c, v, k)
  OBVIOUS
<1>4. /\ k < c.n_inputs => p = 1 /\ q = 1
      /\ c.gates[k].type = "MUL" => p = u[i] + u[j] /\ q = v[i] + v[j]
      /\ c.gates[k].type = "ADD" => /\ p = IF u[i] >= u[j] THEN u[i] ELSE u[j]
                                    /\ q = IF v[i] >= v[j] THEN v[i] ELSE v[j]
      /\ c.gates[k].type = "CONSTMUL" => p = u[i] /\ q = v[i]
  BY <1>1, <1>2, <1>3, DegreeStepIs
<1>5. k < c.n_inputs \/ k >= c.n_inputs
  BY CircuitIs
<1> QED
  BY <1>2, <1>3, <1>4, <1>5

\* Every gate has a degree.
LEMMA DegreesAre ==
  ASSUME NEW c \in Circuits
  PROVE  \E v \in [Gates(c) -> Nat] :
           /\ v[OutputGate(c)] = DegreeOf(c)
           /\ \A k \in Gates(c) : v[k] = DegreeStep(c, v, k)
<1>1. PICK G, F : /\ G = Gates(c)
                  /\ F = [k \in G |-> [v \in [G -> Nat] |-> DegreeStep(c, v, k)]]
  OBVIOUS
<1>2. WellFormed(c) /\ Acyclic(c) /\ 0 \in Nat
  BY CircuitIs
<1>3. F \in Equations(G, Nat)
  <2>1. ASSUME NEW k \in G, NEW v \in [G -> Nat] PROVE DegreeStep(c, v, k) \in Nat
    <3>1. \A j \in Reads(c, k) : v[j] \in Nat
      BY <1>1, CircuitIs
    <3> QED
      BY <1>1, <3>1, DegreeStepIs
  <2> QED
    BY <1>1, <2>1 DEF Equations
<1>4. ASSUME NEW k \in G, NEW u \in [G -> Nat], NEW v \in [G -> Nat],
             \A j \in Reads(c, k) : u[j] = v[j]
      PROVE  F[k][u] = F[k][v]
  <2>1. \A j \in Reads(c, k) : u[j] \in Nat
    BY <1>1, CircuitIs
  <2>2. DegreeStep(c, u, k) = DegreeStep(c, v, k)
    BY <1>1, <1>4, <2>1, DegreeStepSame
  <2> QED
    BY <1>1, <2>2
<1>5. PICK f : Solves(f, G, Nat, F)
  <2>1. F \in Equations(Gates(c), Nat)
    BY <1>1, <1>3
  <2>2. \A k \in Gates(c) : \A u, v \in [Gates(c) -> Nat] :
           (\A j \in Reads(c, k) : u[j] = v[j]) => F[k][u] = F[k][v]
    BY <1>1, <1>4
  <2>3. \E v : Solves(v, Gates(c), Nat, F)
    BY ONLY <1>2, <2>1, <2>2, GatesSolved
  <2> QED
    BY <1>1, <2>3
<1>6. f = [k \in Gates(c) |-> DegreeStep(c, f, k)]
  BY <1>1, <1>5 DEF Solves
<1> DEFINE degree[k \in Gates(c)] ==
        LET gate == c.gates[k]
            of(j) == degree[gate.input_ids[j]]
        IN  IF gate.type \in InputTypes THEN 1
            ELSE IF gate.type = "MUL" THEN of(1) + of(2)
            ELSE Max({of(j) : j \in 1 .. Arity(gate.type)})
<1>7. DegreeOf(c) = degree[OutputGate(c)]
  BY Zenon DEF DegreeOf
<1>8. degree = [k \in Gates(c) |-> DegreeStep(c, degree, k)]
  BY ONLY <1>6, Zenon DEF DegreeStep
<1>9. PICK e : /\ e = [k \in Gates(c) |-> DegreeStep(c, e, k)]
               /\ DegreeOf(c) = e[OutputGate(c)]
  BY <1>7, <1>8, Zenon
<1> HIDE DEF degree
<1>10. PICK N : N = {k \in G : e[k] \in Nat}
  OBVIOUS
<1>11. \A k \in Gates(c) : Reads(c, k) \subseteq N => k \in N
  <2> SUFFICES ASSUME NEW k \in Gates(c), Reads(c, k) \subseteq N PROVE k \in N
    OBVIOUS
  <2>1. \A j \in Reads(c, k) : e[j] \in Nat
    BY <1>10
  <2>2. DegreeStep(c, e, k) \in Nat
    BY <2>1, DegreeStepIs
  <2> QED
    BY <1>1, <1>9, <1>10, <2>2
<1>12. Gates(c) \subseteq N
  BY ONLY <1>2, <1>11, AlongCircuit
<1>13. e \in [Gates(c) -> Nat] /\ \A k \in Gates(c) : e[k] = DegreeStep(c, e, k)
  <2>1. \A k \in Gates(c) : e[k] \in Nat
    BY <1>10, <1>12
  <2> QED
    BY <1>9, <2>1
<1> QED
  BY <1>9, <1>13

\* No program computes a constant: its inputs are polynomials of degree 1.
LEMMA DegreePositive ==
  ASSUME NEW c \in Circuits
  PROVE  DegreeOf(c) >= 1
<1>1. PICK w \in [Gates(c) -> Nat] : /\ w[OutputGate(c)] = DegreeOf(c)
                                     /\ \A k \in Gates(c) : w[k] = DegreeStep(c, w, k)
  BY DegreesAre
<1>2. PICK N : N = {k \in Gates(c) : w[k] >= 1}
  OBVIOUS
<1>3. ASSUME NEW k \in Gates(c), Reads(c, k) \subseteq N PROVE w[k] >= 1
  <2>1. PICK a, b, type : /\ a = w[c.gates[k].input_ids[1]] /\ b = w[c.gates[k].input_ids[2]]
                          /\ type = c.gates[k].type
    OBVIOUS
  <2>2. \A j \in Reads(c, k) : w[j] \in Nat /\ w[j] >= 1
    BY <1>1, <1>2, <1>3
  <2>3. /\ k < c.n_inputs => w[k] = 1
        /\ type = "MUL" => w[k] = a + b
        /\ type = "ADD" => w[k] = IF a >= b THEN a ELSE b
        /\ type = "CONSTMUL" => w[k] = a
    BY <1>1, <2>1, <2>2, DegreeStepIs
  <2>4. /\ k < c.n_inputs \/ type \in {"ADD", "MUL", "CONSTMUL"}
        /\ k >= c.n_inputs => a \in Nat /\ a >= 1
        /\ k >= c.n_inputs /\ type \in {"ADD", "MUL"} => b \in Nat /\ b >= 1
        /\ k < c.n_inputs \/ k >= c.n_inputs
    BY <2>1, <2>2, CircuitIs
  <2> QED
    BY <2>3, <2>4
<1>4. WellFormed(c) /\ Acyclic(c) /\ OutputGate(c) \in Gates(c)
  BY CircuitIs
<1>5. \A k \in Gates(c) : Reads(c, k) \subseteq N => k \in N
  BY <1>2, <1>3
<1>6. Gates(c) \subseteq N
  BY ONLY <1>4, <1>5, AlongCircuit
<1> QED
  BY <1>1, <1>2, <1>4, <1>6

\* The tags of the inputs of a circuit, one degree each.
InputTags(c, ts) == \A k \in 0 .. (c.n_inputs - 1) : IsTag(ts[k], 1)

\* An evaluated tag has a degree, at most that of the polynomial its gate computes, and
\* with the naive product just that.
LEMMA EvaluatedDegrees ==
  ASSUME NEW c \in Circuits, NEW fft \in BOOLEAN, NEW ts, InputTags(c, ts),
         NEW v, v = TagsOf(c, fft, ts), v[OutputGate(c)] # ABORT
  PROVE  \E n \in 0 .. DegreeOf(c) :
           IsTag(v[OutputGate(c)], n) /\ (~ fft => n = DegreeOf(c))
<1>1. \A k \in 0 .. (c.n_inputs - 1) : IsTag(ts[k], 1) /\ ts[k] \in AnyTags
  BY AnyTagIs DEF InputTags
<1>2. v \in [Gates(c) -> AnyTags] /\ \A k \in Gates(c) : v[k] = TagStep(c, fft, ts, v, k)
  BY <1>1, TagsAre
<1>3. PICK w \in [Gates(c) -> Nat] : /\ w[OutputGate(c)] = DegreeOf(c)
                                     /\ \A k \in Gates(c) : w[k] = DegreeStep(c, w, k)
  BY DegreesAre
<1>4. PICK N : N = {k \in Gates(c) :
                      v[k] # ABORT => \E n \in 0 .. w[k] : IsTag(v[k], n) /\ (~ fft => n = w[k])}
  OBVIOUS
<1>5. ASSUME NEW k \in Gates(c), Reads(c, k) \subseteq N, v[k] # ABORT
      PROVE  \E n \in 0 .. w[k] : IsTag(v[k], n) /\ (~ fft => n = w[k])
  <2>1. /\ \A j \in Reads(c, k) : v[j] \in AnyTags /\ w[j] \in Nat
        /\ k < c.n_inputs \/ k >= c.n_inputs
    <3>1. Reads(c, k) \subseteq Gates(c) /\ (k < c.n_inputs \/ k >= c.n_inputs)
      BY CircuitIs
    <3> QED
      BY <1>2, <1>3, <3>1
  <2>2. CASE k < c.n_inputs
    <3>1. k \in 0 .. (c.n_inputs - 1)
      BY <2>2, CircuitIs
    <3>2. v[k] = ts[k]
      BY <1>2, <2>2, Zenon DEF TagStep
    <3>3. w[k] = 1
      BY <1>3, <2>1, <2>2, DegreeStepIs
    <3> QED
      BY <1>1, <3>1, <3>2, <3>3
  <2>3. CASE k >= c.n_inputs
    <3>1. PICK t : t = TagStep(c, fft, ts, v, k) /\ t = v[k] /\ t # ABORT
      BY <1>2, <1>5
    <3>2. PICK n, i, m, j : GateResult(c, fft, k, v, t, n, i, m, j)
      BY ONLY <2>1, <2>3, <3>1, fft \in BOOLEAN, c \in Circuits, k \in Gates(c), TagStepIs
    <3>3. PICK type : type = c.gates[k].type
      OBVIOUS
    <3>4. /\ i \in Reads(c, k) /\ j \in Reads(c, k) /\ i = c.gates[k].input_ids[1]
          /\ type \in {"ADD", "MUL"} => j = c.gates[k].input_ids[2]
          /\ v[i] # ABORT /\ v[j] # ABORT /\ IsTag(v[i], n) /\ IsTag(v[j], m)
          /\ type = "ADD" => IsTag(t, IF n >= m THEN n ELSE m)
          /\ type = "MUL" => \E l \in 0 .. (n + m) : IsTag(t, l) /\ (~ fft => l = n + m)
          /\ type = "CONSTMUL" => IsTag(t, n)
      BY ONLY <3>2, <3>3, Zenon DEF GateResult
    <3>5. /\ n \in 0 .. w[i] /\ (~ fft => n = w[i]) /\ n \in Nat
          /\ m \in 0 .. w[j] /\ (~ fft => m = w[j]) /\ m \in Nat
      <4>1. /\ \E e \in 0 .. w[i] : IsTag(v[i], e) /\ (~ fft => e = w[i])
            /\ \E e \in 0 .. w[j] : IsTag(v[j], e) /\ (~ fft => e = w[j])
        BY <1>4, <1>5, <3>4
      <4>2. /\ \A e : IsTag(v[i], e) => e = n
            /\ \A e : IsTag(v[j], e) => e = m
        BY <3>4, DegreeIs
      <4>3. n \in Nat /\ m \in Nat
        BY <3>4 DEF IsTag
      <4> QED
        BY <4>1, <4>2, <4>3
    <3>6. w[i] \in Nat /\ w[j] \in Nat
      BY <2>1, <3>4
    <3>7. /\ type = "ADD" => w[k] = IF w[i] >= w[j] THEN w[i] ELSE w[j]
          /\ type = "MUL" => w[k] = w[i] + w[j]
          /\ type = "CONSTMUL" => w[k] = w[i]
      BY <1>3, <2>1, <3>3, <3>4, DegreeStepIs
    <3>8. CASE type = "ADD"
      <4>1. PICK l : l = IF n >= m THEN n ELSE m
        OBVIOUS
      <4>2. l \in 0 .. w[k] /\ (~ fft => l = w[k])
        BY <3>5, <3>6, <3>7, <3>8, <4>1
      <4> QED
        BY <3>1, <3>4, <3>8, <4>1, <4>2
    <3>9. CASE type = "MUL"
      <4>1. PICK l \in 0 .. (n + m) : IsTag(t, l) /\ (~ fft => l = n + m)
        BY <3>4, <3>9
      <4>2. l \in 0 .. w[k] /\ (~ fft => l = w[k])
        BY <3>5, <3>6, <3>7, <3>9, <4>1
      <4> QED
        BY <3>1, <4>1, <4>2
    <3>10. CASE type = "CONSTMUL"
      BY <3>1, <3>4, <3>5, <3>7, <3>10
    <3>11. type \in {"ADD", "MUL", "CONSTMUL"}
      BY <2>3, <3>3, CircuitIs
    <3> QED
      BY <3>8, <3>9, <3>10, <3>11
  <2> QED
    BY <2>1, <2>2, <2>3
<1>6. \A k \in Gates(c) : Reads(c, k) \subseteq N => k \in N
  BY <1>4, <1>5
<1>7. WellFormed(c) /\ Acyclic(c) /\ OutputGate(c) \in Gates(c)
  BY CircuitIs
<1>8. Gates(c) \subseteq N
  BY ONLY <1>6, <1>7, AlongCircuit
<1> QED
  BY <1>3, <1>4, <1>7, <1>8

\* Wherever the tags of the inputs have the values inputs, the tag of a gate has the value
\* that evaluation on numbers gives the gate.
LEMMA EvaluatedValues ==
  ASSUME NEW c \in Circuits, NEW fft \in BOOLEAN, NEW ts, InputTags(c, ts),
         NEW v, v = TagsOf(c, fft, ts), NEW z \in Int,
         NEW inputs, \A k \in 0 .. (c.n_inputs - 1) : inputs[k] \in Int,
         \A k \in 0 .. (c.n_inputs - 1) : Cong(rho(ts[k], z), inputs[k], P),
         NEW q \in Gates(c), v[q] # ABORT
  PROVE  (\E n : IsTag(v[q], n)) /\ Cong(rho(v[q], z), Numbers(c, inputs)[q], P)
<1>1. \A k \in 0 .. (c.n_inputs - 1) : IsTag(ts[k], 1) /\ ts[k] \in AnyTags
  BY AnyTagIs DEF InputTags
<1>2. v \in [Gates(c) -> AnyTags] /\ \A k \in Gates(c) : v[k] = TagStep(c, fft, ts, v, k)
  BY <1>1, TagsAre
<1>3. PICK w \in [Gates(c) -> Int] : /\ w = Numbers(c, inputs)
                                     /\ \A k \in Gates(c) : w[k] = NumberStep(c, inputs, w, k)
  BY NumbersAre
<1>4. PICK N : N = {k \in Gates(c) : v[k] # ABORT => Cong(rho(v[k], z), w[k], P)}
  OBVIOUS
<1>5. ASSUME NEW k \in Gates(c), Reads(c, k) \subseteq N, v[k] # ABORT
      PROVE  Cong(rho(v[k], z), w[k], P)
  <2>1. /\ \A j \in Reads(c, k) : v[j] \in AnyTags /\ w[j] \in Int
        /\ k < c.n_inputs \/ k >= c.n_inputs
    <3>1. Reads(c, k) \subseteq Gates(c) /\ (k < c.n_inputs \/ k >= c.n_inputs)
      BY CircuitIs
    <3> QED
      BY <1>2, <1>3, <3>1
  <2>2. CASE k < c.n_inputs
    <3>1. k \in 0 .. (c.n_inputs - 1)
      BY <2>2, CircuitIs
    <3>2. v[k] = ts[k]
      BY <1>2, <2>2, Zenon DEF TagStep
    <3>3. w[k] = inputs[k]
      BY <1>3, <2>2, Zenon DEF NumberStep
    <3> QED
      BY <3>1, <3>2, <3>3
  <2>3. CASE k >= c.n_inputs
    <3>1. PICK t : t = TagStep(c, fft, ts, v, k) /\ t = v[k] /\ t # ABORT
      BY <1>2, <1>5
    <3>2. PICK n, i, m, j : GateResult(c, fft, k, v, t, n, i, m, j)
      BY ONLY <2>1, <2>3, <3>1, fft \in BOOLEAN, c \in Circuits, k \in Gates(c), TagStepIs
    <3>3. PICK type, e, a, b, y, s, u :
            /\ type = c.gates[k].type /\ e = c.gates[k].const_val
            /\ a = rho(v[i], z) /\ b = rho(v[j], z) /\ y = w[i] /\ s = w[j] /\ u = rho(t, z)
      OBVIOUS
    <3>4. /\ i \in Reads(c, k) /\ j \in Reads(c, k) /\ i = c.gates[k].input_ids[1]
          /\ type \in {"ADD", "MUL"} => j = c.gates[k].input_ids[2]
          /\ v[i] # ABORT /\ v[j] # ABORT /\ IsTag(v[i], n) /\ IsTag(v[j], m)
          /\ type = "ADD" => Cong(u, a + b, P)
          /\ type = "MUL" => Cong(u, a * b, P)
          /\ type = "CONSTMUL" => e \in Int /\ Cong(u, a * e, P)
      <4> HIDE DEF rho
      <4> QED
        BY ONLY <3>2, <3>3, z \in Int, Zenon DEF GateResult
    <3>5. y \in Int /\ s \in Int /\ Cong(a, y, P) /\ Cong(b, s, P)
      BY <1>4, <1>5, <2>1, <3>3, <3>4
    <3>6. a \in Int /\ b \in Int
      <4>1. n \in Nat /\ n + 1 \in Nat /\ n + 1 > n /\ m \in Nat /\ m + 1 \in Nat /\ m + 1 > m
        BY <3>4 DEF IsTag
      <4>2. a \in 0 .. (P - 1) /\ b \in 0 .. (P - 1)
        BY <3>3, <3>4, <4>1, RhoPoly
      <4> QED
        BY <4>2
    <3>7. w[k] = CASE type = "ADD" -> (y + w[c.gates[k].input_ids[2]]) % P
                   [] type = "MUL" -> (y * w[c.gates[k].input_ids[2]]) % P
                   [] OTHER -> (y * e) % P
      <4>1. ~ (k < c.n_inputs)
        BY <2>3, CircuitIs
      <4> QED
        BY <1>3, <3>3, <3>4, <4>1, Zenon DEF NumberStep
    <3>8. CASE type = "ADD"
      <4>1. PICK f : f = y + s
        OBVIOUS
      <4>0. w[k] = (y + s) % P
        BY <3>3, <3>4, <3>7, <3>8, Zenon
      <4>2. w[k] = f % P /\ f \in Int
        BY <3>4, <3>5, <3>8, <4>0, <4>1
      <4>3. Cong(w[k], f, P)
        BY <4>2, Modulus, CongruentRemainder
      <4>4. Cong(a + b, f, P)
        BY <3>5, <3>6, <4>1, Modulus, CongruentSum
      <4> QED
        BY <3>1, <3>3, <3>4, <3>8, <4>3, <4>4, CongruentBack, CongruentOn
    <3>9. CASE type = "MUL"
      <4>1. PICK f : f = y * s
        OBVIOUS
      <4>0. w[k] = (y * s) % P
        BY <3>3, <3>4, <3>7, <3>9, Zenon
      <4>2. w[k] = f % P /\ f \in Int
        BY <3>5, <4>0, <4>1
      <4>3. Cong(w[k], f, P)
        BY <4>2, Modulus, CongruentRemainder
      <4>4. Cong(a * b, f, P)
        BY <3>5, <3>6, <4>1, Modulus, CongruentProduct
      <4> QED
        BY <3>1, <3>3, <3>4, <3>9, <4>3, <4>4, CongruentBack, CongruentOn
    <3>10. CASE type = "CONSTMUL"
      <4>1. PICK f : f = y * e
        OBVIOUS
      <4>0. w[k] = (y * e) % P
        BY <3>3, <3>4, <3>7, <3>10
      <4>2. w[k] = f % P /\ f \in Int
        BY <3>4, <3>5, <3>10, <4>0, <4>1
      <4>3. Cong(w[k], f, P)
        BY <4>2, Modulus, CongruentRemainder
      <4>4. Cong(a * e, f, P)
        BY <3>4, <3>5, <3>6, <3>10, <4>1, Modulus, CongruentSame, CongruentProduct
      <4> QED
        BY <3>1, <3>3, <3>4, <3>10, <4>3, <4>4, CongruentBack, CongruentOn
    <3>11. type \in {"ADD", "MUL", "CONSTMUL"}
      BY <2>3, <3>3, CircuitIs
    <3> QED
      BY <3>8, <3>9, <3>10, <3>11
  <2> QED
    BY <2>1, <2>2, <2>3
<1>6. \A k \in Gates(c) : Reads(c, k) \subseteq N => k \in N
  BY <1>4, <1>5
<1>7. WellFormed(c) /\ Acyclic(c)
  BY CircuitIs
<1>8. Gates(c) \subseteq N
  BY ONLY <1>6, <1>7, AlongCircuit
<1>9. v[q] \in AnyTags
  BY <1>2
<1> QED
  BY <1>3, <1>4, <1>8, <1>9, AnyTagIs

\* The output gate is no input: its number is reduced, and so is the first coefficient of
\* its tag.
LEMMA OutputReduced ==
  ASSUME NEW c \in Circuits, NEW q, q = OutputGate(c)
  PROVE  /\ \A inputs : (\A k \in 0 .. (c.n_inputs - 1) : inputs[k] \in Int) =>
                          Numbers(c, inputs)[q] \in 0 .. (P - 1)
         /\ \A ts, fft, v : InputTags(c, ts) /\ fft \in BOOLEAN /\ v = TagsOf(c, fft, ts)
                            /\ v[q] # ABORT => v[q][0] \in 0 .. (P - 1)
<1>1. q \in Gates(c) /\ q >= c.n_inputs /\ ~ (q < c.n_inputs)
  <2>1. q \in Gates(c) /\ WellFormed(c)
    BY CircuitIs
  <2>2. c.n_gates \in Nat /\ c.n_inputs \in 1 .. (c.n_gates - 1)
    BY <2>1 DEF WellFormed
  <2> QED
    BY <2>1, <2>2 DEF OutputGate
<1>2. PICK type, i, j, e : /\ type = c.gates[q].type /\ i = c.gates[q].input_ids[1]
                           /\ j = c.gates[q].input_ids[2] /\ e = c.gates[q].const_val
  OBVIOUS
<1>3. /\ type \in {"ADD", "MUL", "CONSTMUL"} /\ i \in Gates(c)
      /\ type \in {"ADD", "MUL"} => j \in Gates(c)
      /\ type = "CONSTMUL" => e \in Int
  BY <1>1, <1>2, CircuitIs
<1>4. ASSUME NEW inputs, \A k \in 0 .. (c.n_inputs - 1) : inputs[k] \in Int
      PROVE  Numbers(c, inputs)[q] \in 0 .. (P - 1)
  <2>1. PICK w \in [Gates(c) -> Int] : /\ w = Numbers(c, inputs)
                                       /\ \A k \in Gates(c) : w[k] = NumberStep(c, inputs, w, k)
    BY <1>4, NumbersAre
  <2>2. w[q] = CASE type = "ADD" -> (w[i] + w[j]) % P
                 [] type = "MUL" -> (w[i] * w[j]) % P
                 [] OTHER -> (w[i] * e) % P
    BY <1>1, <1>2, <2>1, Zenon DEF NumberStep
  <2>3. PICK f : f = CASE type = "ADD" -> w[i] + w[j]
                       [] type = "MUL" -> w[i] * w[j]
                       [] OTHER -> w[i] * e
    OBVIOUS
  <2>4. f \in Int /\ w[q] = f % P
    <3>1. CASE type = "ADD"
      BY <1>3, <2>2, <2>3, <3>1
    <3>2. CASE type = "MUL"
      BY <1>3, <2>2, <2>3, <3>2
    <3>3. CASE type = "CONSTMUL"
      BY <1>3, <2>2, <2>3, <3>3
    <3> QED
      BY <1>3, <3>1, <3>2, <3>3
  <2>5. f % P \in 0 .. (P - 1)
    BY <2>4, Modulus, Remainder
  <2> QED
    BY <2>1, <2>4, <2>5
<1>5. ASSUME NEW ts, NEW fft \in BOOLEAN, NEW v, InputTags(c, ts), v = TagsOf(c, fft, ts),
             v[q] # ABORT
      PROVE  v[q][0] \in 0 .. (P - 1)
  <2>1. \A k \in 0 .. (c.n_inputs - 1) : ts[k] \in AnyTags
    BY <1>5, AnyTagIs DEF InputTags
  <2>2. v \in [Gates(c) -> AnyTags] /\ \A k \in Gates(c) : v[k] = TagStep(c, fft, ts, v, k)
    BY <1>5, <2>1, TagsAre
  <2>3. \A k \in Reads(c, q) : v[k] \in AnyTags
    BY <1>1, <2>2, CircuitIs
  <2>4. PICK t : t = TagStep(c, fft, ts, v, q) /\ t = v[q] /\ t # ABORT
    BY <1>1, <1>5, <2>2
  <2>5. PICK n, l, m, k : GateResult(c, fft, q, v, t, n, l, m, k)
    BY ONLY <1>1, <2>3, <2>4, fft \in BOOLEAN, c \in Circuits, TagStepIs
  <2>6. /\ type = "ADD" => t[0] \in 0 .. (P - 1)
        /\ type = "MUL" => \E z \in 0 .. (n + m) : t[0] \in 0 .. (P - 1)
        /\ type = "CONSTMUL" => t[0] \in 0 .. (P - 1)
    BY ONLY <1>2, <2>5, Zenon DEF GateResult
  <2> QED
    BY <1>3, <2>4, <2>6
<1> QED
  BY <1>4, <1>5

-----------------------------------------------------------------------------
(***************************************************************************)
(* Authentication                                                          *)
(***************************************************************************)
\* A tag is the message at 0 and the mask of the label at the key.
LEMMA TagOfIs ==
  ASSUME NEW m \in Nat, NEW r_tau \in Int, x \in 1 .. (P - 1), NEW t, t = TagOf(m, r_tau)
  PROVE  IsTag(t, 1) /\ t[0] = m /\ Cong(rho(t, x), r_tau, P)
<1>1. PICK z, b, e, f : /\ z = x /\ b = InverseModP(z) /\ e = (r_tau - m) % P
                        /\ f = b * e
  OBVIOUS
<1>2. Prime(P) /\ z \in Int /\ z % P # 0 /\ z \in 1 .. (P - 1)
  <2>1. Prime(P)
    BY PrimeAssumption DEF Prime
  <2>2. z \in 1 .. (P - 1) /\ z \in Int
    BY <1>1
  <2>3. z \in 0 .. (P - 1) /\ 0 \in Int
    BY <2>2
  <2>4. (P * 0 + z) % P = z
    BY ONLY <2>3, Modulus, RemainderUnique
  <2>5. P * 0 + z = z
    BY <2>2, Modulus
  <2> QED
    BY <2>1, <2>2, <2>4, <2>5
<1>3. b \in 1 .. (P - 1) /\ (z * b) % P = 1
  <2>1. \E k \in 1 .. (P - 1) : (z * k) % P = 1
    BY <1>2, InverseExists
  <2> QED
    BY <1>1, <2>1 DEF InverseModP
<1>4. e \in Int /\ f \in Int /\ Cong(e, r_tau - m, P)
  <2>1. PICK k : k = r_tau - m
    OBVIOUS
  <2>2. k \in Int /\ e = k % P
    BY <1>1, <2>1
  <2>3. e \in 0 .. (P - 1) /\ Cong(e, k, P)
    BY <2>2, Modulus, Remainder, CongruentRemainder
  <2> QED
    BY <1>1, <1>3, <2>1, <2>3
<1>5. f % P \in 0 .. (P - 1) /\ Cong(f % P, f, P)
  BY <1>4, Modulus, Remainder, CongruentRemainder
<1>6. t = [k \in 0 .. 1 |-> IF k = 0 THEN m ELSE f % P]
  BY <1>1 DEF TagOf
<1>7. IsTag(t, 1) /\ t[0] = m /\ t[1] = f % P
  BY <1>5, <1>6 DEF IsTag
<1>8. PICK C, T, s, l : C = Coef(t) /\ T = Terms(C, z) /\ s = f % P /\ l = 1
  OBVIOUS
<1>9. C \in IntSequences /\ C[0] = m /\ C[1] = s /\ s \in Int
  <2>1. C \in IntSequences /\ \A k \in 0 .. 1 : C[k] = t[k]
    BY <1>7, <1>8, CoefIs
  <2> QED
    BY <1>5, <1>7, <1>8, <2>1
<1>10. Cong(rho(t, z), PolyAt(C, z, 2), P)
  BY <1>2, <1>7, <1>8, RhoPoly, 2 \in Nat, 2 > 1
<1>11. PolyAt(C, z, 2) = m + PowMod(z, 1, P) * s
  <2>1. T \in IntSequences
    BY <1>2, <1>8, <1>9, TermsAre
  <2>2. Sum(T, 0) = 0 /\ Sum(T, 0 + 1) = Sum(T, 0) + T[0] /\ Sum(T, 1 + 1) = Sum(T, 1) + T[1]
    BY <2>1, SumSteps
  <2>3. T[0] = PowMod(z, 0, P) * C[0] /\ T[1] = PowMod(z, 1, P) * C[1]
    BY <1>8 DEF Terms
  <2>4. PowMod(z, 0, P) = 1
    <3>1. PowMod(z, 0, P) = 1 % P
      BY <1>2, Modulus, PowSteps
    <3> QED
      BY <3>1, Modulus
  <2>5. T[0] = m /\ T[1] \in Int
    BY <1>9, <2>1, <2>3, <2>4 DEF IntSequences
  <2> QED
    BY <1>8, <1>9, <2>2, <2>3, <2>5 DEF PolyAt
<1>12. PICK p : p = PowMod(z, 1, P)
  OBVIOUS
<1>13. p \in Int /\ Cong(p, z, P)
  <2>1. PICK o : o = PowMod(z, 0, P)
    OBVIOUS
  <2>2. o \in Int /\ p \in Int /\ Cong(o, 1, P) /\ Cong(p, o * z, P)
    <3>1. PowMod(z, 0, P) \in Nat /\ Cong(PowMod(z, 0 + 1, P), PowMod(z, 0, P) * z, P)
      BY <1>2, Modulus, PowCongruent
    <3>2. PowMod(z, 1, P) \in Nat /\ Cong(PowMod(z, 0, P), 1, P)
      BY <1>2, Modulus, PowCongruent
    <3> QED
      BY <1>12, <2>1, <3>1, <3>2
  <2>3. Cong(o * z, 1 * z, P)
    BY <1>2, <2>2, 1 \in Int, Modulus, CongruentSame, CongruentProduct
  <2>4. 1 * z = z
    BY <1>2
  <2> QED
    BY <2>2, <2>3, <2>4, CongruentOn
<1>14. Cong(p * s, z * f, P)
  BY <1>2, <1>4, <1>5, <1>8, <1>9, <1>13, Modulus, CongruentProduct
<1>15. Cong(z * f, r_tau - m, P)
  <2>1. PICK u, k : u = z * b /\ k = r_tau - m
    OBVIOUS
  <2>2. u \in Int /\ k \in Int /\ Cong(u, 1, P) /\ Cong(e, k, P)
    <3>1. 1 % P = 1
      BY Modulus
    <3> QED
      BY <1>2, <1>3, <1>4, <2>1, <3>1 DEF Cong
  <2>3. Cong(u * e, 1 * k, P)
    BY <1>4, <2>2, 1 \in Int, Modulus, CongruentProduct
  <2>4. u * e = z * f /\ 1 * k = k
    BY <1>1, <1>2, <1>3, <1>4, <2>1, <2>2
  <2> QED
    BY <2>1, <2>3, <2>4
<1>16. PICK u, k, w : u = p * s /\ k = r_tau - m /\ w = z * f
  OBVIOUS
<1>17. u \in Int /\ k \in Int /\ Cong(u, k, P)
  <2>1. u \in Int /\ k \in Int
    BY <1>9, <1>13, <1>16
  <2>2. Cong(u, w, P) /\ Cong(w, k, P)
    BY <1>14, <1>15, <1>16
  <2> QED
    BY <2>1, <2>2, CongruentOn
<1>18. Cong(m + u, m + k, P)
  <2>1. m \in Int /\ Cong(m, m, P)
    BY CongruentSame
  <2> QED
    BY <1>17, <2>1, Modulus, CongruentSum
<1>19. m + k = r_tau
  BY <1>16
<1>20. Cong(rho(t, z), r_tau, P)
  BY <1>10, <1>11, <1>12, <1>16, <1>18, <1>19, CongruentOn
<1> QED
  BY <1>1, <1>7, <1>20

-----------------------------------------------------------------------------
(***************************************************************************)
(* The session                                                             *)
(***************************************************************************)
\* The labels that are authenticated, with their tags ts, masks rs and messages ms, k being
\* the key.
Authenticated(c, ts, rs, ms, k) ==
  \E n \in 0 .. c.n_inputs :
    /\ DOMAIN ts = 0 .. (n - 1) /\ DOMAIN rs = 0 .. (n - 1) /\ DOMAIN ms = 0 .. (n - 1)
    /\ \A i \in 0 .. (n - 1) :
         /\ ms[i] \in 0 .. P /\ rs[i] \in 0 .. (P - 1)
         /\ IsTag(ts[i], 1) /\ ts[i][0] = ms[i] /\ Cong(rho(ts[i], k), rs[i], P)

\* The generator is a square and not 1, the powers those of the key; CF_1 has neither.
KeyIs(k, base, powers, bound) ==
  \/ powers = <<>> /\ base = 0
  \/ /\ bound > 0
     /\ \E t \in 3 .. (Q - 1) : base = PowMod(t, 2, Q)
     /\ base # 1
     /\ powers = [i \in 1 .. bound |-> Power(base, k, i)]

\* _cf_compress_tag, for any powers.
CompressOf(powers, t) ==
  LET product[k \in 0 .. Degree(t)] ==
        IF k = 0 THEN 1 ELSE (product[k - 1] * PowMod(powers[k], t[k], Q)) % Q
  IN  product[Degree(t)]

\* _cf_compress_tag uses the powers of the evaluation key.
LEMMA CompressIs ==
  ASSUME NEW t
  PROVE  Compress(t) = CompressOf(h, t)
BY Zenon DEF Compress, CompressOf

\* What an evaluation leaves.
ResultIs(c, fft, ts, powers, bound, res, short) ==
  LET out == TagsOf(c, fft, ts)[OutputGate(c)]
  IN  /\ out # ABORT
      /\ short => powers # <<>> /\ Degree(out) <= bound
      /\ res = IF short THEN [k \in {0} |-> CompressOf(powers, out)] ELSE out

\* What a verification says of m.
VerdictOf(c, rs, base, k, res, m) ==
  LET mask == Numbers(c, rs)[OutputGate(c)]
  IN  IF m > P THEN "E_INVAL_MSG"
      ELSE IF Degree(res) = 0
      THEN IF PowMod(base, mask, Q) = (PowMod(base, m, Q) * res[0]) % Q
           THEN "E_VRFY" ELSE "E_NO_VRFY"
      ELSE IF res[0] = m /\ rho(res, k) = mask THEN "E_VRFY" ELSE "E_NOERR"

\* Both verifications, and the refusal of a message that is too large, are that verdict.
LEMMA VerdictIs ==
  ASSUME NEW m \in Claims
  PROVE  /\ m > P => VerdictOf(circ, r, g, x, result, m) = "E_INVAL_MSG"
         /\ m <= P => VerdictOf(circ, r, g, x, result, m) =
                        IF TakenForCF2 THEN Verify2(m) ELSE Verify1(m)
<1>1. m \in 0 .. (P + 1) /\ P \in Int
  BY SchemeAssumption, Modulus
<1>2. m <= P => ~ (m > P)
  BY <1>1
<1>3. rho_eval = Numbers(circ, r)[OutputGate(circ)]
  BY MessageValuesAre, Zenon DEF rho_eval
<1>4. m > P => VerdictOf(circ, r, g, x, result, m) = "E_INVAL_MSG"
  BY Zenon DEF VerdictOf
<1>5. m <= P => VerdictOf(circ, r, g, x, result, m) =
                  IF TakenForCF2 THEN Verify2(m) ELSE Verify1(m)
  <2> HIDE DEF rho_eval
  <2> QED
    BY <1>2, <1>3, Zenon DEF VerdictOf, TakenForCF2, Verify1, Verify2
<1> QED
  BY <1>4, <1>5

(***************************************************************************)
(* What holds throughout a session: what is authenticated fits the keys,   *)
(* the result is that of the program on the tags, the verdict that on the  *)
(* result, and the degree bound is about the degree of the program.        *)
(***************************************************************************)
AllAuthenticated == Cardinality(DOMAIN tags) \notin 0 .. (circ.n_inputs - 1)

\* A session dies before it has a result, or of an output of degree 0 and a key without g.
Died ==
  \/ result = ABORT
  \/ /\ AllAuthenticated /\ ResultIs(circ, use_fft, tags, h, d, result, compact)
     /\ Degree(result) = 0 /\ g = 0

\* The inductive invariant of a session.
SessionInv ==
  /\ circ \in Circuits /\ d \in Nat /\ use_fft \in BOOLEAN /\ x \in 0 .. (P - 1)
  /\ pc = "keygen" => tags = <<>> /\ r = <<>> /\ messages = <<>> /\ h = <<>> /\ g = 0
  /\ Authenticated(circ, tags, r, messages, x)
  /\ KeyIs(x, g, h, d)
  /\ pc \in {"vrfy", "verified"} =>
       AllAuthenticated /\ ResultIs(circ, use_fft, tags, h, d, result, compact)
  /\ pc \in {"keygen", "auth"} => result = ABORT
  /\ pc = "aborted" => Died
  /\ pc = "verified" => claim \in Claims /\ verdict = VerdictOf(circ, r, g, x, result, claim)
  /\ err = "E_INVAL_DEGREE" => d = 0 \/ DegreeOf(circ) > d
  /\ compact /\ ~ use_fft => DegreeOf(circ) <= d
  /\ compact \in BOOLEAN

\* A session begins with nothing but a program and a degree bound.
LEMMA SessionBegins == Init => SessionInv
<1> SUFFICES ASSUME Init PROVE SessionInv
  OBVIOUS
<1>1. /\ pc = "keygen" /\ circ \in Circuits /\ d \in Degrees /\ use_fft \in BOOLEAN
      /\ x = 0 /\ g = 0 /\ h = <<>> /\ r = <<>> /\ messages = <<>> /\ tags = <<>>
      /\ err = "E_NOERR" /\ compact = FALSE /\ result = ABORT
  BY DEF Init
<1>2. d \in Nat /\ x \in 0 .. (P - 1)
  BY <1>1, SchemeAssumption, Modulus
<1>3. Authenticated(circ, tags, r, messages, x)
  <2>1. 0 \in 0 .. circ.n_inputs
    BY <1>1, CircuitIs
  <2>2. DOMAIN tags = 0 .. (0 - 1) /\ DOMAIN r = 0 .. (0 - 1) /\ DOMAIN messages = 0 .. (0 - 1)
    BY <1>1
  <2>3. \A i \in 0 .. (0 - 1) : FALSE
    OBVIOUS
  <2> QED
    BY <2>1, <2>2, <2>3 DEF Authenticated
<1>4. KeyIs(x, g, h, d)
  BY <1>1 DEF KeyIs
<1> QED
  BY <1>1, <1>2, <1>3, <1>4 DEF SessionInv

\* Steps that change neither the keys nor what is authenticated.
LEMMA SessionGoesOn ==
  ASSUME SessionInv, UNCHANGED <<session, x, g, h, r, messages, tags>>
  PROVE  /\ circ' \in Circuits /\ d' \in Nat /\ use_fft' \in BOOLEAN /\ x' \in 0 .. (P - 1)
         /\ Authenticated(circ, tags, r, messages, x)'
         /\ KeyIs(x, g, h, d)'
<1>1. /\ circ' = circ /\ d' = d /\ use_fft' = use_fft /\ x' = x /\ g' = g /\ h' = h
      /\ r' = r /\ messages' = messages /\ tags' = tags
  BY DEF session
<1> QED
  BY <1>1 DEF SessionInv

\* A session that fails or dies.
LEMMA SessionEnds ==
  ASSUME SessionInv, UNCHANGED <<session, x, g, h, r, messages, tags, result, compact>>,
         pc' \in {"failed", "aborted"}, pc' = "aborted" => Died,
         err' = "E_INVAL_DEGREE" => err = "E_INVAL_DEGREE" \/ d = 0 \/ DegreeOf(circ) > d
  PROVE  SessionInv'
<1>1. /\ circ' \in Circuits /\ d' \in Nat /\ use_fft' \in BOOLEAN /\ x' \in 0 .. (P - 1)
      /\ Authenticated(circ, tags, r, messages, x)'
      /\ KeyIs(x, g, h, d)'
  BY SessionGoesOn
<1>2. circ' = circ /\ d' = d /\ use_fft' = use_fft /\ compact' = compact
  BY DEF session
<1>3. /\ pc' # "keygen" /\ pc' # "verified" /\ pc' \notin {"vrfy", "verified"}
      /\ pc' \notin {"keygen", "auth"}
  OBVIOUS
<1>6. pc' = "aborted" => Died'
  <2>1. /\ result' = result /\ tags' = tags /\ h' = h /\ g' = g /\ circ' = circ /\ d' = d
        /\ use_fft' = use_fft /\ compact' = compact
    BY DEF session
  <2> QED
    BY <2>1 DEF Died, AllAuthenticated
<1>4. err' = "E_INVAL_DEGREE" => d' = 0 \/ DegreeOf(circ') > d'
  BY <1>2 DEF SessionInv
<1>5. compact' \in BOOLEAN /\ (compact' /\ ~ use_fft' => DegreeOf(circ') <= d')
  BY <1>2 DEF SessionInv
<1> QED
  BY <1>1, <1>3, <1>4, <1>5, <1>6 DEF SessionInv

\* A session that dies before it has a result.
LEMMA DiesEarly ==
  ASSUME SessionInv, pc \in {"keygen", "auth"}, Die
  PROVE  SessionInv'
<1>1. /\ UNCHANGED <<session, x, g, h, r, messages, tags, result, compact>>
      /\ pc' \in {"failed", "aborted"} /\ err' = err
  BY DEF Die
<1>2. result = ABORT
  BY DEF SessionInv
<1>3. pc' = "aborted" => Died
  BY <1>2 DEF Died
<1> QED
  BY <1>1, <1>3, SessionEnds

\* Keys.
LEMMA KeyGenKeeps ==
  ASSUME SessionInv, KeyGen
  PROVE  SessionInv'
<1>1. /\ circ' = circ /\ d' = d /\ use_fft' = use_fft /\ compact' = compact /\ err' = err
      /\ r' = r /\ messages' = messages /\ tags' = tags /\ pc = "keygen" /\ pc' = "auth"
      /\ result' = result
      /\ x' \in 0 .. (P - 1)
  BY DEF KeyGen, session
<1>2. tags = <<>> /\ r = <<>> /\ messages = <<>> /\ h = <<>> /\ g = 0 /\ circ \in Circuits
  BY <1>1 DEF SessionInv
<1>3. Authenticated(circ', tags', r', messages', x')
  <2>1. 0 \in 0 .. circ.n_inputs
    BY <1>2, CircuitIs
  <2>2. DOMAIN tags = 0 .. (0 - 1) /\ DOMAIN r = 0 .. (0 - 1) /\ DOMAIN messages = 0 .. (0 - 1)
    BY <1>2
  <2>3. \A i \in 0 .. (0 - 1) : FALSE
    OBVIOUS
  <2> QED
    BY <1>1, <2>1, <2>2, <2>3 DEF Authenticated
<1>4. KeyIs(x', g', h', d')
  <2>1. CASE scheme = "CF_2"
    <3>1. /\ d > 0 /\ \E t \in RandomTs : t > 2 /\ Generator(t) # 1 /\ g' = Generator(t)
          /\ h' = [i \in 1 .. d |-> Power(g', x', i)]
      BY <2>1 DEF KeyGen
    <3>2. PICK t \in RandomTs : t > 2 /\ Generator(t) # 1 /\ g' = Generator(t)
      BY <3>1
    <3>3. t \in 3 .. (Q - 1)
      <4>1. t \in 0 .. (Q - 1)
        BY SchemeAssumption
      <4> QED
        BY <3>2, <4>1
    <3>4. g' = PowMod(t, 2, Q) /\ g' # 1
      BY <3>2 DEF Generator
    <3> QED
      BY <1>1, <3>1, <3>3, <3>4 DEF KeyIs
  <2>2. CASE scheme # "CF_2"
    <3>1. g' = g /\ h' = h
      BY <2>2 DEF KeyGen
    <3> QED
      BY <1>2, <3>1 DEF KeyIs
  <2> QED
    BY <2>1, <2>2
<1>5. /\ pc' # "keygen" /\ pc' # "verified" /\ pc' \notin {"vrfy", "verified"}
      /\ pc' # "aborted" /\ result' = ABORT
  BY <1>1 DEF SessionInv
<1> QED
  BY <1>1, <1>3, <1>4, <1>5 DEF SessionInv

\* One label more.
LEMMA AuthenticateKeeps ==
  ASSUME SessionInv, NEW m \in Messages, Authenticate(m)
  PROVE  SessionInv'
<1>1. /\ circ' = circ /\ d' = d /\ use_fft' = use_fft /\ compact' = compact /\ err' = err
      /\ x' = x /\ g' = g /\ h' = h /\ pc = "auth" /\ pc' = pc /\ m <= P /\ x # 0
      /\ NextInput \in Inputs /\ messages' = Extend(messages, m) /\ result' = result
  BY DEF Authenticate, Authenticating, session
<1>2. PICK r_tau \in 0 .. (P - 1) : r' = Extend(r, r_tau) /\ tags' = Extend(tags, TagOf(m, r_tau))
  BY DEF Authenticate
<1>3. PICK n \in 0 .. circ.n_inputs :
        /\ DOMAIN tags = 0 .. (n - 1) /\ DOMAIN r = 0 .. (n - 1) /\ DOMAIN messages = 0 .. (n - 1)
        /\ \A i \in 0 .. (n - 1) :
             /\ messages[i] \in 0 .. P /\ r[i] \in 0 .. (P - 1)
             /\ IsTag(tags[i], 1) /\ tags[i][0] = messages[i] /\ Cong(rho(tags[i], x), r[i], P)
  BY DEF SessionInv, Authenticated
<1>4. n \in Nat /\ circ.n_inputs \in Nat
  <2>1. circ.n_inputs \in Nat
    BY CircuitIs DEF SessionInv
  <2> QED
    BY <1>3, <2>1
<1>5. NextInput = n
  <2>1. 0 \in Int /\ n - 1 \in Int
    BY <1>4
  <2>2. Cardinality(0 .. (n - 1)) = IF 0 > n - 1 THEN 0 ELSE (n - 1) - 0 + 1
    BY ONLY <2>1, FS_Interval
  <2>3. Cardinality(0 .. (n - 1)) = n
    BY ONLY <2>2, <1>4
  <2>4. NextInput = Cardinality(0 .. (n - 1))
    BY <1>3, Zenon DEF NextInput
  <2> QED
    BY ONLY <2>3, <2>4
<1>6. n + 1 \in 0 .. circ.n_inputs
  <2>1. n \in 0 .. (circ.n_inputs - 1)
    BY <1>1, <1>5 DEF Inputs
  <2> QED
    BY <1>4, <2>1
<1>7. PICK t : t = TagOf(m, r_tau)
  OBVIOUS
<1>8. m \in 0 .. P /\ m \in Nat /\ r_tau \in Int /\ x \in 1 .. (P - 1)
  <2>1. m \in 0 .. (P + 1)
    BY SchemeAssumption
  <2>2. x \in 0 .. (P - 1)
    BY DEF SessionInv
  <2> QED
    BY <1>1, <2>1, <2>2, Modulus
<1>9. IsTag(t, 1) /\ t[0] = m /\ Cong(rho(t, x), r_tau, P)
  BY <1>7, <1>8, TagOfIs
<1>10. 0 .. ((n + 1) - 1) = 0 .. (n - 1) \cup {n} /\ n \notin 0 .. (n - 1)
  BY <1>4
<1>11. /\ tags' = [k \in 0 .. ((n + 1) - 1) |-> IF k = n THEN t ELSE tags[k]]
       /\ r' = [k \in 0 .. ((n + 1) - 1) |-> IF k = n THEN r_tau ELSE r[k]]
       /\ messages' = [k \in 0 .. ((n + 1) - 1) |-> IF k = n THEN m ELSE messages[k]]
  BY <1>1, <1>2, <1>3, <1>5, <1>7, <1>10 DEF Extend
<1>12. ASSUME NEW i \in 0 .. ((n + 1) - 1)
       PROVE  /\ messages'[i] \in 0 .. P /\ r'[i] \in 0 .. (P - 1)
              /\ IsTag(tags'[i], 1) /\ tags'[i][0] = messages'[i]
              /\ Cong(rho(tags'[i], x), r'[i], P)
  <2>1. CASE i = n
    <3>1. messages'[i] = m /\ r'[i] = r_tau /\ tags'[i] = t
      BY <1>11, <2>1
    <3> QED
      BY <1>8, <1>9, <3>1
  <2>2. CASE i # n
    <3>1. i \in 0 .. (n - 1)
      BY <1>10, <2>2
    <3>2. messages'[i] = messages[i] /\ r'[i] = r[i] /\ tags'[i] = tags[i]
      BY <1>11, <2>2
    <3> QED
      BY <1>3, <3>1, <3>2
  <2> QED
    BY <2>1, <2>2
<1>13. Authenticated(circ', tags', r', messages', x')
  <2>1. PICK l : l = n + 1
    OBVIOUS
  <2>2. /\ DOMAIN tags' = 0 .. (l - 1) /\ DOMAIN r' = 0 .. (l - 1)
        /\ DOMAIN messages' = 0 .. (l - 1)
    BY <1>11, <2>1
  <2> QED
    BY <1>1, <1>6, <1>12, <2>1, <2>2 DEF Authenticated
<1>14. KeyIs(x', g', h', d')
  BY <1>1 DEF SessionInv
<1>15. /\ pc' # "keygen" /\ pc' # "verified" /\ pc' \notin {"vrfy", "verified"}
       /\ pc' # "aborted" /\ result' = ABORT
  BY <1>1 DEF SessionInv
<1> QED
  BY <1>1, <1>13, <1>14, <1>15 DEF SessionInv

\* When all labels are authenticated, each input has its tag.
LEMMA AllInputs ==
  ASSUME NEW c \in Circuits, NEW ts, NEW rs, NEW ms, NEW k, Authenticated(c, ts, rs, ms, k),
         Cardinality(DOMAIN ts) \notin 0 .. (c.n_inputs - 1)
  PROVE  /\ InputTags(c, ts)
         /\ \A i \in 0 .. (c.n_inputs - 1) :
              /\ ms[i] \in 0 .. P /\ rs[i] \in 0 .. (P - 1)
              /\ ts[i][0] = ms[i] /\ Cong(rho(ts[i], k), rs[i], P)
<1>1. PICK n \in 0 .. c.n_inputs :
        /\ DOMAIN ts = 0 .. (n - 1)
        /\ \A i \in 0 .. (n - 1) :
             /\ ms[i] \in 0 .. P /\ rs[i] \in 0 .. (P - 1)
             /\ IsTag(ts[i], 1) /\ ts[i][0] = ms[i] /\ Cong(rho(ts[i], k), rs[i], P)
  BY DEF Authenticated
<1>2. c.n_inputs \in Nat /\ n \in Nat /\ n - 1 \in Int /\ 0 \in Int
  <2>1. c.n_inputs \in Nat
    BY CircuitIs
  <2> QED
    BY <1>1, <2>1
<1>3. Cardinality(0 .. (n - 1)) = IF 0 > n - 1 THEN 0 ELSE (n - 1) - 0 + 1
  BY ONLY <1>2, FS_Interval
<1>4. Cardinality(0 .. (n - 1)) = n
  BY ONLY <1>2, <1>3
<1>5. n \notin 0 .. (c.n_inputs - 1)
  BY <1>1, <1>4
<1>6. n = c.n_inputs
  BY <1>1, <1>2, <1>5
<1> QED
  BY <1>1, <1>6 DEF InputTags

\* What an evaluation in a session computes.
LEMMA Evaluated ==
  ASSUME SessionInv, Evaluating, NEW v, v = TagValues, NEW out, out = v[OutputGate(circ)],
         \A k \in Gates(circ) : v[k] # ABORT
  PROVE  /\ AllAuthenticated
         /\ v = TagsOf(circ, use_fft, tags) /\ out # ABORT
         /\ Degree(out) \in 0 .. DegreeOf(circ)
         /\ DegreeOf(circ) \in Nat
         /\ ~ use_fft => Degree(out) = DegreeOf(circ)
<1>1. circ \in Circuits /\ use_fft \in BOOLEAN /\ Authenticated(circ, tags, r, messages, x)
  BY DEF SessionInv
<1>2. AllAuthenticated
  BY Zenon DEF Evaluating, NextInput, Inputs, AllAuthenticated
<1>3. InputTags(circ, tags)
  BY <1>1, <1>2, AllInputs DEF AllAuthenticated
<1>4. v = TagsOf(circ, use_fft, tags)
  BY TagValuesAre
<1>5. out # ABORT
  BY <1>1, CircuitIs
<1>6. PICK n \in 0 .. DegreeOf(circ) : IsTag(out, n) /\ (~ use_fft => n = DegreeOf(circ))
  BY <1>1, <1>3, <1>4, <1>5, EvaluatedDegrees
<1>7. Degree(out) = n
  BY <1>6, DegreeIs
<1>8. DegreeOf(circ) \in Nat
  <2>1. PICK c : c = circ /\ c \in Circuits
    BY <1>1
  <2>2. PICK w \in [Gates(c) -> Nat] : w[OutputGate(c)] = DegreeOf(c)
    BY <2>1, DegreesAre
  <2>3. OutputGate(c) \in Gates(c)
    BY <2>1, CircuitIs
  <2> QED
    BY <2>1, <2>2, <2>3
<1> QED
  BY <1>2, <1>4, <1>5, <1>6, <1>7, <1>8

\* An evaluation keeps what a session promises.
LEMMA EvaluateKeeps ==
  ASSUME SessionInv, NEW cf \in Schemes, Evaluate(cf)
  PROVE  SessionInv'
<1>1. PICK v, out : /\ v = TagValues /\ out = v[OutputGate(circ)]
                    /\ \A k \in Gates(circ) : v[k] # ABORT
                    /\ cf = "CF_2" => ~ TooHigh(out)
                    /\ result' = IF cf = "CF_2" THEN [k \in {0} |-> Compress(out)] ELSE out
  BY DEF Evaluate
<1>2. /\ Evaluating /\ (cf = "CF_2" => h # <<>>) /\ compact' = (cf = "CF_2") /\ pc' = "vrfy"
      /\ err' = err /\ UNCHANGED <<session, x, g, h, r, messages, tags>>
  BY DEF Evaluate
<1>3. /\ circ' \in Circuits /\ d' \in Nat /\ use_fft' \in BOOLEAN /\ x' \in 0 .. (P - 1)
      /\ Authenticated(circ, tags, r, messages, x)' /\ KeyIs(x, g, h, d)'
  BY <1>2, SessionGoesOn
<1>4. /\ circ' = circ /\ d' = d /\ use_fft' = use_fft /\ h' = h /\ tags' = tags /\ d \in Nat
  BY <1>2 DEF session, SessionInv
<1>5. /\ AllAuthenticated /\ v = TagsOf(circ, use_fft, tags) /\ out # ABORT
      /\ Degree(out) \in 0 .. DegreeOf(circ) /\ DegreeOf(circ) \in Nat
      /\ ~ use_fft => Degree(out) = DegreeOf(circ)
  BY <1>1, <1>2, Evaluated
<1>6. cf = "CF_2" => Degree(out) <= d
  BY <1>1, <1>4, <1>5 DEF TooHigh
<1>7. ResultIs(circ', use_fft', tags', h', d', result', compact')
  <2>1. TagsOf(circ, use_fft, tags)[OutputGate(circ)] = out
    BY <1>1, <1>5
  <2>2. result' = IF compact' THEN [k \in {0} |-> CompressOf(h, out)] ELSE out
    BY <1>1, <1>2, CompressIs
  <2>3. compact' => h # <<>> /\ Degree(out) <= d
    BY <1>2, <1>6
  <2>4. ResultIs(circ, use_fft, tags, h, d, result', compact')
    BY <1>5, <2>1, <2>2, <2>3, Zenon DEF ResultIs
  <2> QED
    BY <1>4, <2>4
<1>8. AllAuthenticated'
  BY <1>4, <1>5 DEF AllAuthenticated
<1>9. err' = "E_INVAL_DEGREE" => d' = 0 \/ DegreeOf(circ') > d'
  BY <1>2, <1>4 DEF SessionInv
<1>10. compact' /\ ~ use_fft' => DegreeOf(circ') <= d'
  BY <1>2, <1>4, <1>5, <1>6
<1>11. compact' \in BOOLEAN
  BY <1>2
<1>12. pc' # "keygen" /\ pc' # "verified" /\ pc' # "auth" /\ pc' # "aborted"
  BY <1>2
<1> QED
  BY <1>3, <1>7, <1>8, <1>9, <1>10, <1>11, <1>12 DEF SessionInv

\* So does its refusal of a degree.
LEMMA RefuseDegreeKeeps ==
  ASSUME SessionInv, NEW cf \in Schemes, RefuseDegree(cf)
  PROVE  SessionInv'
<1>1. PICK v, out : /\ v = TagValues /\ out = v[OutputGate(circ)]
                    /\ \A k \in Gates(circ) : v[k] # ABORT
                    /\ TooHigh(out)
  BY DEF RefuseDegree
<1>2. /\ Evaluating /\ pc' = "failed"
      /\ UNCHANGED <<session, x, g, h, r, messages, tags, result, compact>>
  BY DEF RefuseDegree
<1>3. Degree(out) \in 0 .. DegreeOf(circ) /\ DegreeOf(circ) \in Nat
  BY <1>1, <1>2, Evaluated
<1>4. DegreeOf(circ) > d
  BY <1>1, <1>3 DEF TooHigh, SessionInv
<1> QED
  BY <1>2, <1>4, SessionEnds

\* A verification says what it says of the result.
LEMMA VerificationKeeps ==
  ASSUME SessionInv, pc = "vrfy", NEW m \in Claims,
         UNCHANGED <<session, x, g, h, r, messages, tags, result, compact, err>>,
         claim' = m, pc' = "verified", verdict' = VerdictOf(circ, r, g, x, result, m)
  PROVE  SessionInv'
<1>1. /\ circ' \in Circuits /\ d' \in Nat /\ use_fft' \in BOOLEAN /\ x' \in 0 .. (P - 1)
      /\ Authenticated(circ, tags, r, messages, x)' /\ KeyIs(x, g, h, d)'
  BY SessionGoesOn
<1>2. /\ circ' = circ /\ d' = d /\ use_fft' = use_fft /\ h' = h /\ tags' = tags /\ r' = r /\ g' = g
      /\ x' = x /\ result' = result /\ compact' = compact /\ err' = err
  BY DEF session
<1>3. AllAuthenticated /\ ResultIs(circ, use_fft, tags, h, d, result, compact)
  BY DEF SessionInv
<1>4. AllAuthenticated' /\ ResultIs(circ, use_fft, tags, h, d, result, compact)'
  BY <1>2, <1>3 DEF AllAuthenticated
<1>5. claim' \in Claims /\ verdict' = VerdictOf(circ', r', g', x', result', claim')
  BY <1>2
<1>6. /\ err' = "E_INVAL_DEGREE" => d' = 0 \/ DegreeOf(circ') > d'
      /\ compact' /\ ~ use_fft' => DegreeOf(circ') <= d'
      /\ compact' \in BOOLEAN
  BY <1>2 DEF SessionInv
<1>7. pc' # "keygen" /\ pc' # "auth" /\ pc' # "aborted"
  OBVIOUS
<1> QED
  BY <1>1, <1>4, <1>5, <1>6, <1>7 DEF SessionInv

\* Every step keeps it.
LEMMA SessionStep == SessionInv /\ [Next]_vars => SessionInv'
<1> SUFFICES ASSUME SessionInv, [Next]_vars PROVE SessionInv'
  OBVIOUS
<1>1. ASSUME ZeroDegree PROVE SessionInv'
  BY <1>1, SessionEnds DEF ZeroDegree
<1>2. ASSUME DrawSmallT PROVE SessionInv'
  BY <1>2, DiesEarly DEF DrawSmallT
<1>3. ASSUME KeyGen PROVE SessionInv'
  BY <1>3, KeyGenKeeps
<1>4. ASSUME NEW m \in Messages, RefuseMessage(m) PROVE SessionInv'
  BY <1>4, SessionEnds DEF RefuseMessage
<1>5. ASSUME NEW m \in Messages, NoInverse(m) PROVE SessionInv'
  BY <1>5, DiesEarly DEF NoInverse, Authenticating
<1>6. ASSUME NEW m \in Messages, Authenticate(m) PROVE SessionInv'
  BY <1>6, AuthenticateKeeps
<1>7. ASSUME NEW cf \in Schemes, NoHs(cf) PROVE SessionInv'
  BY <1>7, SessionEnds DEF NoHs
<1>8. ASSUME NEW cf \in Schemes, EvalAborts(cf) PROVE SessionInv'
  BY <1>8, DiesEarly DEF EvalAborts, Evaluating
<1>9. ASSUME NEW cf \in Schemes, RefuseDegree(cf) PROVE SessionInv'
  BY <1>9, RefuseDegreeKeeps
<1>10. ASSUME NEW cf \in Schemes, Evaluate(cf) PROVE SessionInv'
  BY <1>10, EvaluateKeeps
<1>11. ASSUME NEW m \in Claims, ClaimRefused(m) PROVE SessionInv'
  <2>1. /\ pc = "vrfy" /\ m > P /\ claim' = m /\ verdict' = "E_INVAL_MSG" /\ pc' = "verified"
        /\ UNCHANGED <<session, x, g, h, r, messages, tags, result, compact, err>>
    BY <1>11 DEF ClaimRefused
  <2>2. verdict' = VerdictOf(circ, r, g, x, result, m)
    BY <2>1, VerdictIs
  <2> QED
    BY <2>1, <2>2, VerificationKeeps
<1>12. ASSUME NEW m \in Claims, NoG(m) PROVE SessionInv'
  <2>1. /\ pc = "vrfy" /\ Degree(result) = 0 /\ g = 0 /\ pc' = "aborted" /\ err' = err
        /\ UNCHANGED <<session, x, g, h, r, messages, tags, result, compact>>
    BY <1>12 DEF NoG, TakenForCF2, Die
  <2>2. Died
    BY <2>1 DEF SessionInv, Died
  <2> QED
    BY <2>1, <2>2, SessionEnds
<1>13. ASSUME NEW m \in Claims, Vrfy(m) PROVE SessionInv'
  <2>1. /\ pc = "vrfy" /\ m <= P /\ claim' = m /\ pc' = "verified"
        /\ verdict' = IF TakenForCF2 THEN Verify2(m) ELSE Verify1(m)
        /\ UNCHANGED <<session, x, g, h, r, messages, tags, result, compact, err>>
    BY <1>13, Zenon DEF Vrfy
  <2>2. verdict' = VerdictOf(circ, r, g, x, result, m)
    BY <2>1, VerdictIs, Zenon
  <2> QED
    BY <2>1, <2>2, VerificationKeeps
<1>14. ASSUME UNCHANGED vars PROVE SessionInv'
  <2>1. /\ pc' = pc /\ circ' = circ /\ d' = d /\ use_fft' = use_fft /\ x' = x /\ g' = g /\ h' = h
        /\ r' = r /\ messages' = messages /\ tags' = tags /\ result' = result
        /\ compact' = compact /\ verdict' = verdict /\ claim' = claim /\ err' = err
    BY <1>14 DEF vars, session
  <2> QED
    BY <2>1 DEF SessionInv, AllAuthenticated, Died
<1> QED
  BY <1>1, <1>2, <1>3, <1>4, <1>5, <1>6, <1>7, <1>8, <1>9, <1>10, <1>11, <1>12, <1>13, <1>14
     DEF Next, Over

\* SessionInv holds throughout every session of keygen, auth, eval and vrfy, for any prime,
\* any programs, messages and masks, and any degree bounds.
THEOREM SessionInductive == Spec => []SessionInv
<1>1. Init => SessionInv
  BY SessionBegins
<1>2. SessionInv /\ [Next]_vars => SessionInv'
  BY SessionStep
<1> QED
  BY <1>1, <1>2, PTL DEF Spec

\* The degree check of cf_eval2: what it refuses is a program above the bound (or a bound of
\* zero), and no program above the bound gets through it without the FFT.
THEOREM DegreesExact == Spec => []DegreeBoundExact
<1>1. SessionInv => DegreeBoundExact
  BY ProgramDegreeIs DEF SessionInv, DegreeBoundExact
<1> QED
  BY <1>1, SessionInductive, PTL

\* The tag of a gate of an evaluation has the value of the masks at the key and that of the
\* messages at 0.
LEMMA GateValues ==
  ASSUME NEW c \in Circuits, NEW fft \in BOOLEAN, NEW ts, NEW rs, NEW ms, NEW y \in 0 .. (P - 1),
         Authenticated(c, ts, rs, ms, y), Cardinality(DOMAIN ts) \notin 0 .. (c.n_inputs - 1),
         NEW v, v = TagsOf(c, fft, ts), NEW q \in Gates(c), v[q] # ABORT
  PROVE  /\ \E n : IsTag(v[q], n) /\ rho(v[q], y) \in 0 .. (P - 1)
         /\ Cong(rho(v[q], y), Numbers(c, rs)[q], P)
         /\ Cong(v[q][0], Numbers(c, ms)[q], P)
<1>1. /\ InputTags(c, ts)
      /\ \A i \in 0 .. (c.n_inputs - 1) :
           /\ ms[i] \in 0 .. P /\ rs[i] \in 0 .. (P - 1)
           /\ ts[i][0] = ms[i] /\ Cong(rho(ts[i], y), rs[i], P)
  BY AllInputs
<1>2. /\ y \in Int /\ 0 \in Int
      /\ \A i \in 0 .. (c.n_inputs - 1) : ms[i] \in Int
      /\ \A i \in 0 .. (c.n_inputs - 1) : rs[i] \in Int
  BY <1>1, Modulus
<1>3. \A i \in 0 .. (c.n_inputs - 1) : Cong(rho(ts[i], y), rs[i], P)
  BY <1>1
<1>4. \A i \in 0 .. (c.n_inputs - 1) : Cong(rho(ts[i], 0), ms[i], P)
  <2> SUFFICES ASSUME NEW i \in 0 .. (c.n_inputs - 1) PROVE Cong(rho(ts[i], 0), ms[i], P)
    OBVIOUS
  <2>1. IsTag(ts[i], 1) /\ ts[i][0] = ms[i]
    BY <1>1 DEF InputTags
  <2> QED
    BY <2>1, RhoAtZero
<1>5. (\E n : IsTag(v[q], n)) /\ Cong(rho(v[q], y), Numbers(c, rs)[q], P)
  <2> HIDE DEF rho
  <2> QED
    BY ONLY <1>1, <1>2, <1>3, c \in Circuits, fft \in BOOLEAN, v = TagsOf(c, fft, ts),
            q \in Gates(c), v[q] # ABORT, EvaluatedValues
<1>6. Cong(rho(v[q], 0), Numbers(c, ms)[q], P)
  <2> HIDE DEF rho
  <2> QED
    BY ONLY <1>1, <1>2, <1>4, c \in Circuits, fft \in BOOLEAN, v = TagsOf(c, fft, ts),
            q \in Gates(c), v[q] # ABORT, EvaluatedValues
<1>7. PICK n : IsTag(v[q], n)
  BY <1>5
<1>8. n \in Nat /\ n + 1 \in Nat /\ n + 1 > n
  BY <1>7 DEF IsTag
<1>9. rho(v[q], y) \in 0 .. (P - 1)
  BY <1>2, <1>7, <1>8, RhoPoly
<1>10. Cong(rho(v[q], 0), v[q][0], P)
  BY <1>7, RhoAtZero
<1>11. Cong(v[q][0], Numbers(c, ms)[q], P)
  BY ONLY <1>6, <1>10, CongruentBack, CongruentOn
<1> QED
  BY <1>5, <1>7, <1>9, <1>11

\* Every tag of an evaluation is the polynomial of its gate: at the key it is the value of
\* the masks, at 0 that of the messages, for every program.
THEOREM GatesHomomorphic == Spec => []TagsHomomorphic
<1>1. SessionInv => TagsHomomorphic
  <2> SUFFICES ASSUME SessionInv, Evaluating, NEW v, v = TagValues,
                      NEW q \in Gates(circ), v[q] # ABORT
               PROVE  /\ rho(v[q], x) = MessageValues(r)[q] % P
                      /\ v[q][0] % P = MessageValues(messages)[q] % P
    BY Zenon DEF TagsHomomorphic
  <2>1. /\ circ \in Circuits /\ use_fft \in BOOLEAN /\ x \in 0 .. (P - 1)
        /\ Authenticated(circ, tags, r, messages, x)
        /\ Cardinality(DOMAIN tags) \notin 0 .. (circ.n_inputs - 1)
    BY DEF SessionInv, Evaluating, NextInput, Inputs
  <2>2. v = TagsOf(circ, use_fft, tags)
    BY TagValuesAre
  <2>3. /\ rho(v[q], x) \in 0 .. (P - 1)
        /\ Cong(rho(v[q], x), Numbers(circ, r)[q], P)
        /\ Cong(v[q][0], Numbers(circ, messages)[q], P)
    BY <2>1, <2>2, GateValues
  <2>4. PICK e : e = rho(v[q], x)
    OBVIOUS
  <2>5. e % P = e
    BY <2>3, <2>4, Modulus
  <2>6. MessageValues(r) = Numbers(circ, r) /\ MessageValues(messages) = Numbers(circ, messages)
    BY MessageValuesAre, Zenon
  <2> QED
    <3> HIDE DEF rho, MessageValues
    <3> QED
      BY ONLY <2>3, <2>4, <2>5, <2>6, Zenon DEF Cong
<1> QED
  BY <1>1, SessionInductive, PTL

-----------------------------------------------------------------------------
(***************************************************************************)
(* Powers modulo a prime                                                   *)
(***************************************************************************)
\* A number below n is its own remainder.
LEMMA SmallRemainder ==
  ASSUME NEW n \in Nat \ {0}, NEW a \in 0 .. (n - 1)
  PROVE  a % n = a
OBVIOUS

\* Numbers below n that are congruent are the same.
LEMMA CongruentSmall ==
  ASSUME NEW n \in Nat \ {0}, NEW a \in 0 .. (n - 1), NEW b \in 0 .. (n - 1), Cong(a, b, n)
  PROVE  a = b
<1>1. a % n = a /\ b % n = b
  OBVIOUS
<1> QED
  BY <1>1 DEF Cong

\* The powers of 1.
LEMMA PowOfOne ==
  ASSUME NEW m \in Nat \ {0, 1}, NEW e \in Nat
  PROVE  PowMod(1, e, m) = 1
<1>1. PICK T : T = {i \in Nat : PowMod(1, i, m) = 1}
  OBVIOUS
<1>2. 0 \in T
  <2>1. PowMod(1, 0, m) = 1 % m
    BY 1 \in Int, m \in Nat \ {0}, PowSteps
  <2>2. 1 % m = 1
    OBVIOUS
  <2> QED
    BY <1>1, <2>1, <2>2
<1>3. ASSUME NEW i \in Nat, i \in T PROVE i + 1 \in T
  <2>1. PowMod(1, i + 1, m) = (1 * 1) % m
    BY <1>1, <1>3, PowSteps
  <2>2. (1 * 1) % m = 1
    OBVIOUS
  <2> QED
    BY <1>1, <2>1, <2>2
<1>4. \A i \in Nat : i \in T
  BY <1>2, <1>3, AllNumbers
<1> QED
  BY <1>1, <1>4

\* The power of a power.
LEMMA PowOfPow ==
  ASSUME NEW b \in Int, NEW m \in Nat \ {0}, NEW e \in Nat, NEW f \in Nat
  PROVE  PowMod(PowMod(b, e, m), f, m) = PowMod(b, e * f, m)
<1>1. PICK u, T : u = PowMod(b, e, m) /\ T = {i \in Nat : PowMod(u, i, m) = PowMod(b, e * i, m)}
  OBVIOUS
<1>2. u \in 0 .. (m - 1) /\ u \in Int
  <2>1. u \in 0 .. (m - 1)
    BY <1>1, PowSteps
  <2> QED
    BY <2>1
<1>3. 0 \in T
  <2>1. e * 0 = 0
    OBVIOUS
  <2> QED
    BY <1>1, <1>2, <2>1, PowSteps
<1>4. ASSUME NEW i \in Nat, i \in T PROVE i + 1 \in T
  <2>1. PICK f1, f2, s, w, l : /\ f1 = e * i /\ f2 = f1 + e /\ s = PowMod(b, f1, m)
                               /\ w = PowMod(b, f2, m) /\ l = PowMod(u, i + 1, m)
    OBVIOUS
  <2>2. f1 \in Nat /\ f2 \in Nat /\ e * (i + 1) = f2
    BY <2>1
  <2>3. s \in 0 .. (m - 1) /\ w \in 0 .. (m - 1) /\ l \in 0 .. (m - 1)
    BY <1>2, <2>1, <2>2, PowSteps
  <2>4. Cong(w, s * u, m)
    BY <1>1, <2>1, <2>2, PowSum
  <2>5. PowMod(u, i, m) = s
    BY <1>1, <1>4, <2>1
  <2>6. Cong(l, s * u, m)
    BY <1>2, <2>1, <2>5, PowCongruent
  <2>7. Cong(l, w, m)
    BY ONLY <2>4, <2>6, CongruentBack, CongruentOn
  <2>8. l = w
    BY ONLY <2>3, <2>7, m \in Nat \ {0}, CongruentSmall
  <2> QED
    BY <1>1, <2>1, <2>2, <2>8
<1>5. \A i \in Nat : i \in T
  BY <1>3, <1>4, AllNumbers
<1> QED
  BY <1>1, <1>5

\* When a power p of b is 1, exponents count modulo p.
LEMMA PowPeriod ==
  ASSUME NEW b \in Int, NEW m \in Nat \ {0, 1}, NEW p \in Nat \ {0}, PowMod(b, p, m) = 1,
         NEW e \in Nat, NEW f \in Nat, Cong(e, f, p)
  PROVE  PowMod(b, e, m) = PowMod(b, f, m)
<1>1. ASSUME NEW a \in Nat PROVE PowMod(b, a, m) = PowMod(b, a % p, m)
  <2>0. a % p \in 0 .. (p - 1) /\ a \in Int
    OBVIOUS
  <2>1. PICK q \in Int : a = p * q + (a % p)
    BY <2>0, Remainder
  <2>2. PICK i, j, u, v, w : /\ i = p * q /\ j = a % p /\ u = PowMod(b, i, m)
                             /\ v = PowMod(b, j, m) /\ w = PowMod(b, a, m)
    OBVIOUS
  <2>3. q \in Nat /\ i \in Nat /\ j \in Nat /\ a = i + j
    <3>1. q >= 0
      BY <2>0, <2>1
    <3> QED
      BY <2>0, <2>1, <2>2, <3>1
  <2>4. u = 1
    <3>1. PowMod(PowMod(b, p, m), q, m) = u
      BY <2>2, <2>3, PowOfPow
    <3> QED
      BY <2>3, <3>1, PowOfOne
  <2>5. v \in 0 .. (m - 1) /\ w \in 0 .. (m - 1)
    BY <2>2, <2>3, PowSteps
  <2>6. Cong(w, u * v, m)
    BY <2>2, <2>3, PowSum
  <2>7. u * v = v
    BY <2>4, <2>5
  <2> QED
    BY <2>2, <2>5, <2>6, <2>7, CongruentSmall
<1> QED
  BY <1>1 DEF Cong

\* And no power of b is 0.
LEMMA PowNotZero ==
  ASSUME NEW b \in Int, NEW m \in Nat \ {0, 1}, NEW p \in Nat \ {0}, PowMod(b, p, m) = 1,
         NEW e \in Nat
  PROVE  PowMod(b, e, m) # 0 /\ PowMod(b, e, m) % m # 0
<1>1. PICK i, u, v : i = e * (p - 1) /\ u = PowMod(b, e, m) /\ v = PowMod(b, i, m)
  OBVIOUS
<1>2. i \in Nat /\ e + i = p * e
  BY <1>1
<1>3. u \in 0 .. (m - 1) /\ v \in 0 .. (m - 1)
  BY <1>1, <1>2, PowSteps
<1>4. Cong(PowMod(b, p * e, m), u * v, m)
  BY <1>1, <1>2, PowSum
<1>5. PowMod(b, p * e, m) = 1
  <2>1. PowMod(PowMod(b, p, m), e, m) = PowMod(b, p * e, m)
    BY PowOfPow
  <2> QED
    BY <2>1, PowOfOne
<1>6. u # 0
  <2> SUFFICES ASSUME u = 0 PROVE FALSE
    OBVIOUS
  <2>1. u * v = 0
    BY <1>3
  <2>2. Cong(1, 0, m)
    BY <1>4, <1>5, <2>1
  <2>3. 1 % m = 1 /\ 0 % m = 0
    OBVIOUS
  <2> QED
    BY <2>2, <2>3 DEF Cong
<1>7. u % m = u
  BY <1>3
<1> QED
  BY <1>1, <1>6, <1>7

\* With p prime and b not 1, powers that are the same have exponents that are the same
\* modulo p.
LEMMA PowOrder ==
  ASSUME NEW m, Prime(m), NEW p, Prime(p), NEW b \in 0 .. (m - 1), b # 1, PowMod(b, p, m) = 1,
         NEW e \in Nat, PowMod(b, e, m) = 1
  PROVE  e % p = 0
<1> SUFFICES ASSUME e % p # 0 PROVE FALSE
  OBVIOUS
<1>1. m \in Nat \ {0, 1} /\ p \in Nat \ {0, 1} /\ b \in Int
  <2>1. m \in Nat \ {0, 1} /\ p \in Nat \ {0, 1}
    BY DEF Prime
  <2> QED
    BY <2>1
<1>2. PICK k \in 1 .. (p - 1) : (e * k) % p = 1
  BY InverseExists
<1>3. PICK f : f = e * k
  OBVIOUS
<1>4. f \in Nat /\ Cong(f, 1, p)
  <2>1. 1 % p = 1
    BY <1>1
  <2> QED
    BY <1>1, <1>2, <1>3, <2>1 DEF Cong
<1>5. PowMod(b, f, m) = 1
  <2>1. k \in Nat
    BY <1>1, <1>2
  <2>2. PowMod(PowMod(b, e, m), k, m) = PowMod(b, f, m)
    BY <1>1, <1>3, <2>1, PowOfPow
  <2> QED
    BY <1>1, <2>1, <2>2, PowOfOne
<1>6. PowMod(b, f, m) = PowMod(b, 1, m)
  BY <1>1, <1>4, 1 \in Nat, p \in Nat \ {0}, PowPeriod
<1>7. PowMod(b, 1, m) = b
  <2>1. PowMod(b, 0, m) = 1 % m /\ PowMod(b, 0 + 1, m) = (PowMod(b, 0, m) * b) % m
    BY <1>1, PowSteps
  <2>2. 1 % m = 1 /\ b % m = b /\ 1 * b = b
    BY <1>1
  <2> QED
    BY <2>1, <2>2
<1> QED
  BY <1>5, <1>6, <1>7

\* For a base of prime order p, equal powers have exponents that are congruent modulo p.
LEMMA PowSame ==
  ASSUME NEW m, Prime(m), NEW p, Prime(p), NEW b \in 0 .. (m - 1), b # 1, PowMod(b, p, m) = 1,
         NEW e \in Nat, NEW f \in Nat, PowMod(b, e, m) = PowMod(b, f, m)
  PROVE  Cong(e, f, p)
<1>1. m \in Nat \ {0, 1} /\ p \in Nat \ {0, 1} /\ b \in Int
  <2>1. m \in Nat \ {0, 1} /\ p \in Nat \ {0, 1}
    BY DEF Prime
  <2> QED
    BY <2>1
<1>2. ASSUME NEW i \in Nat, NEW k \in Nat, PowMod(b, i, m) = PowMod(b, i + k, m)
      PROVE  k % p = 0
  <2>1. PICK u, v : u = PowMod(b, i, m) /\ v = PowMod(b, k, m)
    OBVIOUS
  <2>2. u \in Int /\ v \in Int /\ v \in 0 .. (m - 1) /\ 1 \in 0 .. (m - 1) /\ 1 \in Int
    <3>1. u \in 0 .. (m - 1) /\ v \in 0 .. (m - 1)
      BY <1>1, <2>1, PowSteps
    <3> QED
      BY <1>1, <3>1
  <2>3. u % m # 0
    BY <1>1, <2>1, PowNotZero
  <2>4. Cong(u, u * v, m)
    BY <1>1, <1>2, <2>1, PowSum
  <2>5. u = u * 1
    BY <2>2
  <2>6. Cong(u * v, u * 1, m)
    BY <2>4, <2>5, CongruentBack
  <2>7. Cong(v, 1, m)
    BY <2>2, <2>3, <2>6, Cancelled
  <2>8. v = 1
    BY <1>1, <2>2, <2>7, CongruentSmall
  <2> QED
    BY <2>1, <2>8, PowOrder
<1>3. ASSUME NEW i \in Nat, NEW k \in Nat, k % p = 0 PROVE Cong(i + k, i, p)
  <2>1. 0 % p = 0 /\ 0 \in Int
    BY <1>1
  <2>2. Cong(k, 0, p) /\ Cong(i, i, p)
    BY <1>3, <2>1 DEF Cong
  <2>3. Cong(i + k, i + 0, p)
    BY <1>1, <2>1, <2>2, i \in Int, k \in Int, CongruentSum
  <2> QED
    BY <2>3
<1>4. CASE e <= f
  <2>1. PICK k \in Nat : f = e + k
    <3>1. f - e \in Nat /\ f = e + (f - e)
      BY <1>4
    <3> QED
      BY <3>1
  <2> QED
    BY <1>2, <1>3, <2>1, CongruentBack
<1>5. CASE f <= e
  <2>1. PICK k \in Nat : e = f + k
    <3>1. e - f \in Nat /\ e = f + (e - f)
      BY <1>5
    <3> QED
      BY <3>1
  <2> QED
    BY <1>2, <1>3, <2>1
<1> QED
  BY <1>4, <1>5

-----------------------------------------------------------------------------
(***************************************************************************)
(* Products of the first n values of a function, and Fermat's theorem      *)
(***************************************************************************)
Factors(F, n) ==
  LET product[i \in 0 .. n] == IF i = 0 THEN 1 ELSE product[i - 1] * F[i - 1]
  IN  product[n]

\* The recursion has values.
LEMMA FactorTable ==
  ASSUME NEW F \in IntSequences, NEW n \in Nat
  PROVE  \E s \in [0 .. n -> Int] :
           s[0] = 1 /\ s[n] = Factors(F, n) /\ \A i \in 1 .. n : s[i] = s[i - 1] * F[i - 1]
<1>1. PICK W : W = [i \in 1 .. n |-> [v \in Int |-> v * F[i - 1]]]
  OBVIOUS
<1>2. W \in StepsIn(n, Int)
  <2>1. \A i \in 1 .. n : F[i - 1] \in Int
    BY DEF IntSequences
  <2>2. \A i \in 1 .. n : \A v \in Int : v * F[i - 1] \in Int
    BY <2>1
  <2> QED
    BY <1>1, <2>2 DEF StepsIn
<1>3. n \in Nat /\ 1 \in Int
  OBVIOUS
<1>4. PICK f : Recurs(f, n, Int, 1, W)
  BY ONLY <1>2, <1>3, Recursive
<1>5. f \in [0 .. n -> Int] /\ f[0] = 1 /\ \A i \in 1 .. n : f[i] = f[i - 1] * F[i - 1]
  <2>1. \A i \in 1 .. n : i - 1 \in 0 .. n
    OBVIOUS
  <2>2. f \in [0 .. n -> Int] /\ f[0] = 1 /\ \A i \in 1 .. n : f[i] = W[i][f[i - 1]]
    BY <1>4 DEF Recurs
  <2> QED
    BY <1>1, <2>1, <2>2
<1>6. f = [i \in 0 .. n |-> IF i = 0 THEN 1 ELSE f[i - 1] * F[i - 1]]
  BY <1>5
<1> DEFINE product[i \in 0 .. n] == IF i = 0 THEN 1 ELSE product[i - 1] * F[i - 1]
<1>7. Factors(F, n) = product[n]
  BY Zenon DEF Factors
<1>8. product = [i \in 0 .. n |-> IF i = 0 THEN 1 ELSE product[i - 1] * F[i - 1]]
  BY <1>6
<1>9. PICK s : /\ s = [i \in 0 .. n |-> IF i = 0 THEN 1 ELSE s[i - 1] * F[i - 1]]
               /\ Factors(F, n) = s[n]
  BY <1>7, <1>8, Zenon
<1> HIDE DEF product
<1>10. s[0] = 1 /\ \A i \in 1 .. n : s[i] = s[i - 1] * F[i - 1]
  BY <1>9
<1>11. \A i \in 0 .. n : f[i] = s[i]
  <2>1. n \in Nat /\ f[0] = s[0] /\ \A i \in 1 .. n : f[i - 1] = s[i - 1] => f[i] = s[i]
    BY <1>5, <1>10
  <2> QED
    BY ONLY <2>1, SameRecursion
<1> QED
  BY <1>5, <1>9, <1>10, <1>11

\* Its equations.
LEMMA FactorSteps ==
  ASSUME NEW F \in IntSequences
  PROVE  /\ Factors(F, 0) = 1
         /\ \A n \in Nat : Factors(F, n) \in Int /\ Factors(F, n + 1) = Factors(F, n) * F[n]
<1>1. Factors(F, 0) = 1
  BY FactorTable
<1>2. ASSUME NEW n \in Nat PROVE Factors(F, n) \in Int /\ Factors(F, n + 1) = Factors(F, n) * F[n]
  <2>1. PICK s : /\ s \in [0 .. n -> Int] /\ s[0] = 1 /\ s[n] = Factors(F, n)
                 /\ \A i \in 1 .. n : s[i] = s[i - 1] * F[i - 1]
    BY FactorTable
  <2>2. PICK m : m = n + 1
    OBVIOUS
  <2>3. m \in Nat
    BY <2>2
  <2>4. PICK t : /\ t \in [0 .. m -> Int] /\ t[0] = 1 /\ t[m] = Factors(F, m)
                 /\ \A i \in 1 .. m : t[i] = t[i - 1] * F[i - 1]
    BY <2>3, FactorTable
  <2>5. n \in Nat /\ s[0] = t[0] /\ \A i \in 1 .. n : s[i - 1] = t[i - 1] => s[i] = t[i]
    BY <2>1, <2>2, <2>4
  <2>6. \A i \in 0 .. n : s[i] = t[i]
    BY ONLY <2>5, SameRecursion
  <2>7. t[m] = t[n] * F[n] /\ s[n] = t[n]
    BY <2>2, <2>4, <2>6
  <2> QED
    BY <2>1, <2>2, <2>4, <2>7
<1> QED
  BY <1>1, <1>2

\* Products of equal numbers are equal.
LEMMA FactorsEqual ==
  ASSUME NEW F \in IntSequences, NEW G \in IntSequences, NEW n \in Nat,
         \A k \in 0 .. (n - 1) : F[k] = G[k]
  PROVE  Factors(F, n) = Factors(G, n)
<1>1. PICK T : T = {i \in 0 .. n : Factors(F, i) = Factors(G, i)}
  OBVIOUS
<1>2. 0 \in T
  BY <1>1, FactorSteps
<1>3. ASSUME NEW i \in 1 .. n, i - 1 \in T PROVE i \in T
  <2>1. PICK j : j = i - 1
    OBVIOUS
  <2>2. j \in Nat /\ i = j + 1 /\ F[j] = G[j] /\ Factors(F, j) = Factors(G, j)
    BY <1>1, <1>3, <2>1
  <2>3. Factors(F, j + 1) = Factors(G, j + 1)
    BY <2>2, FactorSteps
  <2> QED
    BY <1>1, <2>2, <2>3
<1>4. n \in Nat /\ 0 \in T /\ \A i \in 1 .. n : i - 1 \in T => i \in T
  BY <1>2, <1>3
<1>5. \A i \in 0 .. n : i \in T
  BY ONLY <1>4, UpTo
<1> QED
  BY <1>1, <1>5

\* One factor for another.
LEMMA FactorReplaced ==
  ASSUME NEW F \in IntSequences, NEW G \in IntSequences, NEW j \in Nat,
         \A k \in Nat : k # j => F[k] = G[k], NEW n \in Nat, j < n
  PROVE  Factors(F, n) * G[j] = Factors(G, n) * F[j]
<1>1. PICK u, v, T : /\ u = F[j] /\ v = G[j]
                     /\ T = {i \in Nat : j < i => Factors(F, i) * v = Factors(G, i) * u}
  OBVIOUS
<1>2. u \in Int /\ v \in Int
  BY <1>1 DEF IntSequences
<1>3. 0 \in T
  BY <1>1
<1>4. ASSUME NEW i \in Nat, i \in T PROVE i + 1 \in T
  <2>1. PICK a, b, w, y : a = Factors(F, i) /\ b = Factors(G, i) /\ w = F[i] /\ y = G[i]
    OBVIOUS
  <2>2. /\ a \in Int /\ b \in Int /\ w \in Int /\ y \in Int
        /\ Factors(F, i + 1) = a * w /\ Factors(G, i + 1) = b * y
    BY <2>1, FactorSteps DEF IntSequences
  <2>3. CASE j < i
    <3>1. w = y
      BY <2>1, <2>3
    <3>2. a * v = b * u
      BY <1>1, <1>4, <2>1, <2>3
    <3>3. (a * v) * w = (b * u) * w
      BY <3>2
    <3>4. (a * v) * w = (a * w) * v /\ (b * u) * w = (b * w) * u
      BY <1>2, <2>2
    <3> QED
      BY <1>1, <2>2, <3>1, <3>3, <3>4
  <2>4. CASE j = i
    <3>1. a = b
      <4>1. \A k \in 0 .. (i - 1) : F[k] = G[k]
        BY <2>4
      <4> QED
        BY <2>1, <4>1, FactorsEqual
    <3>2. (a * u) * v = (a * v) * u
      BY <1>2, <2>2
    <3> QED
      BY <1>1, <2>1, <2>2, <2>4, <3>1, <3>2
  <2>5. j < i \/ j = i \/ ~ (j < i + 1)
    OBVIOUS
  <2>6. ~ (j < i + 1) => i + 1 \in T
    BY <1>1
  <2> QED
    BY <2>3, <2>4, <2>5, <2>6
<1>5. \A i \in Nat : i \in T
  BY <1>3, <1>4, AllNumbers
<1> QED
  BY <1>1, <1>5

\* 1, 2, 3, ...
Up == [k \in Nat |-> k + 1]

\* The first n values of F are 1 .. n, in some order.
Permuted(F, n) ==
  /\ \A k \in 0 .. (n - 1) : F[k] \in 1 .. n
  /\ \A k, l \in 0 .. (n - 1) : F[k] = F[l] => k = l
  /\ \A v \in 1 .. n : \E k \in 0 .. (n - 1) : F[k] = v

\* The successors form a sequence of integers.
LEMMA UpIs == Up \in IntSequences /\ \A k \in Nat : Up[k] = k + 1
BY DEF Up, IntSequences

\* The order of the factors does not matter.
LEMMA FactorsPermuted ==
  ASSUME NEW n \in Nat, NEW F \in IntSequences, Permuted(F, n)
  PROVE  Factors(F, n) = Factors(Up, n)
<1>1. PICK T : T = {i \in Nat : \A G \in IntSequences :
                                   Permuted(G, i) => Factors(G, i) = Factors(Up, i)}
  OBVIOUS
<1>2. 0 \in T
  BY <1>1, UpIs, FactorSteps
<1>3. ASSUME NEW i \in Nat, i \in T, NEW G \in IntSequences, Permuted(G, i + 1)
      PROVE  Factors(G, i + 1) = Factors(Up, i + 1)
  <2>1. /\ \A k \in 0 .. i : G[k] \in 1 .. (i + 1)
        /\ \A k, l \in 0 .. i : G[k] = G[l] => k = l
        /\ \A v \in 1 .. (i + 1) : \E k \in 0 .. i : G[k] = v
    <3>1. (i + 1) - 1 = i
      OBVIOUS
    <3> QED
      BY <1>3, <3>1 DEF Permuted
  <2>2. PICK j \in 0 .. i : G[j] = i + 1
    BY <2>1
  <2>3. PICK H : H = [k \in Nat |-> IF k = j THEN G[i] ELSE G[k]]
    OBVIOUS
  <2>4. H \in IntSequences /\ H[j] = G[i] /\ \A k \in Nat : k # j => H[k] = G[k]
    BY <2>3 DEF IntSequences
  <2>5. Permuted(H, i)
    <3>1. ASSUME NEW k \in 0 .. (i - 1) PROVE H[k] \in 1 .. i /\ k \in 0 .. i /\ k # i
      <4>1. k \in 0 .. i /\ k # i /\ i \in 0 .. i
        OBVIOUS
      <4>2. CASE k = j
        <5>1. G[i] \in 1 .. (i + 1) /\ G[i] # G[j]
          BY <2>1, <4>1, <4>2
        <5> QED
          BY <2>2, <2>4, <4>1, <4>2, <5>1
      <4>3. CASE k # j
        <5>1. G[k] \in 1 .. (i + 1) /\ G[k] # G[j]
          BY <2>1, <4>1, <4>3
        <5> QED
          BY <2>2, <2>4, <4>1, <4>3, <5>1
      <4> QED
        BY <4>2, <4>3
    <3>2. ASSUME NEW k \in 0 .. (i - 1), NEW l \in 0 .. (i - 1), H[k] = H[l] PROVE k = l
      <4>1. /\ k \in Nat /\ l \in Nat /\ k \in 0 .. i /\ l \in 0 .. i /\ i \in 0 .. i
            /\ k # i /\ l # i
        OBVIOUS
      <4>2. CASE k = j /\ l # j
        <5>1. G[i] = G[l]
          BY <2>4, <3>2, <4>1, <4>2
        <5> QED
          BY <2>1, <4>1, <5>1
      <4>3. CASE k # j /\ l = j
        <5>1. G[i] = G[k]
          BY <2>4, <3>2, <4>1, <4>3
        <5> QED
          BY <2>1, <4>1, <5>1
      <4>4. CASE k # j /\ l # j
        BY <2>1, <2>4, <3>2, <4>1, <4>4
      <4> QED
        BY <4>2, <4>3, <4>4
    <3>3. ASSUME NEW v \in 1 .. i PROVE \E k \in 0 .. (i - 1) : H[k] = v
      <4>1. v \in 1 .. (i + 1) /\ v # i + 1
        OBVIOUS
      <4>2. PICK l \in 0 .. i : G[l] = v
        BY <2>1, <4>1
      <4>3. l # j
        BY <2>2, <4>1, <4>2
      <4>4. CASE l = i
        <5>1. j \in 0 .. (i - 1)
          BY <4>3, <4>4
        <5> QED
          BY <2>4, <4>2, <4>4, <5>1
      <4>5. CASE l # i
        <5>1. l \in 0 .. (i - 1) /\ l \in Nat
          BY <4>5
        <5> QED
          BY <2>4, <4>2, <4>3, <5>1
      <4> QED
        BY <4>4, <4>5
    <3> QED
      BY <3>1, <3>2, <3>3 DEF Permuted
  <2>6. Factors(H, i) = Factors(Up, i)
    BY <1>1, <1>3, <2>4, <2>5
  <2>7. PICK a, b, w : a = Factors(G, i) /\ b = Factors(H, i) /\ w = G[i]
    OBVIOUS
  <2>8. /\ a \in Int /\ b \in Int /\ w \in Int /\ Factors(G, i + 1) = a * w
        /\ Factors(Up, i + 1) = b * (i + 1)
    <3>1. Factors(Up, i + 1) = Factors(Up, i) * Up[i] /\ Up[i] = i + 1
      BY UpIs, FactorSteps
    <3> QED
      BY <2>4, <2>6, <2>7, <3>1, FactorSteps DEF IntSequences
  <2>9. a * w = b * (i + 1)
    <3>1. CASE j = i
      <4>1. \A k \in 0 .. (i - 1) : G[k] = H[k]
        BY <2>4, <3>1
      <4>2. a = b
        BY <2>4, <2>7, <4>1, FactorsEqual
      <4> QED
        BY <2>2, <2>7, <3>1, <4>2
    <3>2. CASE j # i
      <4>1. j \in Nat /\ j < i /\ \A k \in Nat : k # j => G[k] = H[k]
        BY <2>4, <3>2
      <4>2. a * H[j] = b * G[j]
        BY ONLY <2>4, <2>7, <4>1, G \in IntSequences, i \in Nat, FactorReplaced
      <4> QED
        BY <2>2, <2>4, <2>7, <4>2
    <3> QED
      BY <3>1, <3>2
  <2> QED
    BY <2>8, <2>9
<1>4. \A i \in Nat : i \in T => i + 1 \in T
  BY <1>1, <1>3
<1>5. \A i \in Nat : i \in T
  BY <1>2, <1>4, AllNumbers
<1> QED
  BY <1>1, <1>5

\* Multiples of b, and a power of b.
LEMMA FactorsScaled ==
  ASSUME NEW m \in Nat \ {0}, NEW b \in Int, NEW F \in IntSequences, NEW n \in Nat,
         \A k \in Nat : Cong(F[k], b * (k + 1), m)
  PROVE  Cong(Factors(F, n), PowMod(b, n, m) * Factors(Up, n), m)
<1>1. PICK T : T = {i \in Nat : Cong(Factors(F, i), PowMod(b, i, m) * Factors(Up, i), m)}
  OBVIOUS
<1>2. 0 \in T
  <2>1. PICK o : o = PowMod(b, 0, m)
    OBVIOUS
  <2>2. o \in Int /\ Cong(o, 1, m)
    BY <2>1, PowCongruent
  <2>3. o * 1 = o /\ Factors(F, 0) = 1 /\ Factors(Up, 0) = 1
    BY <2>2, FactorSteps, UpIs
  <2> QED
    BY <1>1, <2>1, <2>2, <2>3, CongruentBack
<1>3. ASSUME NEW i \in Nat, i \in T PROVE i + 1 \in T
  <2>1. PICK a, u, p, q, f, c, l : /\ a = Factors(F, i) /\ u = Factors(Up, i)
                                   /\ p = PowMod(b, i, m) /\ q = PowMod(b, i + 1, m)
                                   /\ f = F[i] /\ c = p * u /\ l = b * (i + 1)
    OBVIOUS
  <2>2. /\ a \in Int /\ u \in Int /\ p \in Int /\ q \in Int /\ f \in Int /\ c \in Int /\ l \in Int
        /\ Cong(q, p * b, m) /\ Cong(f, l, m)
    <3>1. a \in Int /\ f \in Int
      BY <2>1, FactorSteps DEF IntSequences
    <3>2. u \in Int
      BY <2>1, UpIs, FactorSteps
    <3>3. p \in Nat /\ q \in Nat /\ Cong(q, p * b, m)
      BY <2>1, PowCongruent
    <3> QED
      BY <2>1, <3>1, <3>2, <3>3
  <2>3. Cong(a, c, m)
    BY <1>1, <1>3, <2>1
  <2>4. Cong(a * f, c * l, m)
    BY <2>2, <2>3, CongruentProduct
  <2>5. PICK y, w : y = p * b /\ w = u * (i + 1)
    OBVIOUS
  <2>6. y \in Int /\ w \in Int /\ Cong(y, q, m)
    BY <2>2, <2>5, CongruentBack
  <2>7. Cong(y * w, q * w, m)
    BY <2>2, <2>6, CongruentSame, CongruentProduct
  <2>8. c * l = y * w
    BY <2>1, <2>2, <2>5
  <2>9. Factors(F, i + 1) = a * f /\ Factors(Up, i + 1) = w
    <3>1. Factors(Up, i + 1) = u * Up[i] /\ Up[i] = i + 1
      BY <2>1, UpIs, FactorSteps
    <3> QED
      BY <2>1, <2>5, <3>1, FactorSteps
  <2>10. Cong(a * f, q * w, m)
    BY <2>4, <2>7, <2>8, CongruentOn
  <2> QED
    BY <1>1, <2>1, <2>9, <2>10
<1>4. \A i \in Nat : i \in T
  BY <1>2, <1>3, AllNumbers
<1> QED
  BY <1>1, <1>4

\* Modulo a prime a product of smaller numbers is not 0.
LEMMA FactorsNotZero ==
  ASSUME NEW m, Prime(m), NEW n \in Nat, n < m
  PROVE  Factors(Up, n) % m # 0
<1>1. PICK T : T = {i \in Nat : i < m => Factors(Up, i) % m # 0}
  OBVIOUS
<1>2. m \in Nat \ {0, 1}
  BY DEF Prime
<1>3. 0 \in T
  <2>1. Factors(Up, 0) = 1
    BY UpIs, FactorSteps
  <2>2. 1 % m = 1
    BY <1>2
  <2> QED
    BY <1>1, <2>1, <2>2
<1>4. ASSUME NEW i \in Nat, i \in T PROVE i + 1 \in T
  <2> SUFFICES ASSUME i + 1 < m, Factors(Up, i + 1) % m = 0 PROVE FALSE
    BY <1>1
  <2>1. PICK u, w : u = Factors(Up, i) /\ w = i + 1
    OBVIOUS
  <2>2. u \in Int /\ w \in Int /\ w % m = w /\ w # 0 /\ Factors(Up, i + 1) = u * w
    <3>1. u \in Int /\ Factors(Up, i + 1) = u * Up[i] /\ Up[i] = i + 1
      BY <2>1, UpIs, FactorSteps
    <3> QED
      BY <1>2, <2>1, <3>1
  <2>3. u % m # 0
    BY <1>1, <1>2, <1>4, <2>1
  <2>4. 0 % m = 0 /\ u * 0 = 0
    BY <1>2, <2>2
  <2>5. Cong(u * w, u * 0, m)
    BY <2>2, <2>4 DEF Cong
  <2>6. Cong(w, 0, m)
    BY <2>2, <2>3, <2>5, 0 \in Int, Cancelled
  <2> QED
    BY <2>2, <2>4, <2>6 DEF Cong
<1>5. \A i \in Nat : i \in T
  BY <1>3, <1>4, AllNumbers
<1> QED
  BY <1>1, <1>5

\* Modulo a prime the multiples of b are 1 .. m - 1 in some order.
LEMMA MultiplesPermuted ==
  ASSUME NEW m, Prime(m), NEW b \in 1 .. (m - 1), NEW F \in IntSequences,
         \A k \in Nat : F[k] \in 0 .. (m - 1) /\ Cong(F[k], b * (k + 1), m)
  PROVE  Permuted(F, m - 1)
<1>1. m \in Nat \ {0, 1} /\ b \in Int /\ b % m # 0 /\ m \in Nat \ {0}
  <2>1. m \in Nat \ {0, 1}
    BY DEF Prime
  <2>2. b \in 0 .. (m - 1) /\ m \in Nat \ {0}
    BY <2>1
  <2>3. b % m = b
    BY ONLY <2>2, SmallRemainder
  <2> QED
    BY <2>1, <2>3
<1>2. PICK n : n = m - 1
  OBVIOUS
<1>3. n \in Nat /\ \A k \in 0 .. (n - 1) : k \in Nat /\ k + 1 \in 1 .. (m - 1) /\ k + 1 \in Int
  BY <1>1, <1>2
<1>4. ASSUME NEW u \in Int, NEW v \in Int, Cong(b * u, b * v, m) PROVE Cong(u, v, m)
  BY <1>1, <1>4, Cancelled
<1>5. ASSUME NEW k \in 0 .. (n - 1) PROVE F[k] \in 1 .. n
  <2>1. F[k] \in 0 .. (m - 1) /\ Cong(F[k], b * (k + 1), m) /\ k + 1 \in Int
    BY <1>3
  <2>2. F[k] # 0
    <3> SUFFICES ASSUME F[k] = 0 PROVE FALSE
      OBVIOUS
    <3>0. k + 1 \in 0 .. (m - 1)
      BY <1>3
    <3>1. b * 0 = 0 /\ 0 \in Int /\ 0 \in 0 .. (m - 1) /\ k + 1 \in 0 .. (m - 1)
      BY <1>1, <3>0
    <3>2. Cong(b * (k + 1), b * 0, m)
      BY <2>1, <3>1, CongruentBack
    <3>3. Cong(k + 1, 0, m)
      BY <1>4, <2>1, <3>1, <3>2
    <3>4. k + 1 = 0
      BY ONLY <1>1, <3>1, <3>3, CongruentSmall
    <3> QED
      BY <1>3, <3>4
  <2> QED
    BY <1>1, <1>2, <2>1, <2>2
<1>6. ASSUME NEW k \in 0 .. (n - 1), NEW l \in 0 .. (n - 1), F[k] = F[l] PROVE k = l
  <2>1. /\ k + 1 \in Int /\ l + 1 \in Int /\ k + 1 \in 0 .. (m - 1) /\ l + 1 \in 0 .. (m - 1)
        /\ k \in Nat /\ l \in Nat
    BY <1>3
  <2>2. Cong(F[k], b * (k + 1), m) /\ Cong(F[k], b * (l + 1), m)
    BY <1>6, <2>1
  <2>3. Cong(b * (k + 1), b * (l + 1), m)
    BY ONLY <2>2, CongruentBack, CongruentOn
  <2>4. Cong(k + 1, l + 1, m)
    BY <1>4, <2>1, <2>3
  <2>5. k + 1 = l + 1
    BY ONLY <1>1, <2>1, <2>4, CongruentSmall
  <2> QED
    BY <2>1, <2>5
<1>7. ASSUME NEW v \in 1 .. n PROVE \E k \in 0 .. (n - 1) : F[k] = v
  <2>1. PICK c \in 1 .. (m - 1) : (b * c) % m = 1
    BY <1>1, InverseExists
  <2>2. PICK o, w, y, z : o = b * c /\ w = c * v /\ y = w % m /\ z = y - 1
    OBVIOUS
  <2>3. /\ o \in Int /\ w \in Int /\ y \in Int /\ y \in 0 .. (m - 1) /\ v \in Int /\ c \in Int
        /\ v \in 0 .. (m - 1)
    <3>1. v \in Int /\ c \in Int /\ v \in 0 .. (m - 1)
      BY <1>1, <1>2
    <3>2. o \in Int /\ w \in Int
      BY <1>1, <2>2, <3>1
    <3>3. w % m \in 0 .. (m - 1)
      BY <1>1, <3>2, Remainder
    <3> QED
      BY <2>2, <3>1, <3>2, <3>3
  <2>4. Cong(y, w, m) /\ Cong(o, 1, m) /\ Cong(b, b, m) /\ Cong(v, v, m)
    <3>1. Cong(y, w, m)
      BY <1>1, <2>2, <2>3, CongruentRemainder
    <3>2. 1 \in 0 .. (m - 1)
      BY <1>1
    <3>3. 1 % m = 1
      BY ONLY <1>1, <3>2, SmallRemainder
    <3> QED
      BY <2>1, <2>2, <3>1, <3>3 DEF Cong
  <2>5. Cong(b * y, b * w, m)
    BY <1>1, <2>3, <2>4, CongruentProduct
  <2>6. b * w = o * v
    BY <1>1, <2>2, <2>3
  <2>7. Cong(o * v, 1 * v, m)
    BY <1>1, <2>3, <2>4, 1 \in Int, CongruentProduct
  <2>8. 1 * v = v
    BY <2>3
  <2>9. Cong(b * y, v, m)
    BY ONLY <2>5, <2>6, <2>7, <2>8, CongruentOn
  <2>10. y # 0
    <3> SUFFICES ASSUME y = 0 PROVE FALSE
      OBVIOUS
    <3>1. b * y = 0 /\ 0 \in 0 .. (m - 1)
      BY <1>1
    <3>2. Cong(0, v, m)
      BY <2>9, <3>1
    <3>3. v = 0
      BY ONLY <1>1, <2>3, <3>1, <3>2, CongruentSmall
    <3> QED
      BY <3>3
  <2>11. z \in 0 .. (n - 1) /\ z \in Nat /\ z + 1 = y
    BY <1>1, <1>2, <2>2, <2>3, <2>10
  <2>12. F[z] \in 0 .. (m - 1) /\ Cong(F[z], b * y, m)
    BY <2>11
  <2>13. Cong(F[z], v, m)
    BY ONLY <2>9, <2>12, CongruentOn
  <2>14. F[z] = v
    BY ONLY <1>1, <2>3, <2>12, <2>13, CongruentSmall
  <2> QED
    BY <2>11, <2>14
<1>8. Permuted(F, n)
  BY <1>5, <1>6, <1>7 DEF Permuted
<1> QED
  BY <1>2, <1>8

\* Fermat's theorem.
LEMMA Fermat ==
  ASSUME NEW m, Prime(m), NEW b \in 1 .. (m - 1)
  PROVE  PowMod(b, m - 1, m) = 1
<1>1. m \in Nat \ {0, 1} /\ m \in Nat \ {0} /\ b \in Int
  <2>1. m \in Nat \ {0, 1}
    BY DEF Prime
  <2> QED
    BY <2>1
<1>2. PICK n, F : n = m - 1 /\ F = [k \in Nat |-> (b * (k + 1)) % m]
  OBVIOUS
<1>3. n \in Nat /\ n < m
  BY <1>1, <1>2
<1>4. ASSUME NEW k \in Nat PROVE F[k] \in 0 .. (m - 1) /\ Cong(F[k], b * (k + 1), m)
  <2>1. PICK l : l = b * (k + 1)
    OBVIOUS
  <2>2. l \in Int /\ F[k] = l % m
    BY <1>1, <1>2, <2>1
  <2>3. l % m \in 0 .. (m - 1) /\ Cong(l % m, l, m)
    BY <1>1, <2>2, Remainder, CongruentRemainder
  <2> QED
    BY <2>1, <2>2, <2>3
<1>5. F \in IntSequences
  BY <1>1, <1>2, <1>4 DEF IntSequences
<1>6. Factors(F, n) = Factors(Up, n)
  <2>1. Permuted(F, n)
    BY <1>2, <1>4, <1>5, MultiplesPermuted
  <2> QED
    BY <1>3, <1>5, <2>1, FactorsPermuted
<1>7. PICK u, p : u = Factors(Up, n) /\ p = PowMod(b, n, m)
  OBVIOUS
<1>8. u \in Int /\ p \in Int /\ p \in 0 .. (m - 1) /\ 1 \in 0 .. (m - 1) /\ 1 \in Int
  <2>1. u \in Int
    BY <1>3, <1>7, UpIs, FactorSteps
  <2>2. p \in 0 .. (m - 1)
    BY <1>1, <1>3, <1>7, PowSteps
  <2> QED
    BY <1>1, <2>1, <2>2
<1>9. u % m # 0
  BY <1>3, <1>7, FactorsNotZero
<1>10. Cong(u, p * u, m)
  BY <1>1, <1>3, <1>4, <1>5, <1>6, <1>7, FactorsScaled
<1>11. p * u = u * p /\ u = u * 1
  BY <1>8
<1>12. Cong(u * p, u * 1, m)
  BY <1>10, <1>11, CongruentBack
<1>13. Cong(p, 1, m)
  BY <1>8, <1>9, <1>12, Cancelled
<1>14. p = 1
  BY ONLY <1>1, <1>8, <1>13, CongruentSmall
<1> QED
  BY <1>2, <1>7, <1>14

-----------------------------------------------------------------------------
(***************************************************************************)
(* The powers of the keys and the compressed tag                           *)
(***************************************************************************)
\* The power that is not reduced.
LEMMA IntPowerTable ==
  ASSUME NEW b \in Nat, NEW n \in Nat
  PROVE  \E s \in [0 .. n -> Nat] :
           s[0] = 1 /\ s[n] = IntPower(b, n) /\ \A i \in 1 .. n : s[i] = s[i - 1] * b
<1>1. PICK W : W = [i \in 1 .. n |-> [v \in Nat |-> v * b]]
  OBVIOUS
<1>2. W \in StepsIn(n, Nat)
  <2>1. \A v \in Nat : v * b \in Nat
    OBVIOUS
  <2> QED
    BY <1>1, <2>1 DEF StepsIn
<1>3. n \in Nat /\ 1 \in Nat
  OBVIOUS
<1>4. PICK f : Recurs(f, n, Nat, 1, W)
  BY ONLY <1>2, <1>3, Recursive
<1>5. f \in [0 .. n -> Nat] /\ f[0] = 1 /\ \A i \in 1 .. n : f[i] = f[i - 1] * b
  <2>1. \A i \in 1 .. n : i - 1 \in 0 .. n
    OBVIOUS
  <2>2. f \in [0 .. n -> Nat] /\ f[0] = 1 /\ \A i \in 1 .. n : f[i] = W[i][f[i - 1]]
    BY <1>4 DEF Recurs
  <2> QED
    BY <1>1, <2>1, <2>2
<1>6. f = [i \in 0 .. n |-> IF i = 0 THEN 1 ELSE f[i - 1] * b]
  BY <1>5
<1> DEFINE pow[i \in 0 .. n] == IF i = 0 THEN 1 ELSE pow[i - 1] * b
<1>7. IntPower(b, n) = pow[n]
  BY Zenon DEF IntPower
<1>8. pow = [i \in 0 .. n |-> IF i = 0 THEN 1 ELSE pow[i - 1] * b]
  BY <1>6
<1>9. PICK s : /\ s = [i \in 0 .. n |-> IF i = 0 THEN 1 ELSE s[i - 1] * b]
               /\ IntPower(b, n) = s[n]
  BY <1>7, <1>8, Zenon
<1> HIDE DEF pow
<1>10. s[0] = 1 /\ \A i \in 1 .. n : s[i] = s[i - 1] * b
  BY <1>9
<1>11. \A i \in 0 .. n : f[i] = s[i]
  <2>1. n \in Nat /\ f[0] = s[0] /\ \A i \in 1 .. n : f[i - 1] = s[i - 1] => f[i] = s[i]
    BY <1>5, <1>10
  <2> QED
    BY ONLY <2>1, SameRecursion
<1> QED
  BY <1>5, <1>9, <1>10, <1>11

\* The plain power goes up by one factor.
LEMMA IntPowerSteps ==
  ASSUME NEW b \in Nat
  PROVE  /\ IntPower(b, 0) = 1
         /\ \A n \in Nat : IntPower(b, n) \in Nat /\ IntPower(b, n + 1) = IntPower(b, n) * b
<1>0. \A k \in Nat : \E s \in [0 .. k -> Nat] :
           s[0] = 1 /\ s[k] = IntPower(b, k) /\ \A i \in 1 .. k : s[i] = s[i - 1] * b
  BY IntPowerTable
<1>1. IntPower(b, 0) = 1
  BY <1>0
<1>2. ASSUME NEW n \in Nat
      PROVE  IntPower(b, n) \in Nat /\ IntPower(b, n + 1) = IntPower(b, n) * b
  <2>1. PICK s : /\ s \in [0 .. n -> Nat] /\ s[0] = 1 /\ s[n] = IntPower(b, n)
                 /\ \A i \in 1 .. n : s[i] = s[i - 1] * b
    BY <1>0
  <2>2. PICK m : m = n + 1
    OBVIOUS
  <2>3. m \in Nat
    BY <2>2
  <2>4. PICK t : /\ t \in [0 .. m -> Nat] /\ t[0] = 1 /\ t[m] = IntPower(b, m)
                 /\ \A i \in 1 .. m : t[i] = t[i - 1] * b
    BY <1>0, <2>3
  <2>5. n \in Nat /\ s[0] = t[0] /\ \A i \in 1 .. n : s[i - 1] = t[i - 1] => s[i] = t[i]
    BY <2>1, <2>2, <2>4
  <2>6. \A i \in 0 .. n : s[i] = t[i]
    BY ONLY <2>5, SameRecursion
  <2>7. t[m] = t[n] * b /\ s[n] = t[n]
    BY <2>2, <2>4, <2>6
  <2> QED
    BY <2>1, <2>2, <2>4, <2>7
<1> QED
  BY <1>1, <1>2

\* It is the reduced one, modulo n.
LEMMA IntPowerCongruent ==
  ASSUME NEW b \in Nat, NEW m \in Nat \ {0}, NEW n \in Nat
  PROVE  Cong(IntPower(b, n), PowMod(b, n, m), m)
<1>1. PICK T : T = {i \in Nat : Cong(IntPower(b, i), PowMod(b, i, m), m)}
  OBVIOUS
<1>2. 0 \in T
  <2>1. IntPower(b, 0) = 1
    BY IntPowerSteps
  <2>2. Cong(PowMod(b, 0, m), 1, m)
    BY b \in Int, PowCongruent
  <2> QED
    BY <1>1, <2>1, <2>2, CongruentBack
<1>3. ASSUME NEW i \in Nat, i \in T PROVE i + 1 \in T
  <2>1. PICK u, v, w : u = IntPower(b, i) /\ v = PowMod(b, i, m) /\ w = PowMod(b, i + 1, m)
    OBVIOUS
  <2>2. u \in Int /\ v \in Int /\ IntPower(b, i + 1) = u * b /\ Cong(w, v * b, m)
    <3>1. u \in Nat /\ IntPower(b, i + 1) = u * b
      BY <2>1, IntPowerSteps
    <3>2. v \in Nat /\ Cong(w, v * b, m)
      BY <2>1, b \in Int, PowCongruent
    <3> QED
      BY <3>1, <3>2
  <2>3. Cong(u, v, m) /\ Cong(b, b, m)
    BY <1>1, <1>3, <2>1, CongruentSame
  <2>4. Cong(u * b, v * b, m)
    BY <2>2, <2>3, b \in Int, CongruentProduct
  <2> QED
    BY <1>1, <2>1, <2>2, <2>4, CongruentBack, CongruentOn
<1>4. \A i \in Nat : i \in T
  BY <1>2, <1>3, AllNumbers
<1> QED
  BY <1>1, <1>4

\* Q is a prime.
LEMMA Safe == Prime(Q) /\ Q = 2 * P + 1 /\ Q \in Nat \ {0, 1}
<1>1. Q = 2 * P + 1 /\ Q \in Nat \ {0, 1}
  BY Modulus DEF Q
<1> QED
  BY <1>1, SchemeAssumption DEF Prime

\* The products of a compression, up to power n.
Compresses(s, n, t, powers) ==
  /\ s \in [0 .. n -> 0 .. (Q - 1)]
  /\ s[0] = 1 /\ s[n] = CompressOf(powers, t)
  /\ \A i \in 1 .. n : s[i] = (s[i - 1] * PowMod(powers[i], t[i], Q)) % Q

\* The recursion of _cf_compress_tag has values.
LEMMA CompressTable ==
  ASSUME NEW n, NEW t, IsTag(t, n), NEW powers, \A k \in 1 .. n : powers[k] \in Int
  PROVE  \E s : Compresses(s, n, t, powers)
<1>1. n \in Nat /\ Degree(t) = n /\ \A k \in 1 .. n : t[k] \in Nat
  BY DegreeIs DEF IsTag
<1>2. Q \in Nat \ {0} /\ 1 \in 0 .. (Q - 1)
  BY Safe
<1>3. PICK c, m : c = [k \in 1 .. n |-> PowMod(powers[k], t[k], Q)] /\ m = Q
  OBVIOUS
<1>4. \A k \in 1 .. n : c[k] \in Int
  <2> SUFFICES ASSUME NEW k \in 1 .. n PROVE c[k] \in Int
    OBVIOUS
  <2>1. PowMod(powers[k], t[k], Q) \in 0 .. (Q - 1)
    BY <1>1, <1>2, PowSteps
  <2> QED
    BY <1>2, <1>3, <2>1
<1>5. PICK R, W : R = 0 .. (m - 1) /\ W = [i \in 1 .. n |-> [v \in R |-> (v * c[i]) % m]]
  OBVIOUS
<1>6. W \in StepsIn(n, R)
  <2>1. ASSUME NEW i \in 1 .. n, NEW v \in R PROVE (v * c[i]) % m \in R
    <3>1. PICK w : w = v * c[i]
      OBVIOUS
    <3>2. v \in Int
      BY <1>2, <1>3, <1>5
    <3>3. w \in Int
      BY <1>4, <3>1, <3>2
    <3>4. w % m \in 0 .. (m - 1)
      BY <1>2, <1>3, <3>3, Remainder
    <3> QED
      BY <1>5, <3>1, <3>4
  <2> QED
    BY <1>5, <2>1 DEF StepsIn
<1>7. n \in Nat /\ 1 \in R
  BY <1>1, <1>2, <1>3, <1>5
<1>8. PICK f : Recurs(f, n, R, 1, W)
  BY ONLY <1>6, <1>7, Recursive
<1>9. f \in [0 .. n -> R] /\ f[0] = 1 /\ \A i \in 1 .. n : f[i] = (f[i - 1] * c[i]) % m
  <2>1. \A i \in 1 .. n : i - 1 \in 0 .. n
    BY <1>1
  <2>2. f \in [0 .. n -> R] /\ f[0] = 1 /\ \A i \in 1 .. n : f[i] = W[i][f[i - 1]]
    BY <1>8 DEF Recurs
  <2>3. \A i \in 1 .. n : f[i - 1] \in R /\ W[i] = [v \in R |-> (v * c[i]) % m]
    BY <1>5, <2>1, <2>2
  <2>4. ASSUME NEW i \in 1 .. n PROVE f[i] = (f[i - 1] * c[i]) % m
    BY <2>2, <2>3
  <2> QED
    BY <2>2, <2>4
<1>10. \A i \in 1 .. n : f[i] = (f[i - 1] * PowMod(powers[i], t[i], Q)) % Q
  BY <1>3, <1>9
<1>11. f = [k \in 0 .. Degree(t) |->
             IF k = 0 THEN 1 ELSE (f[k - 1] * PowMod(powers[k], t[k], Q)) % Q]
  BY <1>1, <1>9, <1>10
<1> DEFINE product[k \in 0 .. Degree(t)] ==
             IF k = 0 THEN 1 ELSE (product[k - 1] * PowMod(powers[k], t[k], Q)) % Q
<1>12. CompressOf(powers, t) = product[Degree(t)]
  BY Zenon DEF CompressOf
<1>13. product = [k \in 0 .. Degree(t) |->
             IF k = 0 THEN 1 ELSE (product[k - 1] * PowMod(powers[k], t[k], Q)) % Q]
  BY <1>11, Zenon
<1>14. PICK s : /\ s = [k \in 0 .. Degree(t) |->
                         IF k = 0 THEN 1 ELSE (s[k - 1] * PowMod(powers[k], t[k], Q)) % Q]
                /\ CompressOf(powers, t) = s[Degree(t)]
  BY <1>12, <1>13, Zenon
<1> HIDE DEF product
<1>15. s[0] = 1 /\ \A i \in 1 .. n : s[i] = (s[i - 1] * PowMod(powers[i], t[i], Q)) % Q
  BY <1>1, <1>14
<1>16. \A i \in 0 .. n : f[i] = s[i]
  <2>1. n \in Nat /\ f[0] = s[0] /\ \A i \in 1 .. n : f[i - 1] = s[i - 1] => f[i] = s[i]
    BY <1>1, <1>9, <1>10, <1>15
  <2> QED
    BY ONLY <2>1, SameRecursion
<1>17. f[n] = CompressOf(powers, t)
  BY <1>1, <1>14, <1>16
<1> QED
  BY <1>3, <1>5, <1>9, <1>10, <1>17 DEF Compresses

\* The generator to the first coefficient, times the compressed tag, is the generator to
\* the value of the tag at the key.
LEMMA CompressedIs ==
  ASSUME NEW n, NEW t, IsTag(t, n), NEW z \in 0 .. (P - 1), NEW b \in 0 .. (Q - 1),
         PowMod(b, P, Q) = 1, NEW bound \in Nat, n <= bound,
         NEW powers, powers = [i \in 1 .. bound |-> Power(b, z, i)],
         NEW w \in Nat, Cong(rho(t, z), w, P)
  PROVE  /\ CompressOf(powers, t) \in 0 .. (Q - 1)
         /\ Cong(PowMod(b, t[0], Q) * CompressOf(powers, t), PowMod(b, w, Q), Q)
<1>1. /\ Q \in Nat \ {0, 1} /\ Q \in Nat \ {0} /\ P \in Nat \ {0} /\ n \in Nat
      /\ z \in Nat /\ z \in Int /\ b \in Nat /\ b \in Int
  BY Safe, Modulus DEF IsTag
<1>2. PICK C, S, X : /\ C = Coef(t) /\ S = [k \in Nat |-> IntPower(z, k) * C[k]]
                     /\ X = Terms(C, z)
  OBVIOUS
<1>3. /\ C \in IntSequences /\ X \in IntSequences
      /\ \A k \in 0 .. n : C[k] = t[k] /\ t[k] \in Nat
      /\ \A k \in Nat : C[k] \in Nat
  <2>1. /\ C \in IntSequences /\ \A k \in 0 .. n : C[k] = t[k] /\ t[k] \in Nat
        /\ \A k \in Nat : k > n => C[k] = 0
    BY <1>2, CoefIs
  <2>2. \A k \in Nat : k \in 0 .. n \/ k > n
    BY <1>1
  <2>3. X \in IntSequences
    BY <1>1, <1>2, <2>1, TermsAre
  <2> QED
    BY <2>1, <2>2, <2>3
<1>4. ASSUME NEW k \in Nat
      PROVE  /\ IntPower(z, k) \in Nat /\ S[k] = IntPower(z, k) * C[k] /\ S[k] \in Nat
             /\ Cong(S[k], X[k], P)
  <2>1. PICK p, q, c : p = IntPower(z, k) /\ q = PowMod(z, k, P) /\ c = C[k]
    OBVIOUS
  <2>2. p \in Nat /\ c \in Nat /\ q \in Nat
    BY <1>1, <1>3, <2>1, IntPowerSteps, PowCongruent
  <2>3. S[k] = p * c /\ X[k] = q * c /\ p * c \in Nat
    BY <1>2, <2>1, <2>2 DEF Terms
  <2>4. Cong(p, q, P) /\ Cong(c, c, P)
    BY <1>1, <2>1, IntPowerCongruent, CongruentSame
  <2>5. Cong(p * c, q * c, P)
    BY <1>1, <2>2, <2>4, p \in Int, q \in Int, c \in Int, CongruentProduct
  <2> QED
    BY <2>1, <2>2, <2>3, <2>5
<1>5. S \in IntSequences
  <2>1. \A k \in Nat : S[k] \in Int
    <3> TAKE k \in Nat
    <3>1. S[k] \in Nat
      BY <1>4
    <3> QED
      BY <3>1
  <2>2. S = [k \in Nat |-> S[k]]
    BY <1>2
  <2> QED
    BY ONLY <2>1, <2>2 DEF IntSequences
<1>6. \A k \in 1 .. n : powers[k] = PowMod(b, IntPower(z, k), Q) /\ powers[k] \in Int
  <2> SUFFICES ASSUME NEW k \in 1 .. n
               PROVE  powers[k] = PowMod(b, IntPower(z, k), Q) /\ powers[k] \in Int
    OBVIOUS
  <2>1. k \in 1 .. bound /\ k \in Nat
    BY <1>1
  <2>2. powers[k] = PowMod(b, IntPower(z, k), Q)
    BY <2>1 DEF Power
  <2>3. PowMod(b, IntPower(z, k), Q) \in Nat
    BY <1>1, <1>4, <2>1, PowCongruent
  <2> QED
    BY <2>2, <2>3
<1>0. PICK s : Compresses(s, n, t, powers)
  <2>1. \A k \in 1 .. n : powers[k] \in Int
    BY <1>6
  <2> QED
    BY ONLY <2>1, IsTag(t, n), CompressTable
<1>7. /\ s \in [0 .. n -> 0 .. (Q - 1)]
      /\ s[0] = 1 /\ s[n] = CompressOf(powers, t)
      /\ \A i \in 1 .. n : s[i] = (s[i - 1] * PowMod(powers[i], t[i], Q)) % Q
  BY <1>0 DEF Compresses
<1>8. PICK a, T : /\ a = PowMod(b, t[0], Q)
                  /\ T = {i \in 0 .. n : /\ Sum(S, i + 1) \in Nat
                                         /\ Cong(a * s[i], PowMod(b, Sum(S, i + 1), Q), Q)}
  OBVIOUS
<1>9. a \in Int /\ t[0] \in Nat /\ 0 \in 0 .. n
  <2>1. t[0] \in Nat /\ 0 \in 0 .. n
    BY <1>1, <1>3
  <2>2. a \in Nat
    BY <1>1, <1>8, <2>1, PowCongruent
  <2> QED
    BY <2>1, <2>2
<1>10. 0 \in T
  <2>1. Sum(S, 0) = 0 /\ Sum(S, 0 + 1) = Sum(S, 0) + S[0]
    BY <1>5, SumSteps
  <2>2. S[0] = 1 * C[0] /\ C[0] = t[0]
    BY <1>1, <1>3, <1>4, <1>9, IntPowerSteps
  <2>3. Sum(S, 0 + 1) = t[0]
    BY <1>9, <2>1, <2>2
  <2>4. a * s[0] = a
    BY <1>7, <1>9
  <2> QED
    BY <1>8, <1>9, <2>3, <2>4, CongruentSame
<1>11. ASSUME NEW i \in 1 .. n, i - 1 \in T PROVE i \in T
  <2>1. PICK j, e, c, f, v, u, p, q :
          /\ j = i - 1 /\ e = Sum(S, i) /\ c = S[i] /\ f = s[j] /\ v = PowMod(powers[i], t[i], Q)
          /\ u = PowMod(b, e, Q) /\ p = PowMod(b, e + c, Q) /\ q = s[i]
    OBVIOUS
  <2>2. /\ i \in Nat /\ i \in 0 .. n /\ j \in 0 .. n /\ j + 1 = i /\ t[i] \in Nat /\ C[i] = t[i]
    BY <1>1, <1>3, <2>1
  <2>3. /\ e \in Nat /\ Cong(a * f, u, Q)
    BY <1>8, <1>11, <2>1, <2>2
  <2>4. c \in Nat /\ Sum(S, i + 1) = e + c
    BY <1>4, <1>5, <2>1, <2>2, SumSteps
  <2>5. v = PowMod(b, c, Q)
    <3>1. PICK k : k = IntPower(z, i)
      OBVIOUS
    <3>2. k \in Nat /\ powers[i] = PowMod(b, k, Q) /\ c = k * t[i]
      BY <1>4, <1>6, <2>1, <2>2, <3>1
    <3>3. PowMod(PowMod(b, k, Q), t[i], Q) = PowMod(b, k * t[i], Q)
      <4>1. k \in Nat
        BY <3>2
      <4> QED
        <5>1. PICK m, o : m = Q /\ o = t[i] /\ m \in Nat \ {0} /\ o \in Nat
          BY <1>1, <2>2
        <5>2. PowMod(PowMod(b, k, m), o, m) = PowMod(b, k * o, m)
          <6>1. b \in Int /\ k \in Nat /\ m \in Nat \ {0} /\ o \in Nat
            BY <1>1, <4>1, <5>1
          <6> QED
            BY ONLY <6>1, PowOfPow
        <5> QED
          BY ONLY <5>1, <5>2
    <3> QED
      BY <2>1, <3>2, <3>3
  <2>6. /\ u \in Int /\ v \in Int /\ f \in Int /\ p \in Int
    <3>1. u \in Nat /\ v \in Nat /\ p \in Nat
      <4>1. e + c \in Nat
        BY <2>3, <2>4
      <4> QED
        BY <1>1, <2>1, <2>3, <2>4, <2>5, <4>1, PowCongruent
    <3>2. f \in 0 .. (Q - 1)
      BY <1>7, <2>1, <2>2
    <3> QED
      BY <1>1, <3>1, <3>2
  <2>7. Cong(p, u * v, Q)
    BY <1>1, <2>1, <2>3, <2>4, <2>5, PowSum
  <2>8. PICK l, y : l = f * v /\ y = a * f
    OBVIOUS
  <2>9. l \in Int /\ y \in Int /\ q = l % Q
    <3>1. l \in Int /\ y \in Int
      BY ONLY <1>9, <2>6, <2>8
    <3>2. s[i] = (s[j] * v) % Q
      BY <1>7, <2>1
    <3> QED
      BY <2>1, <2>8, <3>1, <3>2
  <2>10. q \in 0 .. (Q - 1) /\ q \in Int /\ Cong(q, l, Q)
    <3>1. l % Q \in 0 .. (Q - 1) /\ Cong(l % Q, l, Q)
      BY <1>1, <2>9, Remainder, CongruentRemainder
    <3> QED
      BY <1>1, <2>9, <3>1
  <2>11. Cong(a * q, a * l, Q)
    BY <1>1, <1>9, <2>9, <2>10, CongruentSame, CongruentProduct
  <2>12. a * l = y * v
    BY <1>9, <2>6, <2>8
  <2>13. Cong(y, u, Q) /\ Cong(v, v, Q)
    BY <2>3, <2>8, CongruentSame
  <2>14. Cong(y * v, u * v, Q)
    BY ONLY <1>1, <2>6, <2>9, <2>13, CongruentProduct
  <2>15. Cong(a * q, p, Q)
    BY ONLY <2>7, <2>11, <2>12, <2>14, CongruentBack, CongruentOn
  <2>16. e + c \in Nat
    BY <2>3, <2>4
  <2> QED
    BY <1>8, <2>1, <2>2, <2>4, <2>15, <2>16
<1>12. n \in T
  <2>1. n \in Nat /\ 0 \in T /\ \A i \in 1 .. n : i - 1 \in T => i \in T
    BY <1>1, <1>10, <1>11
  <2>2. \A i \in 0 .. n : i \in T
    BY ONLY <2>1, UpTo
  <2> QED
    BY <1>1, <2>2
<1>13. PICK l, e : l = n + 1 /\ e = Sum(S, l)
  OBVIOUS
<1>14. /\ l \in Nat /\ l > n /\ e \in Nat /\ Cong(a * CompressOf(powers, t), PowMod(b, e, Q), Q)
  BY <1>1, <1>7, <1>8, <1>12, <1>13
<1>15. Cong(e, w, P)
  <2>1. Cong(Sum(S, l), Sum(X, l), P)
    <3>1. \A k \in 0 .. (l - 1) : Cong(S[k], X[k], P)
      BY <1>4
    <3> QED
      BY ONLY <1>1, <1>3, <1>5, <1>14, <3>1, SumCongruent
  <2>2. Cong(rho(t, z), PolyAt(C, z, l), P)
    BY <1>1, <1>2, <1>14, RhoPoly
  <2>3. PolyAt(C, z, l) = Sum(X, l)
    BY <1>2 DEF PolyAt
  <2> QED
    <3> HIDE DEF rho
    <3> QED
      BY ONLY <1>13, <2>1, <2>2, <2>3, Cong(rho(t, z), w, P), CongruentBack, CongruentOn
<1>16. PowMod(b, e, Q) = PowMod(b, w, Q)
  BY ONLY <1>1, <1>14, <1>15, PowMod(b, P, Q) = 1, w \in Nat, PowPeriod
<1> QED
  BY <1>1, <1>7, <1>8, <1>14, <1>16

-----------------------------------------------------------------------------
(***************************************************************************)
(* Verification                                                            *)
(***************************************************************************)
\* A square generates a group of P elements.
LEMMA GeneratorIs ==
  ASSUME NEW t \in 3 .. (Q - 1), NEW b, b = PowMod(t, 2, Q)
  PROVE  b \in 0 .. (Q - 1) /\ PowMod(b, P, Q) = 1
<1>1. PICK m : m = Q
  OBVIOUS
<1>2. /\ Prime(m) /\ m \in Nat \ {0} /\ m - 1 = 2 * P /\ P \in Nat /\ 2 \in Nat
      /\ t \in 1 .. (m - 1) /\ t \in Int
  BY <1>1, Safe, Modulus
<1>3. PowMod(t, m - 1, m) = 1
  BY <1>2, Fermat
<1>4. PowMod(PowMod(t, 2, m), P, m) = PowMod(t, 2 * P, m)
  BY ONLY <1>2, PowOfPow
<1>5. b \in 0 .. (m - 1)
  BY <1>1, <1>2, PowSteps
<1> QED
  BY <1>1, <1>2, <1>3, <1>4, <1>5

\* What the verifier of CF_2 compares is equal for the first coefficient of the tag, and
\* for nothing that differs from it modulo P.
LEMMA ComparedIs ==
  ASSUME NEW n, NEW t, IsTag(t, n), NEW z \in 0 .. (P - 1), NEW b \in 0 .. (Q - 1), b # 1,
         PowMod(b, P, Q) = 1, NEW bound \in Nat, n <= bound,
         NEW powers, powers = [i \in 1 .. bound |-> Power(b, z, i)],
         NEW w \in Nat, Cong(rho(t, z), w, P), NEW m \in Nat
  PROVE  PowMod(b, w, Q) = (PowMod(b, m, Q) * CompressOf(powers, t)) % Q <=> Cong(m, t[0], P)
<1>1. PICK q, e, u, v, s, y, l :
        /\ q = Q /\ e = t[0] /\ u = PowMod(b, w, q) /\ v = PowMod(b, m, q)
        /\ s = PowMod(b, e, q) /\ y = CompressOf(powers, t) /\ l = v * y
  OBVIOUS
<1>2. /\ q \in Nat \ {0, 1} /\ q \in Nat \ {0} /\ Prime(q) /\ P \in Nat \ {0} /\ Prime(P)
      /\ b \in Int /\ b \in 0 .. (q - 1) /\ e \in Nat
  <2>1. Prime(P)
    BY PrimeAssumption DEF Prime
  <2>2. e \in Nat
    BY <1>1 DEF IsTag
  <2> QED
    BY <1>1, <2>1, <2>2, Safe, Modulus
<1>3. y \in 0 .. (q - 1) /\ Cong(s * y, u, q)
  BY <1>1, CompressedIs
<1>4. /\ u \in 0 .. (q - 1) /\ v \in 0 .. (q - 1) /\ s \in 0 .. (q - 1)
      /\ u \in Int /\ v \in Int /\ s \in Int /\ y \in Int /\ l \in Int
  <2>1. u \in 0 .. (q - 1) /\ v \in 0 .. (q - 1) /\ s \in 0 .. (q - 1)
    BY <1>1, <1>2, PowSteps
  <2>2. u \in Int /\ v \in Int /\ s \in Int /\ y \in Int
    BY <1>2, <1>3, <2>1
  <2> QED
    BY <1>1, <2>1, <2>2
<1>5. ASSUME Cong(m, e, P) PROVE u = l % q
  <2>1. v = s
    BY ONLY <1>1, <1>2, <1>5, m \in Nat, PowMod(b, P, Q) = 1, PowPeriod
  <2>2. Cong(l, u, q)
    BY <1>1, <1>3, <2>1
  <2>3. u % q = u
    BY ONLY <1>2, <1>4, SmallRemainder
  <2> QED
    BY <2>2, <2>3 DEF Cong
<1>6. ASSUME u = l % q PROVE Cong(m, e, P)
  <2>1. Cong(u, l, q)
    BY <1>2, <1>4, <1>6, CongruentRemainder
  <2>2. y % q # 0
    <3> SUFFICES ASSUME y % q = 0 PROVE FALSE
      OBVIOUS
    <3>1. 0 % q = 0 /\ 0 \in Int /\ v * 0 = 0
      BY <1>2, <1>4
    <3>2. Cong(y, 0, q) /\ Cong(v, v, q)
      BY <3>1 DEF Cong
    <3>3. Cong(v * y, v * 0, q)
      BY <1>2, <1>4, <3>1, <3>2, CongruentProduct
    <3>4. Cong(u, 0, q)
      BY ONLY <1>1, <2>1, <3>1, <3>3, CongruentOn
    <3>5. u % q # 0
      BY ONLY <1>1, <1>2, w \in Nat, PowMod(b, P, Q) = 1, PowNotZero
    <3> QED
      BY <3>1, <3>4, <3>5 DEF Cong
  <2>3. y * v = l /\ y * s = s * y
    BY <1>1, <1>4
  <2>4. Cong(y * v, y * s, q)
    BY ONLY <1>3, <2>1, <2>3, CongruentBack, CongruentOn
  <2>5. Cong(v, s, q)
    BY ONLY <1>2, <1>4, <2>2, <2>4, Cancelled
  <2>6. v = s
    BY ONLY <1>2, <1>4, <2>5, CongruentSmall
  <2> QED
    BY ONLY <1>1, <1>2, <2>6, m \in Nat, b # 1, PowMod(b, P, Q) = 1, PowSame
<1> QED
  BY <1>1, <1>5, <1>6

\* The output of an evaluation: its first coefficient is the evaluated message and its value
\* at the key the evaluated mask.
LEMMA OutputIs ==
  ASSUME NEW c \in Circuits, NEW fft \in BOOLEAN, NEW ts, NEW rs, NEW ms, NEW y \in 0 .. (P - 1),
         Authenticated(c, ts, rs, ms, y), Cardinality(DOMAIN ts) \notin 0 .. (c.n_inputs - 1),
         NEW out, out = TagsOf(c, fft, ts)[OutputGate(c)], out # ABORT
  PROVE  /\ \E n : IsTag(out, n)
         /\ Numbers(c, ms)[OutputGate(c)] \in 0 .. (P - 1)
         /\ Numbers(c, rs)[OutputGate(c)] \in 0 .. (P - 1)
         /\ out[0] = Numbers(c, ms)[OutputGate(c)]
         /\ rho(out, y) = Numbers(c, rs)[OutputGate(c)]
<1>1. PICK q, v, w, s, u, o : /\ q = OutputGate(c) /\ v = TagsOf(c, fft, ts)
                              /\ w = Numbers(c, rs)[q] /\ s = Numbers(c, ms)[q]
                              /\ u = rho(out, y) /\ o = out[0]
  OBVIOUS
<1>2. q \in Gates(c) /\ out = v[q] /\ v[q] # ABORT
  BY <1>1, CircuitIs
<1>3. /\ InputTags(c, ts)
      /\ \A i \in 0 .. (c.n_inputs - 1) : ms[i] \in 0 .. P /\ rs[i] \in 0 .. (P - 1)
  BY AllInputs
<1>4. /\ \A i \in 0 .. (c.n_inputs - 1) : ms[i] \in Int
      /\ \A i \in 0 .. (c.n_inputs - 1) : rs[i] \in Int
  BY <1>3, Modulus
<1>5. w \in 0 .. (P - 1) /\ s \in 0 .. (P - 1)
  BY <1>1, <1>4, OutputReduced
<1>6. o \in 0 .. (P - 1)
  BY <1>1, <1>2, <1>3, OutputReduced
<1>7. /\ \E n : IsTag(out, n) /\ u \in 0 .. (P - 1)
      /\ Cong(u, w, P) /\ Cong(o, s, P)
  BY <1>1, <1>2, GateValues
<1>8. u = w /\ o = s
  BY ONLY <1>5, <1>6, <1>7, Modulus, CongruentSmall
<1> QED
  BY <1>1, <1>5, <1>7, <1>8

\* What is known of a result: of the output, its mask and message, and of the powers a
\* compressed one was made with.
Delivered(out, mask, truth) ==
  /\ out = TagsOf(circ, use_fft, tags)[OutputGate(circ)]
  /\ mask = rho_eval /\ truth = TrueMessage
  /\ mask = Numbers(circ, r)[OutputGate(circ)]
  /\ truth = Numbers(circ, messages)[OutputGate(circ)]
  /\ \E n : IsTag(out, n) /\ (compact => n <= d) /\ (~ use_fft => n >= 1)
  /\ mask \in 0 .. (P - 1) /\ truth \in 0 .. (P - 1)
  /\ out[0] = truth /\ rho(out, x) = mask
  /\ result = IF compact THEN [k \in {0} |-> CompressOf(h, out)] ELSE out
  /\ compact => /\ g # 1 /\ h = [i \in 1 .. d |-> Power(g, x, i)]
                /\ \E t \in 3 .. (Q - 1) : g = PowMod(t, 2, Q)

\* And when its verification is over.
Verified(out, mask, truth) ==
  /\ Delivered(out, mask, truth)
  /\ verdict = VerdictOf(circ, r, g, x, result, claim)
  /\ claim \in 0 .. (P + 1)

\* The invariant says all of that once there is a result.
LEMMA DeliveredIs ==
  ASSUME SessionInv, AllAuthenticated, ResultIs(circ, use_fft, tags, h, d, result, compact)
  PROVE  \E out, mask, truth : Delivered(out, mask, truth)
<1>1. /\ circ \in Circuits /\ use_fft \in BOOLEAN /\ x \in 0 .. (P - 1) /\ d \in Nat
      /\ Authenticated(circ, tags, r, messages, x)
      /\ Cardinality(DOMAIN tags) \notin 0 .. (circ.n_inputs - 1)
      /\ ResultIs(circ, use_fft, tags, h, d, result, compact)
      /\ KeyIs(x, g, h, d)
  BY DEF SessionInv, AllAuthenticated
<1>2. PICK out, mask, truth : /\ out = TagsOf(circ, use_fft, tags)[OutputGate(circ)]
                              /\ mask = Numbers(circ, r)[OutputGate(circ)]
                              /\ truth = Numbers(circ, messages)[OutputGate(circ)]
  OBVIOUS
<1>3. /\ out # ABORT
      /\ compact => h # <<>> /\ Degree(out) <= d
      /\ result = IF compact THEN [k \in {0} |-> CompressOf(h, out)] ELSE out
  BY <1>1, <1>2, Zenon DEF ResultIs
<1>4. /\ \E n : IsTag(out, n)
      /\ truth \in 0 .. (P - 1) /\ mask \in 0 .. (P - 1)
      /\ out[0] = truth /\ rho(out, x) = mask
  BY <1>1, <1>2, <1>3, OutputIs
<1>5. \E n : IsTag(out, n) /\ (compact => n <= d) /\ (~ use_fft => n >= 1)
  <2>1. InputTags(circ, tags)
    BY <1>1, AllInputs
  <2>2. PICK n \in 0 .. DegreeOf(circ) : IsTag(out, n) /\ (~ use_fft => n = DegreeOf(circ))
    BY <1>1, <1>2, <1>3, <2>1, EvaluatedDegrees
  <2>3. DegreeOf(circ) >= 1
    BY <1>1, DegreePositive
  <2> QED
    BY <1>3, <2>2, <2>3, DegreeIs
<1>6. mask = rho_eval /\ truth = TrueMessage
  BY <1>2, MessageValuesAre, Zenon DEF rho_eval, TrueMessage
<1>7. compact => /\ g # 1 /\ h = [i \in 1 .. d |-> Power(g, x, i)]
                 /\ \E t \in 3 .. (Q - 1) : g = PowMod(t, 2, Q)
  BY <1>1, <1>3 DEF KeyIs
<1> QED
  <2> HIDE DEF rho, rho_eval, TrueMessage
  <2> QED
    BY <1>2, <1>3, <1>4, <1>5, <1>6, <1>7 DEF Delivered

\* And when a verification is over.
LEMMA VerifiedIs ==
  ASSUME SessionInv, pc = "verified"
  PROVE  \E out, mask, truth : Verified(out, mask, truth)
<1>1. /\ AllAuthenticated /\ ResultIs(circ, use_fft, tags, h, d, result, compact)
      /\ claim \in Claims /\ verdict = VerdictOf(circ, r, g, x, result, claim)
  BY DEF SessionInv
<1>2. PICK out, mask, truth : Delivered(out, mask, truth)
  BY <1>1, DeliveredIs
<1>3. claim \in 0 .. (P + 1)
  BY <1>1, SchemeAssumption
<1> QED
  BY <1>1, <1>2, <1>3 DEF Verified

\* A key without g compresses nothing: the generator is no zero.
LEMMA NoGeneratorNoPowers ==
  ASSUME NEW out, NEW mask, NEW truth, Delivered(out, mask, truth), g = 0
  PROVE  ~ compact
<1>1. SUFFICES ASSUME compact PROVE FALSE
  OBVIOUS
<1>2. PICK t \in 3 .. (Q - 1) : g = PowMod(t, 2, Q)
  BY <1>1 DEF Delivered
<1>3. PowMod(g, P, Q) = 1
  BY <1>2, GeneratorIs
<1>4. PICK q, k : q = Q /\ k = P - 1
  OBVIOUS
<1>5. q \in Nat \ {0, 1} /\ k \in Nat /\ k + 1 = P /\ 0 \in Int
  BY <1>4, Safe, Modulus
<1>6. PICK v : v = PowMod(0, k, q)
  OBVIOUS
<1>7. v \in 0 .. (q - 1) /\ PowMod(0, k + 1, q) = (v * 0) % q
  BY <1>5, <1>6, PowSteps
<1>8. v * 0 = 0 /\ 0 % q = 0
  BY <1>5, <1>7
<1> QED
  BY <1>3, <1>4, <1>5, <1>7, <1>8

\* An uncompressed result of degree 0 comes from the FFT, and is the mask and the message.
LEMMA DegreeLost ==
  ASSUME SessionInv, NEW out, NEW mask, NEW truth, Delivered(out, mask, truth), ~ compact,
         Degree(result) = 0
  PROVE  LostDegree /\ result[0] = truth
<1>1. PICK n : IsTag(out, n) /\ (~ use_fft => n >= 1)
  BY DEF Delivered
<1>2. /\ result = out /\ out[0] = truth /\ rho(out, x) = mask
      /\ mask \in 0 .. (P - 1) /\ truth \in 0 .. (P - 1)
      /\ mask = rho_eval /\ truth = TrueMessage
  <2> HIDE DEF rho, rho_eval, TrueMessage
  <2> QED
    BY DEF Delivered
<1>3. n = 0
  BY <1>1, <1>2, DegreeIs
<1>4. x \in Int /\ use_fft \in BOOLEAN
  BY Modulus DEF SessionInv
<1>5. Cong(mask, truth, P)
  <2>1. Cong(rho(out, x), out[0], P)
    BY <1>1, <1>3, <1>4, RhoOfConstant
  <2> HIDE DEF rho, rho_eval, TrueMessage
  <2> QED
    BY <1>2, <2>1
<1>6. mask = truth
  <2> HIDE DEF rho, rho_eval, TrueMessage
  <2> QED
    BY <1>2, <1>5, Modulus, CongruentSmall
<1> QED
  <2> HIDE DEF rho, rho_eval, TrueMessage
  <2> QED
    BY <1>1, <1>2, <1>3, <1>4, <1>6, Degree(result) = 0 DEF LostDegree

\* What the verifier says.
LEMMA SaysOfCompressed ==
  ASSUME SessionInv, NEW out, NEW mask, NEW truth, Verified(out, mask, truth), compact
  PROVE  /\ claim <= P => (verdict = "E_VRFY" <=> Cong(claim, truth, P))
         /\ claim > P => verdict = "E_INVAL_MSG"
<1>1. PICK n : IsTag(out, n) /\ n <= d
  BY DEF Verified, Delivered
<1>2. PICK t \in 3 .. (Q - 1) : g = PowMod(t, 2, Q)
  BY DEF Verified, Delivered
<1>3. /\ out[0] = truth /\ rho(out, x) = mask /\ mask \in 0 .. (P - 1) /\ g # 1
      /\ h = [i \in 1 .. d |-> Power(g, x, i)] /\ result = [k \in {0} |-> CompressOf(h, out)]
      /\ claim \in 0 .. (P + 1) /\ mask = Numbers(circ, r)[OutputGate(circ)]
      /\ verdict = VerdictOf(circ, r, g, x, result, claim)
  BY DEF Verified, Delivered
<1>4. g \in 0 .. (Q - 1) /\ PowMod(g, P, Q) = 1
  BY <1>2, GeneratorIs
<1>5. x \in 0 .. (P - 1) /\ d \in Nat /\ P \in Nat /\ mask \in Nat /\ claim \in Nat
  BY <1>3, Modulus DEF SessionInv
<1>6. Cong(rho(out, x), mask, P)
  BY <1>3, CongruentSame
<1>7. PowMod(g, mask, Q) = (PowMod(g, claim, Q) * CompressOf(h, out)) % Q <=> Cong(claim, out[0], P)
  <2> HIDE DEF rho
  <2> QED
    BY ONLY <1>1, <1>3, <1>4, <1>5, <1>6, ComparedIs
<1>8. claim > P => verdict = "E_INVAL_MSG"
  BY <1>3, Zenon DEF VerdictOf
<1>9. ASSUME claim <= P PROVE verdict = "E_VRFY" <=> Cong(claim, truth, P)
  <2>1. ~ (claim > P)
    BY <1>5, <1>9
  <2>2. Degree(result) = 0 /\ result[0] = CompressOf(h, out)
    <3>1. DOMAIN result = {0} /\ result[0] = CompressOf(h, out)
      BY <1>3
    <3>2. Cardinality({0}) = 1
      BY FS_Singleton
    <3> QED
      BY <3>1, <3>2 DEF Degree
  <2>3. verdict = IF PowMod(g, mask, Q) = (PowMod(g, claim, Q) * CompressOf(h, out)) % Q
                  THEN "E_VRFY" ELSE "E_NO_VRFY"
    BY <1>3, <2>1, <2>2, Zenon DEF VerdictOf
  <2> QED
    BY <1>3, <1>7, <2>3
<1> QED
  BY <1>8, <1>9

\* What the verification of an evaluation that is not compressed says.
LEMMA SaysOfTag ==
  ASSUME SessionInv, NEW out, NEW mask, NEW truth, Verified(out, mask, truth), ~ compact,
         Degree(result) # 0
  PROVE  /\ claim <= P => (verdict = "E_VRFY" <=> claim = truth)
         /\ claim > P => verdict = "E_INVAL_MSG"
         /\ result[0] = truth
<1>1. /\ out[0] = truth /\ rho(out, x) = mask /\ result = out
      /\ claim \in 0 .. (P + 1) /\ mask = Numbers(circ, r)[OutputGate(circ)]
      /\ verdict = VerdictOf(circ, r, g, x, result, claim)
  BY DEF Verified, Delivered
<1>2. claim > P => verdict = "E_INVAL_MSG"
  BY <1>1, Zenon DEF VerdictOf
<1>3. ASSUME claim <= P PROVE verdict = "E_VRFY" <=> claim = truth
  <2>1. ~ (claim > P)
    BY <1>1, <1>3, Modulus
  <2>2. result[0] = truth /\ rho(result, x) = mask
    BY <1>1
  <2>3. verdict = IF truth = claim /\ mask = mask THEN "E_VRFY" ELSE "E_NOERR"
    <3> HIDE DEF rho
    <3> QED
      BY <1>1, <2>1, <2>2, Zenon DEF VerdictOf
  <2> QED
    BY <2>3
<1> QED
  BY <1>1, <1>2, <1>3

\* What it says of one that lost its degree.
LEMMA SaysOfLostDegree ==
  ASSUME SessionInv, NEW out, NEW mask, NEW truth, Verified(out, mask, truth), ~ compact,
         Degree(result) = 0
  PROVE  /\ LostDegree /\ claim \in Nat
         /\ claim <= P => (verdict = "E_VRFY" <=>
                             PowMod(g, truth, Q) = (PowMod(g, claim, Q) * truth) % Q)
         /\ claim > P => verdict = "E_INVAL_MSG"
<1>1. Delivered(out, mask, truth)
  BY DEF Verified
<1>2. LostDegree /\ result[0] = truth
  BY <1>1, DegreeLost
<1>3. /\ mask = Numbers(circ, r)[OutputGate(circ)] /\ mask = rho_eval /\ truth = TrueMessage
      /\ claim \in 0 .. (P + 1) /\ verdict = VerdictOf(circ, r, g, x, result, claim)
  <2> HIDE DEF rho, rho_eval, TrueMessage
  <2> QED
    BY <1>1 DEF Verified, Delivered
<1>4. mask = truth
  <2> HIDE DEF rho_eval, TrueMessage
  <2> QED
    BY <1>2, <1>3 DEF LostDegree
<1>5. claim > P => verdict = "E_INVAL_MSG"
  BY <1>3, Zenon DEF VerdictOf
<1>6. ASSUME claim <= P
      PROVE  verdict = "E_VRFY" <=> PowMod(g, truth, Q) = (PowMod(g, claim, Q) * truth) % Q
  <2>1. ~ (claim > P)
    BY <1>3, <1>6, Modulus
  <2>2. verdict = IF PowMod(g, mask, Q) = (PowMod(g, claim, Q) * result[0]) % Q
                  THEN "E_VRFY" ELSE "E_NO_VRFY"
    BY <1>3, <2>1, Zenon DEF VerdictOf
  <2> HIDE DEF rho_eval, TrueMessage
  <2> QED
    BY <1>2, <1>4, <2>2
<1> QED
  BY <1>2, <1>3, <1>5, <1>6, Modulus

\* The generator of a key, or its absence, is a number.
LEMMA GIsInt ==
  ASSUME SessionInv
  PROVE  g \in Int
<1>1. CASE g = 0
  BY <1>1
<1>2. CASE \E t \in 3 .. (Q - 1) : g = PowMod(t, 2, Q)
  BY <1>2, GeneratorIs
<1> QED
  BY <1>1, <1>2 DEF SessionInv, KeyIs

\* Correctness of CF_1 and CF_2: the true message of an honest session is accepted, whatever
\* the prime, the program, the messages, the masks and the key, unless an output of the FFT
\* has the mask of its message and is not 1; and no verification dies of anything else.
\* Compressed, this needs that Q = 2P + 1 is a prime.
THEOREM HonestIsAccepted == Spec => []HonestAccepted
<1>1. ASSUME SessionInv, pc = "verified", claim = TrueMessage, verdict # "E_VRFY"
      PROVE  LostDegree /\ TrueMessage # 1
  <2>1. PICK out, mask, truth : Verified(out, mask, truth)
    BY <1>1, VerifiedIs
  <2>2. claim = truth /\ truth = TrueMessage /\ truth \in 0 .. (P - 1)
    <3> HIDE DEF TrueMessage
    <3> QED
      BY <1>1, <2>1 DEF Verified, Delivered
  <2>3. claim <= P
    BY <2>2, Modulus
  <2>4. CASE compact
    BY <1>1, <2>1, <2>2, <2>3, <2>4, SaysOfCompressed, CongruentSame
  <2>5. CASE ~ compact /\ Degree(result) # 0
    BY <1>1, <2>1, <2>2, <2>3, <2>5, SaysOfTag
  <2>6. CASE ~ compact /\ Degree(result) = 0
    <3>1. /\ LostDegree
          /\ PowMod(g, truth, Q) # (PowMod(g, truth, Q) * truth) % Q
      BY <1>1, <2>1, <2>2, <2>3, <2>6, SaysOfLostDegree
    <3>2. PICK v, q : v = PowMod(g, truth, Q) /\ q = Q
      OBVIOUS
    <3>3. v \in 0 .. (q - 1)
      <4>1. g \in Int
        BY <1>1, GIsInt
      <4>2. q \in Nat \ {0} /\ truth \in Nat
        BY <2>2, <3>2, Safe, Modulus
      <4> QED
        BY <3>2, <4>1, <4>2, PowSteps
    <3>4. v * 1 = v /\ (v % q) = v
      BY <3>2, <3>3, Safe, SmallRemainder
    <3>5. truth # 1
      BY <3>1, <3>2, <3>4
    <3> HIDE DEF TrueMessage, LostDegree
    <3> QED
      BY <2>2, <3>1, <3>5
  <2> QED
    BY <2>4, <2>5, <2>6
<1>2. ASSUME SessionInv, pc = "aborted", result # ABORT
      PROVE  LostDegree /\ g = 0
  <2>1. /\ AllAuthenticated /\ ResultIs(circ, use_fft, tags, h, d, result, compact)
        /\ Degree(result) = 0 /\ g = 0
    BY <1>2 DEF SessionInv, Died
  <2>2. PICK out, mask, truth : Delivered(out, mask, truth)
    BY <1>2, <2>1, DeliveredIs
  <2>3. ~ compact
    BY <2>1, <2>2, NoGeneratorNoPowers
  <2> QED
    BY <1>2, <2>1, <2>2, <2>3, DegreeLost
<1>3. SessionInv => HonestAccepted
  BY <1>1, <1>2, Zenon DEF HonestAccepted
<1> QED
  BY <1>3, SessionInductive, PTL

\* What is accepted is the true message, of a compressed result modulo P: powers of the
\* generator tell numbers apart because its order is P.  Of a constant taken for an element
\* of G it is the solution of the equation that is then checked.
THEOREM OthersAreRejected == Spec => []OthersRejected
<1>1. SessionInv => OthersRejected
  <2> SUFFICES ASSUME SessionInv, pc = "verified", verdict = "E_VRFY"
               PROVE  \/ compact /\ claim % P = TrueMessage % P
                      \/ ~ compact /\ claim = TrueMessage
                      \/ /\ LostDegree
                         /\ PowMod(g, TrueMessage, Q) = (PowMod(g, claim, Q) * TrueMessage) % Q
    BY Zenon DEF OthersRejected
  <2>1. PICK out, mask, truth : Verified(out, mask, truth)
    BY VerifiedIs
  <2>2. truth = TrueMessage /\ claim \in 0 .. (P + 1) /\ P \in Nat
    <3> HIDE DEF TrueMessage
    <3> QED
      BY <2>1, Modulus DEF Verified, Delivered
  <2>3. CASE compact
    <3>1. claim <= P
      <4>1. ~ (claim > P)
        BY <2>1, <2>3, SaysOfCompressed
      <4> QED
        BY <2>2, <4>1
    <3>2. Cong(claim, truth, P)
      BY <2>1, <2>3, <3>1, SaysOfCompressed
    <3> HIDE DEF TrueMessage
    <3> QED
      BY <2>2, <2>3, <3>2 DEF Cong
  <2>4. CASE ~ compact /\ Degree(result) # 0
    <3>1. claim <= P
      <4>1. ~ (claim > P)
        BY <2>1, <2>4, SaysOfTag
      <4> QED
        BY <2>2, <4>1
    <3>2. claim = truth
      BY <2>1, <2>4, <3>1, SaysOfTag
    <3> HIDE DEF TrueMessage
    <3> QED
      BY <2>2, <2>4, <3>2
  <2>5. CASE ~ compact /\ Degree(result) = 0
    <3>1. claim <= P
      <4>1. ~ (claim > P)
        BY <2>1, <2>5, SaysOfLostDegree
      <4> QED
        BY <2>2, <4>1
    <3>2. /\ LostDegree
          /\ PowMod(g, truth, Q) = (PowMod(g, claim, Q) * truth) % Q
      BY <2>1, <2>5, <3>1, SaysOfLostDegree
    <3> HIDE DEF TrueMessage, LostDegree
    <3> QED
      BY <2>2, <3>2
  <2> QED
    BY <2>3, <2>4, <2>5
<1> QED
  BY <1>1, SessionInductive, PTL

-----------------------------------------------------------------------------
(***************************************************************************)
(* Sequences of tag operations: the module TagOps                          *)
(***************************************************************************)
\* The accumulator is a tag whose values are those of the reference.
OpsInv ==
  /\ ops_fft \in BOOLEAN
  /\ acc # ABORT => /\ \E n : IsTag(acc, n)
                    /\ \A z \in 0 .. (P - 1) : rho(acc, z) = points[z]

\* Operands are tags.
LEMMA OperandIs ==
  ASSUME NEW t \in Operands
  PROVE  \E n : IsTag(t, n)
<1>1. PICK n \in 0 .. P : t \in [0 .. n -> 0 .. P]
  BY OperandsAssumption DEF TagsUpTo
<1>2. n \in Nat /\ \A k \in 0 .. n : t[k] \in Nat
  BY <1>1, Modulus
<1> QED
  BY <1>1, <1>2 DEF IsTag

\* A tag agrees with the reference when its values are congruent to it.
LEMMA AgreesWith ==
  ASSUME NEW n, NEW t, IsTag(t, n), NEW z \in 0 .. (P - 1), NEW w, Cong(rho(t, z), w, P)
  PROVE  rho(t, z) = w % P
<1>1. PICK e : e = rho(t, z)
  OBVIOUS
<1>2. n \in Nat /\ n + 1 \in Nat /\ n + 1 > n /\ z \in Int
  BY Modulus DEF IsTag
<1>3. e \in 0 .. (P - 1)
  BY <1>1, <1>2, RhoPoly
<1>4. e % P = e
  BY ONLY <1>3, Modulus, SmallRemainder
<1>5. Cong(e, w, P)
  BY <1>1
<1> QED
  BY ONLY <1>1, <1>4, <1>5 DEF Cong

\* The accumulator begins as an operand, its reference as the values of it.
LEMMA OpsBegin == OpsInit => OpsInv
<1> SUFFICES ASSUME OpsInit PROVE OpsInv
  OBVIOUS
<1>1. ops_fft \in BOOLEAN /\ acc \in Operands /\ points = [z \in 0 .. (P - 1) |-> rho(acc, z)]
  BY Zenon DEF OpsInit, Points
<1>2. \A z \in 0 .. (P - 1) : rho(acc, z) = points[z]
  <2> HIDE DEF rho
  <2> QED
    BY <1>1
<1> QED
  BY <1>1, <1>2, OperandIs DEF OpsInv

\* The operations on the accumulator.
LEMMA OpsCases ==
  ASSUME OpsNext
  PROVE  \/ /\ acc # ABORT /\ ops_fft' = ops_fft
            /\ \/ \E t \in Operands :
                    /\ acc' = tag_addition(acc, t)
                    /\ points' = [z \in 0 .. (P - 1) |-> (points[z] + rho(t, z)) % P]
               \/ \E t \in Operands :
                    /\ acc' = tag_product(ops_fft, acc, t)
                    /\ points' = [z \in 0 .. (P - 1) |-> (points[z] * rho(t, z)) % P]
               \/ /\ acc' = tag_product(ops_fft, acc, acc)
                  /\ points' = [z \in 0 .. (P - 1) |-> (points[z] * points[z]) % P]
               \/ \E c \in Constants :
                    /\ acc' = tag_constant_product(acc, c)
                    /\ points' = [z \in 0 .. (P - 1) |-> (points[z] * c) % P]
         \/ UNCHANGED <<ops_fft, acc, points>>
<1>1. ASSUME NEW t \in Operands, Add(t)
      PROVE  /\ acc # ABORT /\ ops_fft' = ops_fft /\ acc' = tag_addition(acc, t)
             /\ points' = [z \in 0 .. (P - 1) |-> (points[z] + rho(t, z)) % P]
  BY <1>1, Zenon DEF Add, More, Points
<1>2. ASSUME NEW t \in Operands, Multiply(t)
      PROVE  /\ acc # ABORT /\ ops_fft' = ops_fft /\ acc' = tag_product(ops_fft, acc, t)
             /\ points' = [z \in 0 .. (P - 1) |-> (points[z] * rho(t, z)) % P]
  BY <1>2, Zenon DEF Multiply, More, Points
<1>3. ASSUME Square
      PROVE  /\ acc # ABORT /\ ops_fft' = ops_fft /\ acc' = tag_product(ops_fft, acc, acc)
             /\ points' = [z \in 0 .. (P - 1) |-> (points[z] * points[z]) % P]
  BY <1>3, Zenon DEF Square, More, Points
<1>4. ASSUME NEW c \in Constants, Scale(c)
      PROVE  /\ acc # ABORT /\ ops_fft' = ops_fft /\ acc' = tag_constant_product(acc, c)
             /\ points' = [z \in 0 .. (P - 1) |-> (points[z] * c) % P]
  BY <1>4, Zenon DEF Scale, More, Points
<1>5. ASSUME Stop PROVE UNCHANGED <<ops_fft, acc, points>>
  BY <1>5 DEF Stop, ops_vars
<1>6. CASE \E t \in Operands : Add(t)
  <2> HIDE DEF rho
  <2> QED
    BY <1>1, <1>6
<1>7. CASE \E t \in Operands : Multiply(t)
  <2> HIDE DEF rho
  <2> QED
    BY <1>2, <1>7
<1>8. CASE Square
  BY <1>3, <1>8
<1>9. CASE \E c \in Constants : Scale(c)
  BY <1>4, <1>9
<1> QED
  BY <1>5, <1>6, <1>7, <1>8, <1>9, Zenon DEF OpsNext

\* An operation that does not die keeps the invariant.
LEMMA OpsStep == OpsInv /\ [OpsNext]_ops_vars => OpsInv'
<1> SUFFICES ASSUME OpsInv, [OpsNext]_ops_vars PROVE OpsInv'
  OBVIOUS
<1>1. CASE UNCHANGED <<ops_fft, acc, points>>
  BY <1>1 DEF OpsInv
<1>2. ASSUME acc # ABORT
      PROVE  /\ ops_fft \in BOOLEAN
             /\ \E n : IsTag(acc, n) /\ \A z \in 0 .. (P - 1) : rho(acc, z) = points[z]
  BY <1>2 DEF OpsInv
<1>3. ASSUME ops_fft' = ops_fft,
             acc' # ABORT => \E l : /\ IsTag(acc', l)
                                    /\ \A z \in 0 .. (P - 1) :
                                         \E w : points'[z] = w % P /\ Cong(rho(acc', z), w, P)
      PROVE  OpsInv'
  <2>1. ops_fft' \in BOOLEAN
    BY <1>3 DEF OpsInv
  <2>2. ASSUME acc' # ABORT
        PROVE  (\E l : IsTag(acc', l)) /\ \A z \in 0 .. (P - 1) : rho(acc', z) = points'[z]
    <3>1. PICK l, t : /\ t = acc' /\ IsTag(t, l)
                      /\ \A z \in 0 .. (P - 1) :
                           \E w : points'[z] = w % P /\ Cong(rho(t, z), w, P)
      BY <1>3, <2>2
    <3>2. \A z \in 0 .. (P - 1) : rho(t, z) = points'[z]
      BY <3>1, AgreesWith
    <3> QED
      BY <3>1, <3>2
  <2> QED
    BY <2>1, <2>2 DEF OpsInv
<1>4. \A z \in 0 .. (P - 1) : z \in Int
  BY Modulus
<1>5. ASSUME acc # ABORT, NEW t \in Operands, ops_fft' = ops_fft, acc' = tag_addition(acc, t),
             points' = [z \in 0 .. (P - 1) |-> (points[z] + rho(t, z)) % P]
      PROVE  OpsInv'
  <2>1. PICK n, m : IsTag(acc, n) /\ IsTag(t, m)
    BY <1>2, <1>5, OperandIs
  <2>2. PICK l : l = IF n >= m THEN n ELSE m
    OBVIOUS
  <2>3. /\ IsTag(acc', l)
        /\ \A z \in Int : Cong(rho(acc', z), rho(acc, z) + rho(t, z), P)
    BY <1>5, <2>1, <2>2, AdditionIs
  <2>4. \A z \in 0 .. (P - 1) : /\ points'[z] = (rho(acc, z) + rho(t, z)) % P
                                /\ Cong(rho(acc', z), rho(acc, z) + rho(t, z), P)
    <3> HIDE DEF rho
    <3> QED
      BY <1>2, <1>4, <1>5, <2>3
  <2> HIDE DEF rho
  <2> QED
    BY <1>3, <1>5, <2>3, <2>4
<1>6. ASSUME acc # ABORT, NEW t, NEW m, IsTag(t, m), ops_fft' = ops_fft,
             acc' = tag_product(ops_fft, acc, t),
             \A z \in 0 .. (P - 1) : points'[z] = (points[z] * rho(t, z)) % P
      PROVE  OpsInv'
  <2>1. PICK n : IsTag(acc, n)
    BY <1>2, <1>6
  <2>2. ASSUME acc' # ABORT
        PROVE  \E l : /\ IsTag(acc', l)
                      /\ \A z \in Int : Cong(rho(acc', z), rho(acc, z) * rho(t, z), P)
    BY <1>2, <1>6, <2>1, <2>2, ProductIs
  <2>3. \A z \in 0 .. (P - 1) : points'[z] = (rho(acc, z) * rho(t, z)) % P
    <3> HIDE DEF rho
    <3> QED
      BY <1>2, <1>6
  <2> HIDE DEF rho
  <2> QED
    BY <1>3, <1>4, <1>6, <2>2, <2>3
<1>7. ASSUME acc # ABORT, NEW c \in Constants, ops_fft' = ops_fft,
             acc' = tag_constant_product(acc, c),
             points' = [z \in 0 .. (P - 1) |-> (points[z] * c) % P]
      PROVE  OpsInv'
  <2>1. PICK n : IsTag(acc, n)
    BY <1>2, <1>7
  <2>2. c \in Int
    BY OperandsAssumption
  <2>3. IsTag(acc', n) /\ \A z \in Int : Cong(rho(acc', z), rho(acc, z) * c, P)
    BY <1>7, <2>1, <2>2, ConstantIs
  <2>4. \A z \in 0 .. (P - 1) : /\ points'[z] = (rho(acc, z) * c) % P
                                /\ Cong(rho(acc', z), rho(acc, z) * c, P)
    <3> HIDE DEF rho
    <3> QED
      BY <1>2, <1>4, <1>7, <2>3
  <2> HIDE DEF rho
  <2> QED
    BY <1>3, <1>7, <2>3, <2>4
<1>8. ASSUME NEW t \in Operands, acc # ABORT, ops_fft' = ops_fft,
             acc' = tag_product(ops_fft, acc, t),
             points' = [z \in 0 .. (P - 1) |-> (points[z] * rho(t, z)) % P]
      PROVE  OpsInv'
  <2>1. PICK m : IsTag(t, m)
    BY OperandIs
  <2> HIDE DEF rho
  <2> QED
    BY <1>6, <1>8, <2>1
<1>9. ASSUME acc # ABORT, ops_fft' = ops_fft,
             acc' = tag_product(ops_fft, acc, acc),
             points' = [z \in 0 .. (P - 1) |-> (points[z] * points[z]) % P]
      PROVE  OpsInv'
  <2>1. PICK m : IsTag(acc, m)
    BY <1>2, <1>9
  <2>2. \A z \in 0 .. (P - 1) : points'[z] = (points[z] * rho(acc, z)) % P
    <3> HIDE DEF rho
    <3> QED
      BY <1>2, <1>9
  <2> HIDE DEF rho
  <2> QED
    BY <1>6, <1>9, <2>1, <2>2
<1>10. CASE OpsNext
  <2> HIDE DEF rho
  <2> QED
    BY <1>1, <1>5, <1>7, <1>8, <1>9, <1>10, OpsCases
<1>11. CASE UNCHANGED ops_vars
  BY <1>1, <1>11 DEF ops_vars
<1> QED
  BY <1>10, <1>11

\* However many operations there are and in whatever order, the tag has at every point the
\* value its operations stand for, for any operands and constants.
THEOREM OperationsHomomorphic == OpsSpec => []Homomorphic
<1>1. OpsInit => OpsInv
  BY OpsBegin
<1>2. OpsInv /\ [OpsNext]_ops_vars => OpsInv'
  BY OpsStep
<1>3. OpsInv => Homomorphic
  <2> HIDE DEF rho
  <2> QED
    BY DEF OpsInv, Homomorphic, Points
<1> QED
  BY <1>1, <1>2, <1>3, PTL DEF OpsSpec

\* The placeholder of a product that died is not a tag.
AbortIsNoTag == \A l \in Nat : ABORT \notin [0 .. l -> Int]

\* A tag is none of the placeholder's values.
LEMMA TagIsNotAbort ==
  ASSUME AbortIsNoTag, NEW n, NEW t, IsTag(t, n)
  PROVE  t # ABORT
<1>1. n \in Nat /\ t \in [0 .. n -> Int]
  BY DEF IsTag
<1> QED
  BY <1>1 DEF AbortIsNoTag

\* A product that dies is one of the FFT, and its reason is one of the two.
LEMMA ProductAborts ==
  ASSUME AbortIsNoTag, ops_fft \in BOOLEAN,
         NEW n, IsTag(acc, n), NEW m, NEW t, IsTag(t, m),
         \A z \in 0 .. (P - 1) : rho(acc, z) = points[z],
         tag_product(ops_fft, acc, t) = ABORT
  PROVE  /\ ops_fft
         /\ \/ \A z \in 0 .. (P - 1) : (points[z] * rho(t, z)) % P = 0
            \/ Gap(acc, t)
<1>1. CASE ~ ops_fft
  <2>1. PICK q : q = tag_mul_naive(acc, t)
    OBVIOUS
  <2>2. q = ABORT
    BY <1>1, <2>1 DEF tag_product
  <2>3. IsTag(q, n + m)
    BY <2>1, NaiveIs
  <2> QED
    BY <2>2, <2>3, TagIsNotAbort
<1>2. CASE ops_fft
  <2>1. tag_fft_mul_mod(acc, t) = ABORT
    BY <1>2 DEF tag_product
  <2>2. \A l \in Nat : ABORT \notin [0 .. l -> Int]
    BY DEF AbortIsNoTag
  <2>3. \/ \A z \in Int : (rho(acc, z) * rho(t, z)) % P = 0
        \/ \E k \in 0 .. (n + m) : \E j \in 0 .. (k - 1) :
             Convolution(acc, t, j) = 0 /\ Convolution(acc, t, k) # 0
    BY <2>1, <2>2, FFTAborts
  <2>4. CASE \A z \in Int : (rho(acc, z) * rho(t, z)) % P = 0
    <3>1. \A z \in 0 .. (P - 1) : z \in Int
      BY Modulus
    <3> HIDE DEF rho
    <3> QED
      BY <1>2, <2>4, <3>1
  <2>5. CASE \E k \in 0 .. (n + m) : \E j \in 0 .. (k - 1) :
               Convolution(acc, t, j) = 0 /\ Convolution(acc, t, k) # 0
    <3>1. Degree(acc) = n /\ Degree(t) = m
      BY DegreeIs
    <3>2. Gap(acc, t)
      BY <2>5, <3>1, Zenon DEF Gap
    <3> QED
      BY <1>2, <3>2
  <2> QED
    BY <2>3, <2>4, <2>5
<1> QED
  BY <1>1, <1>2

\* An operation that dies is such a product.
LEMMA AbortStep ==
  AbortIsNoTag /\ OpsInv /\ [OpsNext]_ops_vars => AbortOnlyOnZeroStep
<1> SUFFICES ASSUME AbortIsNoTag, OpsInv, [OpsNext]_ops_vars,
                    acc' = ABORT, acc # ABORT
             PROVE  /\ ops_fft
                    /\ \/ \A z \in 0 .. (P - 1) : points'[z] = 0
                       \/ \E t \in Operands \cup {acc} :
                            /\ \A z \in 0 .. (P - 1) : points'[z] = (points[z] * rho(t, z)) % P
                            /\ Gap(acc, t)
  <2> HIDE DEF rho
  <2> QED
    BY DEF AbortOnlyOnZeroStep, Points
<1>1. ops_fft \in BOOLEAN /\ \A z \in 0 .. (P - 1) : rho(acc, z) = points[z]
  BY DEF OpsInv
<1>2. PICK n : IsTag(acc, n)
  BY DEF OpsInv
<1>3. ASSUME NEW t \in Operands \cup {acc}, acc' = tag_product(ops_fft, acc, t),
             \A z \in 0 .. (P - 1) : points'[z] = (points[z] * rho(t, z)) % P
      PROVE  /\ ops_fft
             /\ \/ \A z \in 0 .. (P - 1) : points'[z] = 0
                \/ \E u \in Operands \cup {acc} :
                     /\ \A z \in 0 .. (P - 1) : points'[z] = (points[z] * rho(u, z)) % P
                     /\ Gap(acc, u)
  <2>1. PICK m : IsTag(t, m)
    BY <1>2, <1>3, OperandIs
  <2>2. tag_product(ops_fft, acc, t) = ABORT
    BY <1>3
  <2>3. /\ ops_fft
        /\ \/ \A z \in 0 .. (P - 1) : (points[z] * rho(t, z)) % P = 0
           \/ Gap(acc, t)
    BY ONLY <1>1, <1>2, <2>1, <2>2, AbortIsNoTag, ProductAborts
  <2> HIDE DEF rho
  <2> QED
    BY <1>3, <2>3
<1>4. ASSUME NEW t \in Operands, acc' = tag_addition(acc, t) PROVE FALSE
  <2>1. PICK m : IsTag(t, m)
    BY OperandIs
  <2>2. PICK l : l = IF n >= m THEN n ELSE m
    OBVIOUS
  <2>3. IsTag(acc', l)
    BY <1>2, <1>4, <2>1, <2>2, AdditionIs
  <2> QED
    BY <2>3, TagIsNotAbort
<1>5. ASSUME NEW c \in Constants, acc' = tag_constant_product(acc, c) PROVE FALSE
  <2>1. c \in Int
    BY OperandsAssumption
  <2>2. IsTag(acc', n)
    BY <1>2, <1>5, <2>1, ConstantIs
  <2> QED
    BY <2>2, TagIsNotAbort
<1>6. ASSUME NEW t \in Operands, acc' = tag_product(ops_fft, acc, t),
             points' = [z \in 0 .. (P - 1) |-> (points[z] * rho(t, z)) % P]
      PROVE  \A z \in 0 .. (P - 1) : points'[z] = (points[z] * rho(t, z)) % P
  <2> HIDE DEF rho
  <2> QED
    BY <1>6
<1>7. ASSUME points' = [z \in 0 .. (P - 1) |-> (points[z] * points[z]) % P]
      PROVE  \A z \in 0 .. (P - 1) : points'[z] = (points[z] * rho(acc, z)) % P
  <2> HIDE DEF rho
  <2> QED
    BY <1>1, <1>7
<1>8. OpsNext
  BY DEF ops_vars
<1> HIDE DEF rho
<1> QED
  BY <1>3, <1>4, <1>5, <1>6, <1>7, <1>8, OpsCases, Zenon

\* An operation dies only in the FFT, on a product that vanishes everywhere or that has a
\* zero coefficient below another.
THEOREM OnlyFFTProductsDie ==
  ASSUME \A l \in Nat : ABORT \notin [0 .. l -> Int]
  PROVE  OpsSpec => AbortOnlyOnZero
<1>1. AbortIsNoTag
  BY DEF AbortIsNoTag
<1>2. OpsInit => OpsInv
  BY OpsBegin
<1>3. OpsInv /\ [OpsNext]_ops_vars => OpsInv'
  BY OpsStep
<1>4. OpsInv /\ [OpsNext]_ops_vars => [AbortOnlyOnZeroStep]_ops_vars
  BY <1>1, AbortStep
<1> QED
  BY <1>2, <1>3, <1>4, PTL DEF OpsSpec, AbortOnlyOnZero
=============================================================================
