--------------------------- MODULE ChecksumsProofs --------------------------
(***************************************************************************)
(* Proofs about Checksums: the shift registers of crc7 and crc16_ccitt     *)
(* compute the remainder of the message they are fed, for every message,   *)
(* and the remainder notices every burst that is no longer than itself.    *)
(***************************************************************************)
EXTENDS Checksums, FiniteSetTheorems, TLAPS

-----------------------------------------------------------------------------
(* Induction, and recursive functions of a number.                         *)

\* A set of numbers that is not empty has a least member.
LEMMA LeastNumber ==
    ASSUME NEW S \in SUBSET Nat, S # {}
    PROVE  \E n \in S : \A m \in S : ~(m < n)
<1> DEFINE R == {ss \in Nat \X Nat : ss[1] < ss[2]}
<1>1. IsWellFoundedOn(R, Nat)
  BY NatLessThanWellFounded DEF OpToRel
<1>2. \E n \in S : \A m \in S : ~(<<m, n>> \in R)
  BY <1>1, WFMin
<1> QED
  BY <1>2

\* Induction: a set of numbers that holds 0, and with every number the next
\* one, holds them all.
LEMMA AllNumbers ==
    ASSUME NEW S, 0 \in S, \A n \in Nat : n \in S => n + 1 \in S
    PROVE  \A n \in Nat : n \in S
<1> SUFFICES ASSUME Nat \ S # {} PROVE FALSE
  OBVIOUS
<1>1. PICK n \in Nat \ S : \A m \in Nat \ S : ~(m < n)
  BY LeastNumber, Zenon
<1>2. n # 0 /\ n \in Nat
  BY <1>1
<1>3. n - 1 \in Nat /\ n - 1 < n /\ (n - 1) + 1 = n
  BY <1>2
<1>4. n - 1 \in S
  BY <1>1, <1>3
<1> QED
  BY <1>1, <1>3, <1>4

-----------------------------------------------------------------------------
(* Multiplication by x, once and n times.                                  *)

Product(w, n, g, d, f) ==
    f = [j \in 0 .. n |-> IF j = 0 THEN w
                          ELSE Then(f[j - 1], LAMBDA p : TimesX(p, g, d))]

\* The equation of a product, point by point.
LEMMA ProductPoints ==
    ASSUME NEW w, NEW g, NEW d, NEW n \in Nat, NEW f, Product(w, n, g, d, f)
    PROVE  /\ f[0] = w
           /\ \A j \in 1 .. n : f[j] = TimesX(f[j - 1], g, d)
<1>1. \A v : UNION {TimesX(p, g, d) : p \in {v}} = TimesX(v, g, d)
  OBVIOUS
<1>2. \A j \in 0 .. n : f[j] = IF j = 0 THEN w ELSE UNION {TimesX(p, g, d) : p \in {f[j - 1]}}
  BY DEF Product, Then
<1>3. f[0] = w
  BY <1>2
<1>4. ASSUME NEW j \in 1 .. n PROVE f[j] = TimesX(f[j - 1], g, d)
  <2>1. j \in 0 .. n /\ j # 0
    OBVIOUS
  <2>2. f[j] = UNION {TimesX(p, g, d) : p \in {f[j - 1]}}
    BY <1>2, <2>1
  <2> QED
    BY <1>1, <2>2
<1> QED
  BY <1>3, <1>4

\* The products of TimesXPower exist.
LEMMA ProductExists ==
    ASSUME NEW w, NEW g, NEW d
    PROVE  \A n \in Nat : \E f : Product(w, n, g, d, f)
<1> DEFINE S == {n \in Nat : \E f : Product(w, n, g, d, f)}
<1>1. 0 \in S
  <2>1. Product(w, 0, g, d, [j \in 0 .. 0 |-> w])
    BY DEF Product
  <2> QED
    BY <2>1
<1>2. ASSUME NEW n \in Nat, n \in S PROVE n + 1 \in S
  <2>1. PICK f : Product(w, n, g, d, f)
    BY <1>2
  <2> DEFINE h == [j \in 0 .. n + 1 |-> IF j = n + 1 THEN TimesX(f[n], g, d) ELSE f[j]]
  <2>2. h = [j \in 0 .. n + 1 |-> h[j]]
    OBVIOUS
  <2>3. \A j \in 0 .. n + 1 : h[j] = IF j = 0 THEN w ELSE TimesX(h[j - 1], g, d)
    <3>1. f[0] = w /\ \A j \in 1 .. n : f[j] = TimesX(f[j - 1], g, d)
      BY <2>1, ProductPoints
    <3>2. \A j \in 1 .. n : j \in 0 .. n /\ j - 1 \in 0 .. n /\ j # n + 1 /\ j - 1 # n + 1 /\ j # 0
      OBVIOUS
    <3>3. n + 1 # 0 /\ (n + 1) - 1 = n /\ n # n + 1 /\ n \in 0 .. n + 1 /\ 0 \in 0 .. n + 1
          /\ 0 # n + 1 /\ n + 1 \in 0 .. n + 1
      OBVIOUS
    <3>4. h[0] = w /\ h[n + 1] = TimesX(h[n], g, d)
      BY <3>1, <3>3
    <3>5. \A j \in 1 .. n : h[j] = TimesX(h[j - 1], g, d)
      BY <3>1, <3>2
    <3> HIDE DEF h
    <3>6. \A j \in 0 .. n + 1 : j = 0 \/ j = n + 1 \/ j \in 1 .. n
      OBVIOUS
    <3>7. (n + 1) - 1 = n /\ n + 1 # 0 /\ \A j \in 1 .. n : j # 0
      OBVIOUS
    <3> QED
      BY <3>4, <3>5, <3>6, <3>7
  <2> HIDE DEF h
  <2>4. Product(w, n + 1, g, d, h)
    <3>1. \A v : UNION {TimesX(p, g, d) : p \in {v}} = TimesX(v, g, d)
      OBVIOUS
    <3> QED
      BY <2>2, <2>3, <3>1 DEF Product, Then
  <2> QED
    BY <2>4
<1> HIDE DEF S
<1>3. \A n \in Nat : n \in S
  BY <1>1, <1>2, AllNumbers
<1> QED
  BY <1>3 DEF S

\* Two of them agree as far as both go.
LEMMA ProductUnique ==
    ASSUME NEW w, NEW g, NEW d, NEW m \in Nat, NEW n \in Nat,
           NEW e, NEW f, Product(w, m, g, d, e), Product(w, n, g, d, f)
    PROVE  \A j \in Nat : j <= m /\ j <= n => e[j] = f[j]
<1> DEFINE S == {j \in Nat : j <= m /\ j <= n => e[j] = f[j]}
<1>e. e[0] = w /\ \A i \in 1 .. m : e[i] = TimesX(e[i - 1], g, d)
  BY ProductPoints
<1>f. f[0] = w /\ \A i \in 1 .. n : f[i] = TimesX(f[i - 1], g, d)
  BY ProductPoints
<1>1. 0 \in S
  BY <1>e, <1>f
<1>2. ASSUME NEW j \in Nat, j \in S PROVE j + 1 \in S
  <2>1. CASE j + 1 <= m /\ j + 1 <= n
    <3>1. j + 1 \in 1 .. m /\ j + 1 \in 1 .. n /\ (j + 1) - 1 = j /\ j <= m /\ j <= n
      BY <2>1
    <3>2. e[j + 1] = TimesX(e[j], g, d)
      BY <3>1, <1>e
    <3>3. f[j + 1] = TimesX(f[j], g, d)
      BY <3>1, <1>f
    <3> QED
      BY <1>2, <3>1, <3>2, <3>3
  <2> QED
    BY <2>1
<1> HIDE DEF S
<1>3. \A j \in Nat : j \in S
  BY <1>1, <1>2, AllNumbers
<1> QED
  BY <1>3 DEF S

\* Multiplication by x^0 and by one power more.
LEMMA TimesXPowerLaws ==
    ASSUME NEW w, NEW g, NEW d, NEW n \in Nat
    PROVE  /\ TimesXPower(w, 0, g, d) = w
           /\ TimesXPower(w, n + 1, g, d) = TimesX(TimesXPower(w, n, g, d), g, d)
<1> DEFINE Fcn(m) == CHOOSE f : Product(w, m, g, d, f)
<1>1. \A m \in Nat : Product(w, m, g, d, Fcn(m))
  BY ProductExists
<1>2. \A m \in Nat : TimesXPower(w, m, g, d) = Fcn(m)[m]
  BY DEF TimesXPower, Product, Then
<1> HIDE DEF Fcn
<1>3. ASSUME NEW m \in Nat
      PROVE  /\ Fcn(m)[0] = w
             /\ \A j \in 1 .. m : Fcn(m)[j] = TimesX(Fcn(m)[j - 1], g, d)
  <2> DEFINE f == Fcn(m)
  <2>1. Product(w, m, g, d, f)
    BY <1>1
  <2> HIDE DEF f
  <2>2. f[0] = w /\ \A j \in 1 .. m : f[j] = TimesX(f[j - 1], g, d)
    BY <2>1, ProductPoints
  <2> QED
    BY <2>2 DEF f
<1>4. Fcn(n + 1)[n + 1] = TimesX(Fcn(n + 1)[n], g, d)
  <2>1. n + 1 \in Nat /\ n + 1 \in 1 .. n + 1 /\ (n + 1) - 1 = n
    OBVIOUS
  <2>2. Fcn(n + 1)[n + 1] = TimesX(Fcn(n + 1)[(n + 1) - 1], g, d)
    BY <1>3, <2>1
  <2> QED
    BY <2>1, <2>2
<1>5. Fcn(n + 1)[n] = Fcn(n)[n]
  <2>1. n <= n + 1 /\ n <= n /\ n + 1 \in Nat
    OBVIOUS
  <2> QED
    BY <1>1, <2>1, ProductUnique
<1> QED
  BY <1>2, <1>3, <1>4, <1>5

\* Multiplication by x^a and then by x^b is multiplication by x^(a + b).
LEMMA TimesXPowerSum ==
    ASSUME NEW w, NEW g, NEW d, NEW a \in Nat
    PROVE  \A b \in Nat :
               TimesXPower(TimesXPower(w, a, g, d), b, g, d) = TimesXPower(w, a + b, g, d)
<1> DEFINE v == TimesXPower(w, a, g, d)
           S == {b \in Nat : TimesXPower(v, b, g, d) = TimesXPower(w, a + b, g, d)}
<1>1. 0 \in S
  <2>1. TimesXPower(v, 0, g, d) = v
    BY TimesXPowerLaws
  <2> QED
    BY <2>1
<1>2. ASSUME NEW b \in Nat, b \in S PROVE b + 1 \in S
  <2>1. a + b \in Nat /\ a + (b + 1) = (a + b) + 1
    OBVIOUS
  <2>2. TimesXPower(v, b + 1, g, d) = TimesX(TimesXPower(v, b, g, d), g, d)
    BY TimesXPowerLaws
  <2>3. TimesXPower(w, (a + b) + 1, g, d) = TimesX(TimesXPower(w, a + b, g, d), g, d)
    BY <2>1, TimesXPowerLaws
  <2> QED
    BY <1>2, <2>1, <2>2, <2>3
<1> HIDE DEF S
<1>3. \A b \in Nat : b \in S
  BY <1>1, <1>2, AllNumbers
<1> QED
  BY <1>3 DEF S

Rows(n, g, d, f) ==
    f = [i \in 0 .. n |-> IF i = 0 THEN {0}
                          ELSE Then(f[i - 1], LAMBDA r : TimesXPower(r, 12, g, d))]

\* The rows of Powers are the powers of x twelve apart.
LEMMA RowsArePowers ==
    ASSUME NEW g, NEW d, NEW n \in Nat, NEW f, Rows(n, g, d, f)
    PROVE  \A i \in 0 .. n : f[i] = TimesXPower({0}, 12 * i, g, d)
<1>1. \A v : UNION {TimesXPower(r, 12, g, d) : r \in {v}} = TimesXPower(v, 12, g, d)
  OBVIOUS
<1>2. \A i \in 0 .. n : f[i] = IF i = 0 THEN {0}
                               ELSE UNION {TimesXPower(r, 12, g, d) : r \in {f[i - 1]}}
  BY DEF Rows, Then
<1> DEFINE S == {i \in Nat : i <= n => f[i] = TimesXPower({0}, 12 * i, g, d)}
<1>3. 0 \in S
  <2>1. f[0] = {0}
    BY <1>2
  <2>2. TimesXPower({0}, 0, g, d) = {0}
    BY TimesXPowerLaws
  <2> QED
    BY <2>1, <2>2
<1>4. ASSUME NEW i \in Nat, i \in S PROVE i + 1 \in S
  <2> SUFFICES ASSUME i + 1 <= n PROVE f[i + 1] = TimesXPower({0}, 12 * (i + 1), g, d)
    OBVIOUS
  <2>1. i + 1 \in 0 .. n /\ i + 1 # 0 /\ (i + 1) - 1 = i /\ i <= n
    OBVIOUS
  <2>2. f[i + 1] = UNION {TimesXPower(r, 12, g, d) : r \in {f[i]}}
    BY <1>2, <2>1
  <2>3. f[i + 1] = TimesXPower(f[i], 12, g, d)
    BY <1>1, <2>2
  <2>4. f[i] = TimesXPower({0}, 12 * i, g, d)
    BY <1>4, <2>1
  <2>5. 12 * i \in Nat /\ 12 \in Nat /\ 12 * i + 12 = 12 * (i + 1)
    OBVIOUS
  <2> QED
    BY <2>3, <2>4, <2>5, TimesXPowerSum
<1> HIDE DEF S
<1>5. \A i \in Nat : i \in S
  BY <1>3, <1>4, AllNumbers
<1> QED
  BY <1>5 DEF S

\* They exist.
LEMMA RowsExist ==
    ASSUME NEW g, NEW d, NEW n \in Nat
    PROVE  \E f : Rows(n, g, d, f)
<1> DEFINE f == [i \in 0 .. n |-> TimesXPower({0}, 12 * i, g, d)]
<1>1. \A v : UNION {TimesXPower(r, 12, g, d) : r \in {v}} = TimesXPower(v, 12, g, d)
  OBVIOUS
<1>2. f[0] = {0}
  BY TimesXPowerLaws
<1>3. ASSUME NEW i \in 0 .. n, i # 0
      PROVE  f[i] = UNION {TimesXPower(r, 12, g, d) : r \in {f[i - 1]}}
  <2>1. i - 1 \in 0 .. n /\ 12 * (i - 1) \in Nat /\ 12 * (i - 1) + 12 = 12 * i /\ 12 \in Nat
    BY <1>3
  <2>2. TimesXPower(TimesXPower({0}, 12 * (i - 1), g, d), 12, g, d) = TimesXPower({0}, 12 * i, g, d)
    BY <2>1, TimesXPowerSum
  <2> QED
    BY <1>1, <2>1, <2>2
<1>4. f = [i \in 0 .. n |-> f[i]]
  OBVIOUS
<1> HIDE DEF f
<1>5. f = [i \in 0 .. n |-> IF i = 0 THEN {0}
                            ELSE UNION {TimesXPower(r, 12, g, d) : r \in {f[i - 1]}}]
  BY <1>2, <1>3, <1>4
<1>6. Rows(n, g, d, f)
  BY <1>5 DEF Rows, Then
<1> QED
  BY <1>6

\* Powers holds the powers of x.
LEMMA PowersAreProducts ==
    ASSUME NEW g, NEW d, NEW m \in Nat, NEW k \in 0 .. m
    PROVE  Powers(g, d, m)[k] = TimesXPower({0}, k, g, d)
<1> DEFINE n == m \div 12
           row == CHOOSE f : Rows(n, g, d, f)
<1>1. /\ n \in Nat /\ k \div 12 \in 0 .. n
      /\ k % 12 \in Nat /\ 12 * (k \div 12) \in Nat
      /\ 12 * (k \div 12) + (k % 12) = k
  OBVIOUS
<1>2. Powers(g, d, m)[k] = TimesXPower(row[k \div 12], k % 12, g, d)
  BY DEF Powers, Rows, Then
<1>3. Rows(n, g, d, row)
  BY <1>1, RowsExist
<1> HIDE DEF row, n
<1>4. row[k \div 12] = TimesXPower({0}, 12 * (k \div 12), g, d)
  BY <1>1, <1>3, RowsArePowers
<1> QED
  BY <1>1, <1>2, <1>4, TimesXPowerSum

\* Powers multiplies by x from one power to the next, from 1 on.
LEMMA PowersLaws ==
    ASSUME NEW g, NEW d, NEW m \in Nat
    PROVE  /\ Powers(g, d, m)[0] = {0}
           /\ \A k \in 0 .. m - 1 : Powers(g, d, m)[k + 1] = TimesX(Powers(g, d, m)[k], g, d)
<1>1. Powers(g, d, m)[0] = {0}
  BY PowersAreProducts, TimesXPowerLaws
<1>2. ASSUME NEW k \in 0 .. m - 1
      PROVE  Powers(g, d, m)[k + 1] = TimesX(Powers(g, d, m)[k], g, d)
  <2>1. k \in 0 .. m /\ k + 1 \in 0 .. m /\ k \in Nat
    OBVIOUS
  <2> QED
    BY <2>1, PowersAreProducts, TimesXPowerLaws
<1> QED
  BY <1>1, <1>2

-----------------------------------------------------------------------------
(* Words, and the parity of a set.                                         *)

\* A bit is in the exclusive or of two words when one of them has it.
LEMMA XorMember ==
    ASSUME NEW v, NEW w, NEW b
    PROVE  b \in Xor(v, w) <=> ~(b \in v <=> b \in w)
BY DEF Xor

\* Flipping the same bits twice restores a word.
LEMMA XorTwice ==
    ASSUME NEW v, NEW w
    PROVE  Xor(Xor(v, w), w) = v
BY DEF Xor

Odd(S) == Cardinality(S) % 2 = 1

\* The parity of the smallest sets.
LEMMA OddSmall ==
    /\ ~Odd({})
    /\ \A x : Odd({x})
<1>1. Cardinality({}) = 0 /\ \A x : Cardinality({x}) = 1
  BY FS_EmptySet, FS_Singleton
<1> QED
  BY <1>1 DEF Odd

\* Parity is linear: what two sets share counts twice.
LEMMA OddXor ==
    ASSUME NEW A, NEW B, IsFiniteSet(A), IsFiniteSet(B)
    PROVE  /\ IsFiniteSet(Xor(A, B))
           /\ Odd(Xor(A, B)) <=> ~(Odd(A) <=> Odd(B))
<1> DEFINE a == Cardinality(A)
           b == Cardinality(B)
           c == Cardinality(A \cap B)
<1>1. IsFiniteSet(A \ B) /\ Cardinality(A \ B) = a - c
  BY FS_Difference
<1>2. IsFiniteSet(B \ A) /\ Cardinality(B \ A) = b - c
  <2>1. B \cap A = A \cap B
    OBVIOUS
  <2> QED
    BY <2>1, FS_Difference
<1>3. a \in Nat /\ b \in Nat /\ c \in Nat
  BY FS_CardinalityType, FS_Intersection
<1>4. /\ IsFiniteSet(Xor(A, B))
      /\ Cardinality(Xor(A, B)) = (a - c) + (b - c)
  <2>1. (A \ B) \cap (B \ A) = {}
    OBVIOUS
  <2>2. Cardinality((A \ B) \cap (B \ A)) = 0
    BY <2>1, FS_EmptySet
  <2>3. /\ IsFiniteSet((A \ B) \cup (B \ A))
        /\ Cardinality((A \ B) \cup (B \ A))
           = Cardinality(A \ B) + Cardinality(B \ A) - Cardinality((A \ B) \cap (B \ A))
    BY <1>1, <1>2, FS_Union
  <2> HIDE DEF a, b, c
  <2>4. Cardinality((A \ B) \cup (B \ A)) = (a - c) + (b - c) - 0
    BY <1>1, <1>2, <2>2, <2>3
  <2>5. (a - c) + (b - c) - 0 = (a - c) + (b - c)
    BY <1>3
  <2> QED
    BY <2>3, <2>4, <2>5 DEF Xor
<1>5. \A i, j, k \in Nat :
         ((i - k) + (j - k)) % 2 = 1 <=> ~(i % 2 = 1 <=> j % 2 = 1)
  OBVIOUS
<1> HIDE DEF a, b, c
<1>6. ((a - c) + (b - c)) % 2 = 1 <=> ~(a % 2 = 1 <=> b % 2 = 1)
  BY <1>3, <1>5
<1> QED
  BY <1>4, <1>6 DEF Odd, a, b

\* A word times x^n.
Up(w, n) == {k + n : k \in w}

\* The bits of a word moved by n places are as many as before.
LEMMA OddUp ==
    ASSUME NEW A \in SUBSET Int, NEW n \in Int, IsFiniteSet(A)
    PROVE  /\ IsFiniteSet(Up(A, n))
           /\ Odd(Up(A, n)) <=> Odd(A)
<1> DEFINE B == Up(A, n)
           f == [k \in A |-> k + n]
<1>1. f \in Bijection(A, B)
  <2>1. f \in [A -> B] /\ \A x \in A : f[x] = x + n
    BY DEF Up
  <2>2. \A x, y \in A : f[x] = f[y] => x = y
    BY <2>1
  <2>3. \A y \in B : \E x \in A : f[x] = y
    BY <2>1 DEF Up
  <2> HIDE DEF f, B
  <2> QED
    BY <2>1, <2>2, <2>3 DEF Bijection, Injection, Surjection, IsInjective
<1>2. ExistsBijection(A, B)
  BY <1>1 DEF ExistsBijection
<1> HIDE DEF B, f
<1>3. IsFiniteSet(B) /\ Cardinality(B) = Cardinality(A)
  BY <1>2, FS_Bijection
<1> QED
  BY <1>3 DEF Odd, B

\* The words of any length are finite.
LEMMA WordsAreFinite ==
    ASSUME NEW n \in Nat, NEW w, w \subseteq 0 .. n
    PROVE  IsFiniteSet(w)
<1>1. IsFiniteSet(0 .. n)
  BY FS_Interval
<1> QED
  BY <1>1, FS_Subset

-----------------------------------------------------------------------------
(* The remainder of a polynomial.                                          *)

Terms(w, powers, b) == {k \in w : b \in powers[k]}

\* A term stays where an odd number meet.
LEMMA RemainderMember ==
    ASSUME NEW w, NEW powers, NEW d \in Nat
    PROVE  /\ Remainder(w, powers, d) \subseteq 0 .. d - 1
           /\ \A b \in 0 .. d - 1 : b \in Remainder(w, powers, d) <=> Odd(Terms(w, powers, b))
BY DEF Remainder, Odd, Terms

\* It is linear.
LEMMA RemainderXor ==
    ASSUME NEW v, NEW w, NEW powers, NEW d \in Nat, IsFiniteSet(v), IsFiniteSet(w)
    PROVE  Remainder(Xor(v, w), powers, d)
           = Xor(Remainder(v, powers, d), Remainder(w, powers, d))
<1> DEFINE R(x) == Remainder(x, powers, d)
<1>1. ASSUME NEW b \in 0 .. d - 1 PROVE b \in R(Xor(v, w)) <=> ~(b \in R(v) <=> b \in R(w))
  <2>1. Terms(Xor(v, w), powers, b) = Xor(Terms(v, powers, b), Terms(w, powers, b))
    BY DEF Terms, Xor
  <2>2. IsFiniteSet(Terms(v, powers, b)) /\ IsFiniteSet(Terms(w, powers, b))
    <3>1. Terms(v, powers, b) \subseteq v /\ Terms(w, powers, b) \subseteq w
      BY DEF Terms
    <3> QED
      BY <3>1, FS_Subset
  <2> QED
    BY <2>1, <2>2, OddXor, RemainderMember
<1>2. R(v) \subseteq 0 .. d - 1 /\ R(w) \subseteq 0 .. d - 1 /\ R(Xor(v, w)) \subseteq 0 .. d - 1
  BY RemainderMember
<1> HIDE DEF R
<1>3. \A b : b \in R(Xor(v, w)) <=> b \in Xor(R(v), R(w))
  BY <1>1, <1>2, XorMember
<1>4. R(Xor(v, w)) = Xor(R(v), R(w))
  BY <1>3
<1> QED
  BY <1>4 DEF R

-----------------------------------------------------------------------------
(* Division by a generator, from power to power.                           *)

\* A polynomial of degree d with a constant term.
Generator(g, d) == d \in Nat \ {0} /\ g \subseteq 0 .. d /\ 0 \in g /\ d \in g

\* Multiplication by x moves every term up and folds the highest one back.
LEMMA TimesXMember ==
    ASSUME NEW g, NEW d, Generator(g, d), NEW w, w \subseteq 0 .. d - 1
    PROVE  /\ TimesX(w, g, d) \subseteq 0 .. d - 1
           /\ \A b \in 0 .. d - 1 :
                 b \in TimesX(w, g, d) <=> ~(b - 1 \in w <=> (d - 1 \in w /\ b \in g))
<1> DEFINE up == {b + 1 : b \in w}
<1>1. d \in Nat \ {0} /\ g \subseteq 0 .. d /\ d \in g
  BY DEF Generator
<1>2. \A b \in Int : b \in up <=> b - 1 \in w
  BY <1>1
<1>3. up \subseteq 1 .. d
  BY <1>1
<1>4. TimesX(w, g, d) = IF d \in up THEN Xor(up, g) ELSE up
  BY DEF TimesX
<1> HIDE DEF up
<1>5. CASE d \in up
  <2>1. TimesX(w, g, d) = Xor(up, g) /\ d - 1 \in w
    BY <1>1, <1>2, <1>4, <1>5
  <2>2. \A b : b \in Xor(up, g) <=> ~(b \in up <=> b \in g)
    BY XorMember
  <2>3. \A b : b \in Xor(up, g) => b \in 0 .. d - 1
    <3>1. \A b : b \in up \/ b \in g => b \in 0 .. d
      <4>1. \A b \in 1 .. d : b \in 0 .. d
        BY <1>1
      <4> QED
        BY <1>1, <1>3, <4>1
    <3>2. d \notin Xor(up, g)
      BY <1>1, <1>5, <2>2
    <3>3. \A b : b \in Xor(up, g) => b \in 0 .. d /\ b # d
      BY <2>2, <3>1, <3>2
    <3>4. \A b \in 0 .. d : b # d => b \in 0 .. d - 1
      BY <1>1
    <3> QED
      BY <3>3, <3>4
  <2> QED
    BY <1>2, <2>1, <2>2, <2>3
<1>6. CASE d \notin up
  <2>1. TimesX(w, g, d) = up /\ d - 1 \notin w
    BY <1>1, <1>2, <1>4, <1>6
  <2>2. \A b : b \in up => b \in 0 .. d - 1
    BY <1>1, <1>3, <1>6
  <2> QED
    BY <1>2, <2>1, <2>2
<1> QED
  BY <1>5, <1>6

\* The powers of x are below the generator.
LEMMA PowersType ==
    ASSUME NEW g, NEW d, Generator(g, d), NEW m \in Nat
    PROVE  \A k \in 0 .. m : Powers(g, d, m)[k] \subseteq 0 .. d - 1
<1> DEFINE P == Powers(g, d, m)
           S == {k \in Nat : k <= m => P[k] \subseteq 0 .. d - 1}
<1>1. 0 \in S
  BY PowersLaws DEF Generator
<1>2. ASSUME NEW k \in Nat, k \in S PROVE k + 1 \in S
  <2> SUFFICES ASSUME k + 1 <= m PROVE P[k + 1] \subseteq 0 .. d - 1
    OBVIOUS
  <2>1. k \in 0 .. m - 1 /\ k <= m
    OBVIOUS
  <2>2. P[k + 1] = TimesX(P[k], g, d)
    BY <2>1, PowersLaws
  <2> QED
    BY <1>2, <2>1, <2>2, TimesXMember
<1> HIDE DEF S
<1>3. \A k \in Nat : k \in S
  BY <1>1, <1>2, AllNumbers
<1> QED
  BY <1>3 DEF S

\* Those of a lower degree are themselves.
LEMMA PowersSmall ==
    ASSUME NEW g, NEW d, Generator(g, d), NEW m \in Nat
    PROVE  \A k \in 0 .. d - 1 : k <= m => Powers(g, d, m)[k] = {k}
<1> DEFINE P == Powers(g, d, m)
           S == {k \in Nat : k <= d - 1 /\ k <= m => P[k] = {k}}
<1>1. 0 \in S
  BY PowersLaws
<1>2. ASSUME NEW k \in Nat, k \in S PROVE k + 1 \in S
  <2> SUFFICES ASSUME k + 1 <= d - 1, k + 1 <= m PROVE P[k + 1] = {k + 1}
    OBVIOUS
  <2>1. d \in Nat \ {0}
    BY DEF Generator
  <2>2. k \in 0 .. m - 1 /\ k <= m /\ k <= d - 1
    BY <2>1
  <2>3. P[k + 1] = TimesX({k}, g, d)
    <3>1. P[k] = {k}
      BY <1>2, <2>2
    <3>2. P[k + 1] = TimesX(P[k], g, d)
      BY <2>2, PowersLaws
    <3> QED
      BY <3>1, <3>2
  <2>4. {b + 1 : b \in {k}} = {k + 1} /\ d \notin {k + 1}
    BY <2>1
  <2> QED
    BY <2>3, <2>4 DEF TimesX
<1> HIDE DEF S
<1>3. \A k \in Nat : k \in S
  BY <1>1, <1>2, AllNumbers
<1> QED
  BY <1>3 DEF S, Generator

\* A polynomial of a lower degree is its own remainder.
LEMMA RemainderSmall ==
    ASSUME NEW g, NEW d, Generator(g, d), NEW m \in Nat, d - 1 <= m,
           NEW w, w \subseteq 0 .. d - 1
    PROVE  Remainder(w, Powers(g, d, m), d) = w
<1> DEFINE P == Powers(g, d, m)
<1>1. d \in Nat
  BY DEF Generator
<1>2. ASSUME NEW b \in 0 .. d - 1 PROVE b \in Remainder(w, P, d) <=> b \in w
  <2>1. \A k \in w : P[k] = {k}
    BY <1>1, PowersSmall
  <2>2. Terms(w, P, b) = IF b \in w THEN {b} ELSE {}
    BY <2>1 DEF Terms
  <2>3. Odd(Terms(w, P, b)) <=> b \in w
    BY <2>2, OddSmall
  <2> QED
    BY <1>1, <2>3, RemainderMember
<1>3. Remainder(w, P, d) \subseteq 0 .. d - 1
  BY <1>1, RemainderMember
<1> QED
  BY <1>2, <1>3

\* The remainder of x times a polynomial is x times its remainder.
LEMMA RemainderTimesX ==
    ASSUME NEW g, NEW d, Generator(g, d), NEW m \in Nat,
           NEW w, w \subseteq 0 .. m - 1
    PROVE  Remainder(Up(w, 1), Powers(g, d, m), d)
           = TimesX(Remainder(w, Powers(g, d, m), d), g, d)
<1> DEFINE P == Powers(g, d, m)
           up == Up(w, 1)
           R == Remainder(w, P, d)
<1>1. d \in Nat \ {0} /\ d - 1 \in 0 .. d - 1
  BY DEF Generator
<1>2. R \subseteq 0 .. d - 1 /\ Remainder(up, P, d) \subseteq 0 .. d - 1
  BY <1>1, RemainderMember
<1>3. /\ TimesX(R, g, d) \subseteq 0 .. d - 1
      /\ \A b \in 0 .. d - 1 :
            b \in TimesX(R, g, d) <=> ~(b - 1 \in R <=> (d - 1 \in R /\ b \in g))
  BY <1>2, TimesXMember
<1>4. IsFiniteSet(w) /\ w \in SUBSET Int
  <2>1. w \subseteq 0 .. m /\ w \in SUBSET Int
    OBVIOUS
  <2> QED
    BY <2>1, WordsAreFinite
<1>5. \A b : IsFiniteSet(Terms(w, P, b)) /\ Terms(w, P, b) \in SUBSET Int
  <2>1. \A b : Terms(w, P, b) \subseteq w
    BY DEF Terms
  <2> QED
    BY <1>4, <2>1, FS_Subset
<1>6. ASSUME NEW b \in 0 .. d - 1
      PROVE  Odd(Terms(up, P, b)) <=> ~(b - 1 \in R <=> (d - 1 \in R /\ b \in g))
  <2> DEFINE low == Terms(w, P, b - 1)
             fold == IF b \in g THEN Terms(w, P, d - 1) ELSE {}
             moved == Xor(low, fold)
  <2>1. \A k \in w : b \in P[k + 1] <=> ~(b - 1 \in P[k] <=> (d - 1 \in P[k] /\ b \in g))
    <3> TAKE k \in w
    <3>1. k \in 0 .. m - 1 /\ k \in 0 .. m
      OBVIOUS
    <3>2. P[k + 1] = TimesX(P[k], g, d) /\ P[k] \subseteq 0 .. d - 1
      BY <3>1, PowersLaws, PowersType
    <3> HIDE DEF P
    <3> QED
      BY <3>2, TimesXMember
  <2>2. Terms(up, P, b) = Up(moved, 1)
    <3>1. \A k \in w : k \in moved <=> k + 1 \in Terms(up, P, b)
      BY <2>1, XorMember DEF Terms, Up
    <3>2. moved \subseteq w
      BY DEF Xor, Terms
    <3>3. \A j \in Terms(up, P, b) : \E k \in w : j = k + 1
      BY DEF Terms, Up
    <3> HIDE DEF moved, up
    <3> QED
      BY <3>1, <3>2, <3>3 DEF Up
  <2>3. IsFiniteSet(low) /\ IsFiniteSet(fold)
    BY <1>5, FS_EmptySet
  <2>4. moved \in SUBSET Int
    BY <1>5 DEF Xor
  <2>5. Odd(low) <=> b - 1 \in R
    <3>1. CASE b = 0
      <4>1. \A k \in w : b - 1 \notin P[k]
        BY <1>4, <3>1, PowersType
      <4>2. low = {}
        BY <4>1 DEF Terms
      <4>3. b - 1 \notin R
        BY <1>2, <3>1
      <4> QED
        BY <4>2, <4>3, OddSmall
    <3>2. CASE b # 0
      <4>1. b - 1 \in 0 .. d - 1
        BY <1>1, <3>2
      <4> QED
        BY <1>1, <4>1, RemainderMember
    <3> QED
      BY <3>1, <3>2
  <2>6. Odd(fold) <=> (d - 1 \in R /\ b \in g)
    <3>1. Odd(Terms(w, P, d - 1)) <=> d - 1 \in R
      BY <1>1, RemainderMember
    <3> QED
      BY <3>1, OddSmall
  <2> HIDE DEF low, fold
  <2>7. IsFiniteSet(moved) /\ (Odd(moved) <=> ~(Odd(low) <=> Odd(fold)))
    BY <2>3, OddXor
  <2> HIDE DEF moved
  <2>8. Odd(Up(moved, 1)) <=> Odd(moved)
    BY <2>4, <2>7, OddUp
  <2> QED
    BY <2>2, <2>5, <2>6, <2>7, <2>8
<1>7. \A b \in 0 .. d - 1 : b \in Remainder(up, P, d) <=> Odd(Terms(up, P, b))
  BY <1>1, RemainderMember
<1> HIDE DEF up, R, P
<1>8. \A b \in 0 .. d - 1 : b \in Remainder(up, P, d) <=> b \in TimesX(R, g, d)
  BY <1>3, <1>6, <1>7
<1>9. Remainder(up, P, d) = TimesX(R, g, d)
  BY <1>2, <1>3, <1>8
<1> QED
  BY <1>9 DEF up, R, P

\* The bits of a word that was moved.
LEMMA UpMember ==
    ASSUME NEW w \in SUBSET Int, NEW n \in Int
    PROVE  /\ Up(w, n) \in SUBSET Int
           /\ \A b \in Int : b \in Up(w, n) <=> b - n \in w
BY DEF Up

\* Moving a word twice is moving it once by the sum.
LEMMA UpSum ==
    ASSUME NEW w \in SUBSET Int, NEW n \in Int, NEW k \in Int
    PROVE  Up(Up(w, n), k) = Up(w, n + k)
<1>1. \A b \in Int : b \in Up(Up(w, n), k) <=> b - k - n \in w
  BY UpMember
<1>2. \A b \in Int : b \in Up(w, n + k) <=> b - (n + k) \in w
  BY UpMember
<1>3. Up(Up(w, n), k) \in SUBSET Int /\ Up(w, n + k) \in SUBSET Int
  BY UpMember
<1>4. \A b \in Int : b - k - n = b - (n + k)
  OBVIOUS
<1> QED
  BY <1>1, <1>2, <1>3, <1>4

\* Words are moved step by step: first by n places, then by one more.
LEMMA UpLaws ==
    ASSUME NEW w \in SUBSET Int, NEW n \in Int
    PROVE  /\ Up(w, 0) = w
           /\ Up(w, n + 1) = Up(Up(w, n), 1)
<1>1. Up(w, 0) = w
  <2>1. \A b \in Int : b - 0 = b
    OBVIOUS
  <2>2. \A b \in Int : b \in Up(w, 0) <=> b - 0 \in w
    BY UpMember
  <2>3. Up(w, 0) \in SUBSET Int
    BY UpMember
  <2> QED
    BY <2>1, <2>2, <2>3
<1> QED
  BY <1>1, UpSum

\* The remainder of x^n times a polynomial is x^n times its remainder.
LEMMA RemainderTimesXPower ==
    ASSUME NEW g, NEW d, Generator(g, d), NEW m \in Nat,
           NEW e \in 0 .. m, NEW w, w \subseteq 0 .. m - e
    PROVE  Remainder(Up(w, e), Powers(g, d, m), d)
           = TimesXPower(Remainder(w, Powers(g, d, m), d), e, g, d)
<1> DEFINE R(x) == Remainder(x, Powers(g, d, m), d)
           S == {n \in Nat : n <= e => R(Up(w, n)) = TimesXPower(R(w), n, g, d)}
<1>1. w \in SUBSET Int
  OBVIOUS
<1>2. 0 \in S
  BY <1>1, UpLaws, TimesXPowerLaws
<1>3. ASSUME NEW n \in Nat, n \in S PROVE n + 1 \in S
  <2> SUFFICES ASSUME n + 1 <= e PROVE R(Up(w, n + 1)) = TimesXPower(R(w), n + 1, g, d)
    OBVIOUS
  <2>1. n <= e
    OBVIOUS
  <2>2. Up(w, n) \subseteq 0 .. m - 1
    <3>1. \A b \in w : b + n \in 0 .. m - 1
      OBVIOUS
    <3> QED
      BY <3>1 DEF Up
  <2>3. R(Up(Up(w, n), 1)) = TimesX(R(Up(w, n)), g, d)
    BY <2>2, RemainderTimesX
  <2>4. R(Up(w, n)) = TimesXPower(R(w), n, g, d)
    BY <1>3, <2>1
  <2>5. Up(w, n + 1) = Up(Up(w, n), 1)
    BY <1>1, UpLaws
  <2> HIDE DEF R
  <2> QED
    BY <2>3, <2>4, <2>5, TimesXPowerLaws
<1> HIDE DEF S
<1>4. e \in S
  BY <1>2, <1>3, AllNumbers
<1> QED
  BY <1>4 DEF S

\* Multiplication by x loses nothing: the generator has a constant term.
LEMMA TimesXOfSomething ==
    ASSUME NEW g, NEW d, Generator(g, d), NEW w, w \subseteq 0 .. d - 1, w # {}
    PROVE  TimesX(w, g, d) # {}
<1>1. d \in Nat \ {0} /\ 0 \in g
  BY DEF Generator
<1>2. CASE d - 1 \in w
  <2>1. 0 \in 0 .. d - 1 /\ 0 - 1 \notin w
    BY <1>1
  <2> QED
    BY <1>1, <1>2, <2>1, TimesXMember
<1>3. CASE d - 1 \notin w
  <2>1. PICK b \in w : TRUE
    OBVIOUS
  <2>2. b + 1 \in 0 .. d - 1 /\ (b + 1) - 1 = b
    BY <1>1, <1>3, <2>1
  <2> QED
    <3>1. \A c \in 0 .. d - 1 : c \in TimesX(w, g, d) <=> ~(c - 1 \in w <=> (d - 1 \in w /\ c \in g))
      BY TimesXMember
    <3> QED
      BY <1>3, <2>1, <2>2, <3>1
<1> QED
  BY <1>2, <1>3

\* The remainder notices every burst that is no longer than the generator's
\* degree, wherever it strikes: what the checksums of the bus are there for.
THEOREM BurstsAreNoticed ==
    ASSUME NEW g, NEW d, Generator(g, d), NEW m \in Nat, NEW noise,
           noise # {}, NEW n \in Nat, noise \subseteq n .. n + d - 1, n + d - 1 <= m
    PROVE  Remainder(noise, Powers(g, d, m), d) # {}
<1> DEFINE burst == Up(noise, -n)
           R(x) == Remainder(x, Powers(g, d, m), d)
           S == {k \in Nat : k <= n => R(Up(burst, k)) # {}}
<1>1. d \in Nat \ {0} /\ noise \in SUBSET Int
  BY DEF Generator
<1>2. burst \subseteq 0 .. d - 1 /\ burst # {}
  <2>1. \A b \in noise : b + (-n) \in 0 .. d - 1
    BY <1>1
  <2> QED
    BY <2>1 DEF Up
<1>3. 0 \in S
  <2>1. Up(burst, 0) = burst
    BY <1>2, UpLaws
  <2>2. R(burst) = burst
    BY <1>1, <1>2, RemainderSmall
  <2> QED
    BY <1>2, <2>1, <2>2
<1>4. ASSUME NEW k \in Nat, k \in S PROVE k + 1 \in S
  <2> SUFFICES ASSUME k + 1 <= n PROVE R(Up(burst, k + 1)) # {}
    OBVIOUS
  <2>1. Up(burst, k) \subseteq 0 .. m - 1
    BY <1>1, <1>2 DEF Up
  <2>2. R(Up(Up(burst, k), 1)) = TimesX(R(Up(burst, k)), g, d)
    BY <2>1, RemainderTimesX
  <2>3. Up(burst, k + 1) = Up(Up(burst, k), 1)
    <3>1. burst \in SUBSET Int
      BY <1>2
    <3> QED
      BY <3>1, UpLaws
  <2>4. R(Up(burst, k)) # {} /\ R(Up(burst, k)) \subseteq 0 .. d - 1
    BY <1>1, <1>4, RemainderMember
  <2> HIDE DEF R, burst
  <2> QED
    BY <2>2, <2>3, <2>4, TimesXOfSomething
<1>5. Up(burst, n) = noise
  <2>1. -n \in Int /\ (-n) + n = 0
    OBVIOUS
  <2>2. Up(burst, n) = Up(noise, (-n) + n)
    BY <1>1, <2>1, UpSum
  <2> QED
    BY <1>1, <2>1, <2>2, UpLaws
<1> HIDE DEF S
<1>6. n \in S
  BY <1>3, <1>4, AllNumbers
<1> QED
  BY <1>5, <1>6 DEF S

-----------------------------------------------------------------------------
(* Registers: values that are computed one from the other.                 *)

\* f holds the values of a register of type T that starts as a.
Register(T, a, n, F, f) ==
    /\ f \in [0 .. n -> T]
    /\ f[0] = a
    /\ \A j \in 1 .. n : f[j] = F[<<j, f[j - 1]>>]

\* A register that starts in T and that every step keeps in T exists.
LEMMA RegisterExists ==
    ASSUME NEW T, NEW a \in T, NEW n \in Nat, NEW F, F \in [(1 .. n) \X T -> T]
    PROVE  \E f : Register(T, a, n, F, f)
<1> DEFINE Upto(k, f) == /\ f \in [0 .. k -> T]
                         /\ f[0] = a
                         /\ \A j \in 1 .. k : f[j] = F[<<j, f[j - 1]>>]
           S == {k \in Nat : k <= n => \E f : Upto(k, f)}
<1>1. 0 \in S
  <2>1. Upto(0, [j \in 0 .. 0 |-> a])
    OBVIOUS
  <2> QED
    BY <2>1
<1>2. ASSUME NEW k \in Nat, k \in S PROVE k + 1 \in S
  <2> SUFFICES ASSUME k + 1 <= n PROVE \E f : Upto(k + 1, f)
    OBVIOUS
  <2>1. PICK f : Upto(k, f)
    BY <1>2
  <2> DEFINE v == F[<<k + 1, f[k]>>]
             h == [j \in 0 .. k + 1 |-> IF j = k + 1 THEN v ELSE f[j]]
  <2>2. v \in T
    <3>1. k + 1 \in 1 .. n /\ f[k] \in T
      BY <2>1
    <3> QED
      BY <3>1
  <2> HIDE DEF v
  <2>3. h \in [0 .. k + 1 -> T]
    <3>1. \A j \in 0 .. k + 1 : j # k + 1 => j \in 0 .. k
      OBVIOUS
    <3> QED
      BY <2>1, <2>2, <3>1
  <2>4. h[0] = a /\ h[k + 1] = v /\ h[k] = f[k]
    BY <2>1
  <2>5. ASSUME NEW j \in 1 .. k + 1 PROVE h[j] = F[<<j, h[j - 1]>>]
    <3>1. CASE j = k + 1
      <4>1. j - 1 = k
        BY <3>1
      <4> QED
        BY <2>4, <3>1, <4>1 DEF v
    <3>2. CASE j # k + 1
      <4>1. j \in 1 .. k /\ j - 1 \in 0 .. k /\ j - 1 # k + 1 /\ j \in 0 .. k + 1 /\ j - 1 \in 0 .. k + 1
        BY <3>2
      <4>2. h[j] = f[j] /\ h[j - 1] = f[j - 1]
        BY <3>2, <4>1
      <4> QED
        BY <2>1, <4>1, <4>2
    <3> QED
      BY <3>1, <3>2
  <2> HIDE DEF h
  <2> QED
    BY <2>3, <2>4, <2>5
<1> HIDE DEF S
<1>3. n \in S
  BY <1>1, <1>2, AllNumbers
<1>4. \E f : Upto(n, f)
  BY <1>3 DEF S
<1> QED
  BY <1>4 DEF Register

-----------------------------------------------------------------------------
(* The shift register of crc7.                                             *)

G7 == {7, 3, 0}

\* x^7 + x^3 + 1 is a generator of degree 7, and x^7 leaves x^3 + 1.
LEMMA Generator7 ==
    /\ Generator(G7, 7)
    /\ \A m \in Nat : 7 <= m => Powers(G7, 7, m)[7] = {3, 0}
<1>1. Generator(G7, 7)
  BY DEF Generator, G7
<1>2. ASSUME NEW m \in Nat, 7 <= m PROVE Powers(G7, 7, m)[7] = {3, 0}
  <2>1. 6 \in 0 .. m - 1 /\ 6 <= m /\ 6 \in 0 .. 7 - 1 /\ 6 + 1 = 7
    BY <1>2
  <2>2. Powers(G7, 7, m)[6] = {6}
    BY <1>1, <2>1, PowersSmall
  <2>3. Powers(G7, 7, m)[7] = TimesX({6}, G7, 7)
    <3>1. \A k \in 0 .. m - 1 : Powers(G7, 7, m)[k + 1] = TimesX(Powers(G7, 7, m)[k], G7, 7)
      BY PowersLaws
    <3>2. Powers(G7, 7, m)[6 + 1] = TimesX(Powers(G7, 7, m)[6], G7, 7)
      BY <2>1, <3>1
    <3> QED
      BY <2>1, <2>2, <3>2
  <2>4. TimesX({6}, G7, 7) = Xor({7}, G7)
    BY DEF TimesX
  <2> QED
    BY <2>3, <2>4 DEF Xor, G7
<1> QED
  BY <1>1, <1>2

\* The remainder of one term of a polynomial.
LEMMA RemainderTerm ==
    ASSUME NEW powers, NEW d \in Nat, NEW k, powers[k] \subseteq 0 .. d - 1
    PROVE  Remainder({k}, powers, d) = powers[k]
<1>1. ASSUME NEW b \in 0 .. d - 1 PROVE b \in Remainder({k}, powers, d) <=> b \in powers[k]
  <2>1. Terms({k}, powers, b) = IF b \in powers[k] THEN {k} ELSE {}
    BY DEF Terms
  <2> QED
    BY <2>1, OddSmall, RemainderMember
<1>2. Remainder({k}, powers, d) \subseteq 0 .. d - 1
  BY RemainderMember
<1> QED
  BY <1>1, <1>2

\* Nothing leaves nothing.
LEMMA RemainderNothing ==
    ASSUME NEW powers, NEW d \in Nat
    PROVE  Remainder({}, powers, d) = {}
<1>1. \A b : Terms({}, powers, b) = {}
  BY DEF Terms
<1>2. \A b \in 0 .. d - 1 : b \notin Remainder({}, powers, d)
  BY <1>1, OddSmall, RemainderMember
<1> QED
  BY <1>2, RemainderMember

\* One step of crc7_update: if the lower seven bits of the register are the
\* remainder of w, they become that of x * w and one bit more of the byte.
LEMMA Crc7Bit ==
    ASSUME NEW m \in Nat, 7 <= m, NEW w, w \subseteq 0 .. m - 1,
           NEW reg \in Word(8), reg \cap 0 .. 6 = Remainder(w, Powers(G7, 7, m), 7),
           NEW byte \in Word(8), NEW k \in 0 .. 7
    PROVE  LET next == Crc7Shift(Shl(reg, 1, 8), Shl(byte, k, 8))
               bit == IF 7 - k \in byte THEN {7} ELSE {}
           IN /\ next \in Word(8)
              /\ next \cap 0 .. 6 = Remainder(Xor(Up(w, 1), bit), Powers(G7, 7, m), 7)
<1> DEFINE P == Powers(G7, 7, m)
           R(x) == Remainder(x, P, 7)
           next == Crc7Shift(Shl(reg, 1, 8), Shl(byte, k, 8))
           bit == IF 7 - k \in byte THEN {7} ELSE {}
           test == ~(6 \in reg <=> 7 - k \in byte)
<1>1. /\ next \in Word(8)
      /\ \A b \in 0 .. 6 : b \in next <=> ~(b - 1 \in reg <=> (test /\ b \in {3, 0}))
  <2>1. reg \subseteq 0 .. 7 /\ byte \subseteq 0 .. 7
    BY DEF Word
  <2>2. Shl(reg, 1, 8) \subseteq 0 .. 7 /\ \A b \in 0 .. 7 : b \in Shl(reg, 1, 8) <=> b - 1 \in reg
    BY <2>1 DEF Shl
  <2>3. 7 \in Shl(byte, k, 8) <=> 7 - k \in byte
    BY <2>1 DEF Shl
  <2>4. 7 \in Xor(Shl(reg, 1, 8), Shl(byte, k, 8)) <=> test
    BY <2>2, <2>3, XorMember
  <2> HIDE DEF test
  <2>5. CASE test
    <3>1. next = Xor(Shl(reg, 1, 8), {7, 3, 0})
      BY <2>4, <2>5 DEF Crc7Shift
    <3>2. next \subseteq 0 .. 7
      BY <2>2, <3>1 DEF Xor
    <3>3. \A b \in 0 .. 6 : b \in {7, 3, 0} <=> b \in {3, 0}
      OBVIOUS
    <3>4. \A b \in 0 .. 6 : b \in next <=> ~(b - 1 \in reg <=> b \in {3, 0})
      BY <2>2, <3>1, <3>3, XorMember
    <3> QED
      BY <2>5, <3>2, <3>4 DEF Word
  <2>6. CASE ~test
    <3>1. next = Shl(reg, 1, 8)
      BY <2>4, <2>6 DEF Crc7Shift
    <3> QED
      BY <2>2, <2>6, <3>1 DEF Word
  <2> QED
    BY <2>5, <2>6
<1>2. R(Xor(Up(w, 1), bit)) = Xor(TimesX(R(w), G7, 7), IF 7 - k \in byte THEN {3, 0} ELSE {})
  <2>1. IsFiniteSet(Up(w, 1)) /\ IsFiniteSet(bit)
    <3>1. Up(w, 1) \subseteq 0 .. m
      BY DEF Up
    <3> QED
      BY <3>1, WordsAreFinite, FS_EmptySet, FS_Singleton
  <2>2. R(bit) = IF 7 - k \in byte THEN {3, 0} ELSE {}
    <3>1. P[7] = {3, 0} /\ {3, 0} \subseteq 0 .. 7 - 1 /\ 7 \in Nat
      BY Generator7
    <3> HIDE DEF P
    <3>2. P[7] \subseteq 0 .. 7 - 1
      BY <3>1
    <3>3. Remainder({7}, P, 7) = P[7]
      BY <3>1, <3>2, RemainderTerm
    <3>4. Remainder({}, P, 7) = {}
      BY <3>1, RemainderNothing
    <3> QED
      BY <3>1, <3>3, <3>4
  <2>3. R(Up(w, 1)) = TimesX(R(w), G7, 7)
    <3>1. Generator(G7, 7)
      BY Generator7
    <3> QED
      BY <3>1, RemainderTimesX
  <2> HIDE DEF P, bit
  <2>4. R(Xor(Up(w, 1), bit)) = Xor(R(Up(w, 1)), R(bit))
    BY <2>1, RemainderXor
  <2> QED
    BY <2>2, <2>3, <2>4
<1>3. \A b \in 0 .. 6 : b \in TimesX(R(w), G7, 7) <=> ~(b - 1 \in R(w) <=> (6 \in R(w) /\ b \in {3, 0}))
  <2>1. R(w) \subseteq 0 .. 7 - 1
    BY RemainderMember
  <2>2. \A b \in 0 .. 7 - 1 : b \in TimesX(R(w), G7, 7)
                              <=> ~(b - 1 \in R(w) <=> (7 - 1 \in R(w) /\ b \in G7))
    BY <2>1, Generator7, TimesXMember
  <2>3. \A b \in 0 .. 6 : b \in G7 <=> b \in {3, 0}
    BY DEF G7
  <2> QED
    BY <2>2, <2>3
<1>4. \A b \in 0 .. 6 : b - 1 \in R(w) <=> b - 1 \in reg
  <2>1. \A b \in 0 .. 6 : b - 1 \in 0 .. 6 \/ b - 1 = -1
    OBVIOUS
  <2>2. -1 \notin R(w) /\ -1 \notin reg
    BY DEF Word
  <2> QED
    BY <2>1, <2>2
<1>5. R(Xor(Up(w, 1), bit)) \subseteq 0 .. 6
  BY RemainderMember
<1>6. 6 \in R(w) <=> 6 \in reg
  OBVIOUS
<1> HIDE DEF R, next, bit
<1>7. \A b \in 0 .. 6 : b \in R(Xor(Up(w, 1), bit)) <=> b \in next
  <2> TAKE b \in 0 .. 6
  <2>1. b \in R(Xor(Up(w, 1), bit)) <=> ~(b \in TimesX(R(w), G7, 7) <=> (7 - k \in byte /\ b \in {3, 0}))
    BY <1>2, XorMember
  <2>2. b \in TimesX(R(w), G7, 7) <=> ~(b - 1 \in reg <=> (6 \in reg /\ b \in {3, 0}))
    BY <1>3, <1>4, <1>6
  <2>3. b \in next <=> ~(b - 1 \in reg <=> (test /\ b \in {3, 0}))
    BY <1>1
  <2> QED
    BY <2>1, <2>2, <2>3
<1>8. next \cap 0 .. 6 = R(Xor(Up(w, 1), bit))
  BY <1>5, <1>7
<1> QED
  BY <1>1, <1>8 DEF R, next, bit

\* The bits of the register that are left of it in the end.
Low(crc) == crc \cap 0 .. 6

\* One byte of crc7_update, eight steps: the remainder of w becomes that of w
\* with the byte behind it.
LEMMA Crc7Byte ==
    ASSUME NEW m \in Nat, 14 <= m, NEW w, w \subseteq 0 .. m - 8,
           NEW crc \in Word(8), Low(crc) = Remainder(w, Powers(G7, 7, m), 7),
           NEW byte \in Word(8)
    PROVE  /\ Crc7Update(crc, byte) \in Word(8)
           /\ Low(Crc7Update(crc, byte))
              = Remainder(Xor(Up(w, 8), Up(byte, 7)), Powers(G7, 7, m), 7)
<1> USE DEF Low
<1> DEFINE R(x) == Remainder(x, Powers(G7, 7, m), 7)
           V(k) == {b \in 0 .. m : ~(b - k \in w <=> (b >= 7 /\ b - k + 1 \in byte))}
           bit(k) == IF 7 - k \in byte THEN {7} ELSE {}
           Shifted(k, reg) == Crc7Shift(Shl(reg, 1, 8), Shl(byte, k - 1, 8))
           Steps(f) == f = [k \in 0 .. 8 |->
               IF k = 0 THEN crc
               ELSE Then(f[k - 1], LAMBDA reg : Crc7Shift(Shl(reg, 1, 8), Shl(byte, k - 1, 8)))]
           step == CHOOSE f : Steps(f)
<1>1. byte \subseteq 0 .. 7 /\ crc \subseteq 0 .. 7
  BY DEF Word
<1>2. \A k \in 1 .. 8 : \A reg \in Word(8) : Shifted(k, reg) \in Word(8)
  BY DEF Word, Crc7Shift, Shl, Xor
<1>3. \A k \in 1 .. 8 : \A v : UNION {Shifted(k, reg) : reg \in {v}} = Shifted(k, v)
  OBVIOUS
<1>4. Steps(step)
  <2> DEFINE F == [p \in (1 .. 8) \X Word(8) |-> Shifted(p[1], p[2])]
  <2>1. F \in [(1 .. 8) \X Word(8) -> Word(8)]
    BY <1>2
  <2>2. \A k \in 1 .. 8 : \A reg \in Word(8) : F[<<k, reg>>] = Shifted(k, reg)
    OBVIOUS
  <2> HIDE DEF F
  <2>3. PICK f : Register(Word(8), crc, 8, F, f)
    BY <2>1, RegisterExists
  <2>4. \A k \in 1 .. 8 : f[k] = Shifted(k, f[k - 1])
    BY <2>2, <2>3 DEF Register
  <2>5. f = [k \in 0 .. 8 |-> IF k = 0 THEN crc ELSE UNION {Shifted(k, reg) : reg \in {f[k - 1]}}]
    <3>1. \A k \in 0 .. 8 : k # 0 => k \in 1 .. 8
      OBVIOUS
    <3>2. \A k \in 0 .. 8 :
             f[k] = IF k = 0 THEN crc ELSE UNION {Shifted(k, reg) : reg \in {f[k - 1]}}
      BY <1>3, <2>3, <2>4, <3>1 DEF Register
    <3> HIDE DEF Shifted
    <3> QED
      BY <2>3, <3>2 DEF Register
  <2>6. Steps(f)
    BY <2>5 DEF Then
  <2> QED
    BY <2>6
<1>5. Crc7Update(crc, byte) = step[8]
  BY DEF Crc7Update, Then
<1>6. step[0] = crc /\ \A k \in 1 .. 8 : step[k] = Shifted(k, step[k - 1])
  <2>1. \A k \in 0 .. 8 :
           step[k] = IF k = 0 THEN crc ELSE UNION {Shifted(k, reg) : reg \in {step[k - 1]}}
    <3> HIDE DEF step
    <3> QED
      BY <1>4 DEF Then
  <2>2. \A k \in 1 .. 8 : k \in 0 .. 8 /\ k # 0
    OBVIOUS
  <2>3. step[0] = crc
    BY <2>1
  <2>4. ASSUME NEW k \in 1 .. 8 PROVE step[k] = Shifted(k, step[k - 1])
    <3>1. step[k] = UNION {Shifted(k, reg) : reg \in {step[k - 1]}}
      BY <2>1, <2>2
    <3> HIDE DEF step
    <3> QED
      BY <1>3, <3>1
  <2> QED
    BY <2>3, <2>4
<1>7. V(0) = w
  <2>1. \A b \in 0 .. m : b - 0 + 1 \in byte => ~(b >= 7)
    BY <1>1
  <2>2. \A b \in 0 .. m : b \in V(0) <=> b - 0 \in w
    BY <2>1
  <2>3. \A b \in 0 .. m : b - 0 = b
    OBVIOUS
  <2>4. w \subseteq 0 .. m /\ V(0) \subseteq 0 .. m
    OBVIOUS
  <2> HIDE DEF V
  <2> QED
    BY <2>2, <2>3, <2>4
<1>8. ASSUME NEW k \in 0 .. 7 PROVE V(k) \subseteq 0 .. m - 1 /\ Xor(Up(V(k), 1), bit(k)) = V(k + 1)
  <2>1. V(k) \subseteq 0 .. m - 1
    BY <1>1
  <2>2. \A b : b \in V(k + 1) <=> /\ b \in 0 .. m
                                  /\ ~(b - 1 - k \in w <=> (b >= 7 /\ b - k \in byte))
    <3>1. \A b \in Int : b - (k + 1) = b - 1 - k /\ b - (k + 1) + 1 = b - k
      OBVIOUS
    <3> QED
      BY <3>1
  <2>3. \A b \in Int : b \in Up(V(k), 1)
                       <=> /\ b \in 1 .. m
                           /\ ~(b - 1 - k \in w <=> (b >= 8 /\ b - k \in byte))
    <3>1. \A b \in Int : b \in Up(V(k), 1) <=> b - 1 \in V(k)
      BY <2>1 DEF Up
    <3>2. \A b \in Int : b - 1 - k + 1 = b - k /\ (b - 1 >= 7 <=> b >= 8)
                         /\ (b - 1 \in 0 .. m - 1 <=> b \in 1 .. m)
      OBVIOUS
    <3>3. \A b \in Int : b - 1 \in V(k)
              <=> /\ b - 1 \in 0 .. m - 1
                  /\ ~(b - 1 - k \in w <=> (b - 1 >= 7 /\ b - 1 - k + 1 \in byte))
      <4>1. \A b \in Int : b - 1 \in V(k)
                <=> /\ b - 1 \in 0 .. m
                    /\ ~(b - 1 - k \in w <=> (b - 1 >= 7 /\ b - 1 - k + 1 \in byte))
        OBVIOUS
      <4>2. \A b \in V(k) : b \in 0 .. m - 1
        BY <2>1
      <4>3. \A b \in Int : b \in 0 .. m - 1 => b \in 0 .. m
        OBVIOUS
      <4> HIDE DEF V
      <4> QED
        BY <4>1, <4>2, <4>3
    <3> HIDE DEF V
    <3> QED
      BY <3>1, <3>2, <3>3
  <2>4. \A b \in Int : b \in bit(k) <=> b = 7 /\ 7 - k \in byte
    OBVIOUS
  <2>5. Up(V(k), 1) \subseteq Int /\ bit(k) \subseteq Int
    BY <2>1 DEF Up
  <2>6. 0 - 1 - k \notin w
    OBVIOUS
  <2> DEFINE X == Xor(Up(V(k), 1), bit(k))
  <2>7. \A b \in Int : b \in X <=> ~(b \in Up(V(k), 1) <=> b \in bit(k))
    BY XorMember
  <2>8. X \subseteq Int
    BY <2>5 DEF Xor
  <2> HIDE DEF V, bit, X
  <2>9. ASSUME NEW b \in Int PROVE b \in X <=> b \in V(k + 1)
    <3>1. CASE b = 7
      BY <2>2, <2>3, <2>4, <2>7, <3>1
    <3>2. CASE b = 0
      BY <2>2, <2>3, <2>4, <2>6, <2>7, <3>2
    <3>3. CASE b # 7 /\ b # 0
      BY <2>2, <2>3, <2>4, <2>7, <3>3
    <3> QED
      BY <3>1, <3>2, <3>3
  <2>10. X = V(k + 1)
    <3>1. V(k + 1) \subseteq Int
      BY <2>2
    <3> QED
      BY <2>8, <2>9, <3>1
  <2> QED
    BY <2>1, <2>10 DEF X
<1> HIDE DEF V, step
<1>9. ASSUME NEW k \in 0 .. 7, step[k] \in Word(8), step[k] \cap 0 .. 6 = R(V(k))
      PROVE  step[k + 1] \in Word(8) /\ step[k + 1] \cap 0 .. 6 = R(V(k + 1))
  <2>1. step[k + 1] = Crc7Shift(Shl(step[k], 1, 8), Shl(byte, k, 8))
    <3>1. k + 1 \in 1 .. 8 /\ (k + 1) - 1 = k
      OBVIOUS
    <3> QED
      BY <1>6, <3>1
  <2>2. /\ Crc7Shift(Shl(step[k], 1, 8), Shl(byte, k, 8)) \in Word(8)
        /\ Crc7Shift(Shl(step[k], 1, 8), Shl(byte, k, 8)) \cap 0 .. 6
           = R(Xor(Up(V(k), 1), bit(k)))
    <3>1. 7 <= m /\ V(k) \subseteq 0 .. m - 1
      BY <1>8
    <3> QED
      BY <1>9, <3>1, Crc7Bit
  <2> QED
    BY <1>8, <2>1, <2>2
<1> DEFINE Good(k) == step[k] \in Word(8) /\ step[k] \cap 0 .. 6 = R(V(k))
<1>10. Good(0)
  BY <1>6, <1>7
<1>11. \A k \in 0 .. 7 : Good(k) => Good(k + 1)
  BY <1>9
<1> HIDE DEF Good
<1>12. Good(1) /\ Good(2) /\ Good(3) /\ Good(4)
  BY <1>10, <1>11
<1>13. Good(5) /\ Good(6) /\ Good(7) /\ Good(8)
  BY <1>12, <1>11
<1>14. V(8) = Xor(Up(w, 8), Up(byte, 7))
  <2>1. Up(w, 8) \subseteq 0 .. m /\ Up(byte, 7) \subseteq 0 .. m
    BY <1>1 DEF Up
  <2>2. \A b \in 0 .. m : b \in Up(w, 8) <=> b - 8 \in w
    BY DEF Up
  <2>3. \A b \in 0 .. m : b \in Up(byte, 7) <=> (b >= 7 /\ b - 8 + 1 \in byte)
    BY <1>1 DEF Up
  <2>4. \A b \in 0 .. m : b \in V(8) <=> b \in Xor(Up(w, 8), Up(byte, 7))
    BY <2>2, <2>3, XorMember DEF V
  <2>5. V(8) \subseteq 0 .. m /\ Xor(Up(w, 8), Up(byte, 7)) \subseteq 0 .. m
    BY <2>1 DEF V, Xor
  <2> QED
    BY <2>4, <2>5
<1> QED
  BY <1>5, <1>13, <1>14 DEF Good

-----------------------------------------------------------------------------
(* The shift register of crc16_ccitt.                                      *)

G16 == {16, 12, 5, 0}

\* x^16 + x^12 + x^5 + 1 is a generator of degree 16.
LEMMA Generator16 == Generator(G16, 16)
BY DEF Generator, G16

\* One step of crc16_ccitt multiplies the register by x.
LEMMA Crc16Bit ==
    ASSUME NEW reg \in Word(16)
    PROVE  /\ Crc16Shift(reg) \in Word(16)
           /\ Crc16Shift(reg) = TimesX(reg, G16, 16)
<1> DEFINE up == {b + 1 : b \in reg}
<1>1. reg \subseteq 0 .. 15
  BY DEF Word
<1>2. up \subseteq 1 .. 16 /\ (16 \in up <=> 15 \in reg)
  BY <1>1
<1>3. Shl(reg, 1, 16) = up \cap 0 .. 15
  BY DEF Shl
<1>4. TimesX(reg, G16, 16) = IF 16 \in up THEN Xor(up, G16) ELSE up
  BY DEF TimesX
<1> HIDE DEF up
<1>5. CASE 15 \in reg
  <2>1. Crc16Shift(reg) = Xor(up \cap 0 .. 15, {12, 5, 0}) /\ TimesX(reg, G16, 16) = Xor(up, G16)
    BY <1>2, <1>3, <1>4, <1>5 DEF Crc16Shift
  <2>2. \A b : b \in G16 <=> b = 16 \/ b \in {12, 5, 0}
    BY DEF G16
  <2>3. \A b : b \in up => b = 16 \/ b \in 0 .. 15
    BY <1>2
  <2>4. \A b : b \in Xor(up \cap 0 .. 15, {12, 5, 0}) <=> b \in Xor(up, G16)
    BY <1>2, <1>5, <2>2, <2>3, XorMember
  <2>5. Xor(up \cap 0 .. 15, {12, 5, 0}) \subseteq 0 .. 15
    BY DEF Xor
  <2> QED
    BY <2>1, <2>4, <2>5 DEF Word
<1>6. CASE 15 \notin reg
  <2>1. Crc16Shift(reg) = up \cap 0 .. 15 /\ TimesX(reg, G16, 16) = up
    BY <1>2, <1>3, <1>4, <1>6 DEF Crc16Shift
  <2>2. up \subseteq 0 .. 15
    <3>1. \A b \in 1 .. 16 : b = 16 \/ b \in 0 .. 15
      OBVIOUS
    <3> QED
      BY <1>2, <1>6, <3>1
  <2>3. up \cap 0 .. 15 = up
    BY <2>2
  <2>4. up \in Word(16)
    BY <2>2 DEF Word
  <2> QED
    BY <2>1, <2>3, <2>4
<1> QED
  BY <1>5, <1>6

\* One byte of crc16_ccitt: the remainder of w becomes that of w with the byte
\* behind it.
LEMMA Crc16Byte ==
    ASSUME NEW m \in Nat, 23 <= m, NEW w, w \subseteq 0 .. m - 8,
           NEW crc, crc = Remainder(w, Powers(G16, 16, m), 16),
           NEW byte \in Word(8)
    PROVE  /\ Crc16Update(crc, byte) \in Word(16)
           /\ Crc16Update(crc, byte)
              = Remainder(Xor(Up(w, 8), Up(byte, 16)), Powers(G16, 16, m), 16)
<1> DEFINE R(x) == Remainder(x, Powers(G16, 16, m), 16)
           first == Xor(crc, Shl(byte, 8, 16))
           Steps(f) == f = [k \in 0 .. 8 |-> IF k = 0 THEN Xor(crc, Shl(byte, 8, 16))
                                             ELSE Then(f[k - 1], Crc16Shift)]
           step == CHOOSE f : Steps(f)
           v == Xor(w, Up(byte, 8))
<1>1. byte \subseteq 0 .. 7
  BY DEF Word
<1>2. crc \subseteq 0 .. 15
  <2>1. crc \subseteq 0 .. 16 - 1
    BY RemainderMember
  <2> QED
    BY <2>1
<1>3. Shl(byte, 8, 16) = Up(byte, 8) /\ Up(byte, 8) \subseteq 0 .. 15
  BY <1>1 DEF Shl, Up
<1>4. first \in Word(16)
  BY <1>2, <1>3 DEF Word, Xor
<1>5. \A x : UNION {Crc16Shift(reg) : reg \in {x}} = Crc16Shift(x)
  OBVIOUS
<1>6. Steps(step)
  <2> DEFINE F == [p \in (1 .. 8) \X Word(16) |-> Crc16Shift(p[2])]
  <2>1. F \in [(1 .. 8) \X Word(16) -> Word(16)]
    BY Crc16Bit
  <2>2. \A k \in 1 .. 8 : \A reg \in Word(16) : F[<<k, reg>>] = Crc16Shift(reg)
    OBVIOUS
  <2> HIDE DEF F, first
  <2>3. PICK f : Register(Word(16), first, 8, F, f)
    BY <1>4, <2>1, RegisterExists
  <2>4. \A k \in 1 .. 8 : f[k] = Crc16Shift(f[k - 1])
    BY <2>2, <2>3 DEF Register
  <2>5. f = [k \in 0 .. 8 |-> IF k = 0 THEN first
                              ELSE UNION {Crc16Shift(reg) : reg \in {f[k - 1]}}]
    <3>1. \A k \in 0 .. 8 : k # 0 => k \in 1 .. 8
      OBVIOUS
    <3>2. \A k \in 0 .. 8 : f[k] = IF k = 0 THEN first
                                   ELSE UNION {Crc16Shift(reg) : reg \in {f[k - 1]}}
      BY <1>5, <2>3, <2>4, <3>1 DEF Register
    <3> QED
      BY <2>3, <3>2 DEF Register
  <2>6. Steps(f)
    BY <2>5 DEF Then, first
  <2> QED
    BY <2>6
<1>7. Crc16Update(crc, byte) = step[8]
  BY DEF Crc16Update, Then
<1>8. step[0] = first /\ \A k \in 1 .. 8 : step[k] = Crc16Shift(step[k - 1])
  <2>1. \A k \in 0 .. 8 : step[k] = IF k = 0 THEN first
                                    ELSE UNION {Crc16Shift(reg) : reg \in {step[k - 1]}}
    <3> HIDE DEF step
    <3> QED
      BY <1>6 DEF Then
  <2>2. step[0] = first
    BY <2>1
  <2>3. ASSUME NEW k \in 1 .. 8 PROVE step[k] = Crc16Shift(step[k - 1])
    <3>1. k \in 0 .. 8 /\ k # 0
      OBVIOUS
    <3>2. step[k] = UNION {Crc16Shift(reg) : reg \in {step[k - 1]}}
      BY <2>1, <3>1
    <3> HIDE DEF step
    <3> QED
      BY <1>5, <3>2
  <2> QED
    BY <2>2, <2>3
<1> HIDE DEF step
<1> DEFINE Good(k) == step[k] \in Word(16) /\ step[k] = TimesXPower(first, k, G16, 16)
<1>9. Good(0)
  BY <1>4, <1>8, TimesXPowerLaws
<1>10. ASSUME NEW k \in 0 .. 7, Good(k) PROVE Good(k + 1)
  <2>1. step[k + 1] = Crc16Shift(step[k])
    <3>1. k + 1 \in 1 .. 8 /\ (k + 1) - 1 = k
      OBVIOUS
    <3> QED
      BY <1>8, <3>1
  <2>2. TimesXPower(first, k + 1, G16, 16) = TimesX(TimesXPower(first, k, G16, 16), G16, 16)
    <3>1. k \in Nat
      OBVIOUS
    <3> HIDE DEF first
    <3> QED
      BY <3>1, TimesXPowerLaws
  <2> HIDE DEF first
  <2> QED
    BY <1>10, <2>1, <2>2, Crc16Bit
<1> HIDE DEF Good
<1>11. Good(1) /\ Good(2) /\ Good(3) /\ Good(4)
  BY <1>9, <1>10
<1>12. Good(5) /\ Good(6) /\ Good(7) /\ Good(8)
  BY <1>11, <1>10
<1>13. IsFiniteSet(w) /\ IsFiniteSet(Up(byte, 8))
  <2>1. w \subseteq 0 .. m
    OBVIOUS
  <2> QED
    BY <1>3, <2>1, WordsAreFinite
<1>14. first = R(v)
  <2>1. R(Up(byte, 8)) = Up(byte, 8)
    <3>1. 16 - 1 <= m /\ Up(byte, 8) \subseteq 0 .. 16 - 1
      BY <1>3
    <3> QED
      BY <3>1, Generator16, RemainderSmall
  <2>2. R(v) = Xor(R(w), R(Up(byte, 8)))
    BY <1>13, RemainderXor
  <2> QED
    BY <1>3, <2>1, <2>2
<1>15. v \subseteq 0 .. m - 8
  <2>1. Up(byte, 8) \subseteq 0 .. m - 8
    BY <1>3
  <2> QED
    BY <2>1 DEF Xor
<1>16. TimesXPower(R(v), 8, G16, 16) = R(Up(v, 8))
  <2>1. 8 \in 0 .. m
    OBVIOUS
  <2> HIDE DEF v
  <2> QED
    BY <1>15, <2>1, Generator16, RemainderTimesXPower
<1>17. Up(v, 8) = Xor(Up(w, 8), Up(byte, 16))
  <2>1. w \in SUBSET Int /\ byte \in SUBSET Int /\ v \in SUBSET Int
    BY <1>1, <1>15
  <2>2. \A b \in Int : b \in Up(v, 8) <=> b - 8 \in v
    BY <2>1, UpMember
  <2>3. \A b \in Int : b \in Up(w, 8) <=> b - 8 \in w
    BY <2>1, UpMember
  <2>4. \A b \in Int : (b \in Up(byte, 16) <=> b - 16 \in byte)
                       /\ (b \in Up(byte, 8) <=> b - 8 \in byte)
    BY <2>1, UpMember
  <2>5. \A b \in Int : b - 8 \in Int /\ b - 8 - 8 = b - 16
    OBVIOUS
  <2>6. \A b \in Int : b - 8 \in v <=> ~(b - 8 \in w <=> b - 16 \in byte)
    BY <2>4, <2>5, XorMember
  <2>7. Up(v, 8) \in SUBSET Int /\ Up(w, 8) \in SUBSET Int /\ Up(byte, 16) \in SUBSET Int
    BY <2>1, UpMember
  <2>8. Xor(Up(w, 8), Up(byte, 16)) \in SUBSET Int
    BY <2>7 DEF Xor
  <2> HIDE DEF v
  <2>9. \A b \in Int : b \in Up(v, 8) <=> b \in Xor(Up(w, 8), Up(byte, 16))
    BY <2>2, <2>3, <2>4, <2>6, XorMember
  <2> QED
    BY <2>7, <2>8, <2>9
<1> QED
  BY <1>7, <1>12, <1>14, <1>16, <1>17 DEF Good

-----------------------------------------------------------------------------
(* Messages of many bytes.                                                 *)

\* The first i bytes of a message with d places for a checksum behind them.
Message(bytes, i, d) == UNION {Up(bytes[q], 8 * (i - 1 - q) + d) : q \in 0 .. i - 1}

\* Every byte lies behind those before it.
LEMMA MessageLaws ==
    ASSUME NEW n \in Nat, NEW bytes, \A q \in 0 .. n - 1 : bytes[q] \in Word(8),
           NEW i \in 0 .. n, NEW d \in Nat
    PROVE  /\ Message(bytes, 0, d) = {}
           /\ Message(bytes, i, d) \subseteq d .. 8 * i + d - 1
           /\ i < n => Message(bytes, i + 1, d)
                       = Xor(Up(Message(bytes, i, d), 8), Up(bytes[i], d))
<1>1. Message(bytes, 0, d) = {}
  <2>1. 0 .. 0 - 1 = {}
    OBVIOUS
  <2> QED
    BY <2>1 DEF Message
<1>2. \A q \in 0 .. n - 1 : bytes[q] \subseteq 0 .. 7
  BY DEF Word
<1>3. \A j \in 0 .. n : \A b :
         b \in Message(bytes, j, d)
         <=> b \in Int /\ \E q \in 0 .. j - 1 : b - (8 * (j - 1 - q) + d) \in bytes[q]
  <2> TAKE j \in 0 .. n
  <2>1. \A q \in 0 .. j - 1 : bytes[q] \in SUBSET Int /\ 8 * (j - 1 - q) + d \in Int
    BY <1>2
  <2>2. \A q \in 0 .. j - 1 : \A b :
           b \in Up(bytes[q], 8 * (j - 1 - q) + d)
           <=> b \in Int /\ b - (8 * (j - 1 - q) + d) \in bytes[q]
    BY <2>1, UpMember
  <2> QED
    BY <2>2 DEF Message
<1>4. Message(bytes, i, d) \subseteq d .. 8 * i + d - 1
  <2>1. ASSUME NEW b \in Message(bytes, i, d) PROVE b \in d .. 8 * i + d - 1
    <3>1. b \in Int
      BY <1>3
    <3>2. PICK q \in 0 .. i - 1 : b - (8 * (i - 1 - q) + d) \in bytes[q]
      BY <1>3
    <3>3. b - (8 * (i - 1 - q) + d) \in 0 .. 7
      <4>1. q \in 0 .. n - 1
        OBVIOUS
      <4> QED
        BY <1>2, <3>2, <4>1
    <3> QED
      BY <3>1, <3>3
  <2> QED
    BY <2>1
<1>5. ASSUME i < n
      PROVE  Message(bytes, i + 1, d) = Xor(Up(Message(bytes, i, d), 8), Up(bytes[i], d))
  <2> DEFINE M == Message(bytes, i, d)
             N == Message(bytes, i + 1, d)
  <2>1. i + 1 \in 0 .. n /\ i \in 0 .. n - 1
    BY <1>5
  <2>2. M \in SUBSET Int /\ bytes[i] \in SUBSET Int
    BY <1>2, <1>4, <2>1
  <2>3. \A b \in Int : b \in Up(M, 8)
                       <=> \E q \in 0 .. i - 1 : b - 8 - (8 * (i - 1 - q) + d) \in bytes[q]
    <3>1. \A b \in Int : b \in Up(M, 8) <=> b - 8 \in M
      BY <2>2, UpMember
    <3> QED
      BY <1>3, <3>1
  <2>4. \A b \in Int : b \in Up(bytes[i], d) <=> b - d \in bytes[i]
    BY <2>2, UpMember
  <2>5. \A b \in Int : b \in N <=> b \in Up(M, 8) \/ b \in Up(bytes[i], d)
    <3> TAKE b \in Int
    <3>1. b \in N <=> \E q \in 0 .. i : b - (8 * (i - q) + d) \in bytes[q]
      <4>1. (i + 1) - 1 = i
        OBVIOUS
      <4>2. b \in N <=> \E q \in 0 .. (i + 1) - 1 : b - (8 * ((i + 1) - 1 - q) + d) \in bytes[q]
        BY <1>3, <2>1
      <4> QED
        BY <4>1, <4>2
    <3>2. \A q \in 0 .. i - 1 : b - 8 - (8 * (i - 1 - q) + d) = b - (8 * (i - q) + d)
      OBVIOUS
    <3>3. b - (8 * (i - i) + d) = b - d
      OBVIOUS
    <3>4. \A q \in 0 .. i : q = i \/ q \in 0 .. i - 1
      OBVIOUS
    <3>5. i \in 0 .. i /\ \A q \in 0 .. i - 1 : q \in 0 .. i
      OBVIOUS
    <3>6. CASE b \in N
      <4>1. PICK q \in 0 .. i : b - (8 * (i - q) + d) \in bytes[q]
        BY <3>1, <3>6
      <4>2. CASE q = i
        <5>1. b - (8 * (q - q) + d) = b - d
          OBVIOUS
        <5>2. b - d \in bytes[i]
          BY <3>3, <4>1, <4>2
        <5> QED
          BY <2>4, <3>6, <5>2
      <4>3. CASE q \in 0 .. i - 1
        <5>1. b - 8 - (8 * (i - 1 - q) + d) = b - (8 * (i - q) + d)
          OBVIOUS
        <5>2. b - 8 - (8 * (i - 1 - q) + d) \in bytes[q]
          BY <4>1, <5>1
        <5> QED
          BY <2>3, <3>6, <4>3, <5>2
      <4> QED
        BY <3>4, <3>6, <4>2, <4>3
    <3>7. CASE b \in Up(bytes[i], d)
      BY <2>4, <3>1, <3>3, <3>5, <3>7
    <3>8. CASE b \in Up(M, 8)
      <4>1. PICK q \in 0 .. i - 1 : b - 8 - (8 * (i - 1 - q) + d) \in bytes[q]
        BY <2>3, <3>8
      <4> QED
        BY <3>1, <3>2, <3>5, <3>8, <4>1
    <3> QED
      BY <3>6, <3>7, <3>8
  <2>6. \A b \in Int : ~(b \in Up(M, 8) /\ b \in Up(bytes[i], d))
    <3>1. \A b \in Int : b \in Up(M, 8) => b - 8 >= d
      BY <1>4, <2>2, UpMember
    <3>2. \A b \in Int : b \in Up(bytes[i], d) => b - d <= 7
      BY <1>2, <2>1, <2>4
    <3> QED
      BY <3>1, <3>2
  <2>7. N \in SUBSET Int /\ Up(M, 8) \in SUBSET Int /\ Up(bytes[i], d) \in SUBSET Int
    <3>1. N \in SUBSET Int
      BY <1>3, <2>1
    <3>2. Up(M, 8) \in SUBSET Int
      BY <2>2, UpMember
    <3>3. Up(bytes[i], d) \in SUBSET Int
      BY <2>2, UpMember
    <3> QED
      BY <3>1, <3>2, <3>3
  <2>8. Xor(Up(M, 8), Up(bytes[i], d)) \in SUBSET Int
    BY <2>7 DEF Xor
  <2> HIDE DEF M, N
  <2>9. \A b \in Int : b \in N <=> b \in Xor(Up(M, 8), Up(bytes[i], d))
    BY <2>5, <2>6, XorMember
  <2>10. N = Xor(Up(M, 8), Up(bytes[i], d))
    BY <2>7, <2>8, <2>9
  <2> QED
    BY <2>10 DEF M, N
<1> QED
  BY <1>1, <1>4, <1>5

\* crc16_ccitt of a block of n bytes is the remainder of the block with sixteen
\* empty places behind it, however long the block.
THEOREM Crc16IsTheRemainder ==
    ASSUME NEW n \in Nat, NEW bytes, \A q \in 0 .. n - 1 : bytes[q] \in Word(8),
           NEW m \in Nat, 8 * n + 15 <= m
    PROVE  Crc16(bytes, n) = Remainder(Message(bytes, n, 16), Powers(G16, 16, m), 16)
<1> DEFINE R(x) == Remainder(x, Powers(G16, 16, m), 16)
           M(i) == Message(bytes, i, 16)
           Blocks(f) == f = [i \in 0 .. n |->
                                IF i = 0 THEN {}
                                ELSE Then(f[i - 1], LAMBDA c : Crc16Update(c, bytes[i - 1]))]
           crc == CHOOSE f : Blocks(f)
           F == [p \in (1 .. n) \X Word(16) |->
                    IF Crc16Update(p[2], bytes[p[1] - 1]) \in Word(16)
                    THEN Crc16Update(p[2], bytes[p[1] - 1]) ELSE {}]
<1>1. F \in [(1 .. n) \X Word(16) -> Word(16)] /\ {} \in Word(16)
  BY DEF Word
<1>2. \A i \in 1 .. n : \A c \in Word(16) :
         Crc16Update(c, bytes[i - 1]) \in Word(16) => F[<<i, c>>] = Crc16Update(c, bytes[i - 1])
  OBVIOUS
<1> HIDE DEF F
<1>3. PICK f : Register(Word(16), {}, n, F, f)
  BY <1>1, RegisterExists
<1>4. f \in [0 .. n -> Word(16)] /\ f[0] = {} /\ \A j \in 1 .. n : f[j] = F[<<j, f[j - 1]>>]
  BY <1>3 DEF Register
<1> DEFINE S == {i \in Nat : i <= n => f[i] = R(M(i))}
<1>5. ASSUME NEW i \in Nat, i + 1 <= n, f[i] = R(M(i))
      PROVE  /\ f[i + 1] = R(M(i + 1))
             /\ f[i + 1] = Crc16Update(f[i], bytes[i])
  <2> DEFINE w == M(i)
  <2>1. i \in 0 .. n /\ i < n /\ i \in 0 .. n - 1 /\ 16 \in Nat
    BY <1>5
  <2>2. M(i) \subseteq 16 .. 8 * i + 16 - 1
    BY <2>1, MessageLaws
  <2>3. M(i + 1) = Xor(Up(M(i), 8), Up(bytes[i], 16))
    BY <2>1, MessageLaws
  <2>4. 23 <= m /\ w \subseteq 0 .. m - 8
    BY <1>5, <2>2
  <2>5. bytes[i] \in Word(8)
    BY <2>1
  <2> HIDE DEF w
  <2>6. f[i] = Remainder(w, Powers(G16, 16, m), 16)
    BY <1>5 DEF w
  <2>7. /\ Crc16Update(f[i], bytes[i]) \in Word(16)
        /\ Crc16Update(f[i], bytes[i]) = R(Xor(Up(w, 8), Up(bytes[i], 16)))
    BY <2>4, <2>5, <2>6, Crc16Byte
  <2>8. f[i + 1] = F[<<i + 1, f[i]>>]
    <3>1. i + 1 \in 1 .. n /\ (i + 1) - 1 = i
      BY <1>5
    <3> QED
      BY <1>4, <3>1
  <2>9. F[<<i + 1, f[i]>>] = Crc16Update(f[i], bytes[i])
    <3>1. i + 1 \in 1 .. n /\ (i + 1) - 1 = i /\ f[i] \in Word(16)
      BY <1>4, <1>5, <2>1
    <3> QED
      BY <1>2, <2>7, <3>1
  <2> QED
    BY <2>3, <2>7, <2>8, <2>9 DEF w
<1>6. 0 \in S
  <2>1. M(0) = {}
    <3>1. 0 \in 0 .. n /\ 16 \in Nat
      OBVIOUS
    <3> QED
      BY <3>1, MessageLaws
  <2>2. R({}) = {}
    BY RemainderNothing
  <2> QED
    BY <1>4, <2>1, <2>2
<1>7. ASSUME NEW i \in Nat, i \in S PROVE i + 1 \in S
  <2> SUFFICES ASSUME i + 1 <= n PROVE f[i + 1] = R(M(i + 1))
    OBVIOUS
  <2> QED
    BY <1>5, <1>7
<1> HIDE DEF S, M, R
<1>8. \A i \in Nat : i \in S
  BY <1>6, <1>7, AllNumbers
<1>9. \A i \in 0 .. n : f[i] = R(M(i))
  BY <1>8 DEF S
<1>10. \A i \in 1 .. n : f[i] = Crc16Update(f[i - 1], bytes[i - 1])
  <2> TAKE i \in 1 .. n
  <2>1. i - 1 \in Nat /\ (i - 1) + 1 = i /\ (i - 1) + 1 <= n /\ i - 1 \in 0 .. n
    OBVIOUS
  <2>2. f[i - 1] = R(M(i - 1))
    BY <1>9, <2>1
  <2> QED
    BY <1>5, <2>1, <2>2
<1>11. Blocks(f)
  <2>1. \A c, b : UNION {Crc16Update(v, b) : v \in {c}} = Crc16Update(c, b)
    OBVIOUS
  <2>2. \A i \in 0 .. n : f[i] = IF i = 0 THEN {}
                                 ELSE UNION {Crc16Update(c, bytes[i - 1]) : c \in {f[i - 1]}}
    <3> TAKE i \in 0 .. n
    <3>1. i # 0 => i \in 1 .. n
      OBVIOUS
    <3> QED
      BY <1>4, <1>10, <2>1, <3>1
  <2>3. f = [i \in 0 .. n |-> IF i = 0 THEN {}
                              ELSE UNION {Crc16Update(c, bytes[i - 1]) : c \in {f[i - 1]}}]
    BY <1>4, <2>2
  <2> QED
    BY <2>3 DEF Then
<1>12. Blocks(crc)
  BY <1>11
<1>13. Crc16(bytes, n) = crc[n]
  BY DEF Crc16, Then
<1>14. crc[0] = {} /\ \A i \in 1 .. n : crc[i] = Crc16Update(crc[i - 1], bytes[i - 1])
  <2>1. \A i \in 0 .. n : crc[i] = IF i = 0 THEN {}
                                   ELSE UNION {Crc16Update(c, bytes[i - 1]) : c \in {crc[i - 1]}}
    <3> HIDE DEF crc
    <3> QED
      BY <1>12 DEF Then
  <2>2. \A c, b : UNION {Crc16Update(v, b) : v \in {c}} = Crc16Update(c, b)
    OBVIOUS
  <2>3. crc[0] = {}
    <3>1. 0 \in 0 .. n
      OBVIOUS
    <3> HIDE DEF crc
    <3> QED
      BY <2>1, <3>1
  <2>4. ASSUME NEW i \in 1 .. n PROVE crc[i] = Crc16Update(crc[i - 1], bytes[i - 1])
    <3>1. i \in 0 .. n /\ i # 0
      OBVIOUS
    <3> HIDE DEF crc
    <3> QED
      BY <2>1, <2>2, <3>1
  <2> QED
    BY <2>3, <2>4
<1> HIDE DEF crc, Blocks
<1> DEFINE Q == {i \in Nat : i <= n => crc[i] = f[i]}
<1>15. 0 \in Q
  BY <1>4, <1>14
<1>16. ASSUME NEW i \in Nat, i \in Q PROVE i + 1 \in Q
  <2> SUFFICES ASSUME i + 1 <= n PROVE crc[i + 1] = f[i + 1]
    OBVIOUS
  <2>1. i + 1 \in 1 .. n /\ (i + 1) - 1 = i /\ i <= n
    OBVIOUS
  <2> QED
    BY <1>10, <1>14, <1>16, <2>1
<1> HIDE DEF Q
<1>17. n \in Q
  BY <1>15, <1>16, AllNumbers
<1>18. crc[n] = f[n]
  BY <1>17 DEF Q
<1> QED
  BY <1>9, <1>13, <1>18 DEF R, M

\* The five bytes of a command that its checksum covers.
Covered(token, arg) == [i \in 0 .. 4 |-> IF i = 0 THEN token ELSE Bytes(arg, 4)[i - 1]]

\* They are bytes.
LEMMA CoveredAreBytes ==
    ASSUME NEW token \in Word(8), NEW arg
    PROVE  \A q \in 0 .. 4 : Covered(token, arg)[q] \in Word(8)
<1>1. ASSUME NEW q \in 1 .. 4 PROVE Bytes(arg, 4)[q - 1] \in Word(8)
  <2>1. q - 1 \in 0 .. 4 - 1
    OBVIOUS
  <2>2. Bytes(arg, 4)[q - 1] = Field(arg, 8 * (4 - (q - 1)) - 1, 8 * (4 - (q - 1) - 1))
    BY <2>1 DEF Bytes
  <2>3. PICK lo \in Int : lo = 8 * (4 - (q - 1) - 1) /\ 8 * (4 - (q - 1)) - 1 = lo + 7
    OBVIOUS
  <2>4. Field(arg, lo + 7, lo) \subseteq 0 .. 7
    BY DEF Field, Shr
  <2> QED
    BY <2>2, <2>3, <2>4 DEF Word
<1>2. \A q \in 0 .. 4 : q = 0 \/ q \in 1 .. 4
  OBVIOUS
<1> QED
  BY <1>1, <1>2 DEF Covered

\* The checksum of a command is the remainder of its first five bytes, with seven
\* empty places behind them, for every token and every argument.
THEOREM Crc7IsTheRemainder ==
    ASSUME NEW token \in Word(8), NEW arg
    PROVE  Crc7(token, arg)
           = Shl(Remainder(Message(Covered(token, arg), 5, 7), Powers7, 7), 1, 8) \cup {0}
<1>0. PICK m \in Nat : m = 127
  OBVIOUS
<1> DEFINE bytes == Covered(token, arg)
           R(x) == Remainder(x, Powers(G7, 7, m), 7)
           M(i) == Message(bytes, i, 7)
           Registers(f) == f = [i \in 0 .. 5 |->
                                   IF i = 0 THEN {}
                                   ELSE Then(f[i - 1], LAMBDA c : Crc7Update(c, bytes[i - 1]))]
           crc == CHOOSE f : Registers(f)
           F == [p \in (1 .. 5) \X Word(8) |->
                    IF Crc7Update(p[2], bytes[p[1] - 1]) \in Word(8)
                    THEN Crc7Update(p[2], bytes[p[1] - 1]) ELSE {}]
<1>9. \A q \in 0 .. 4 : bytes[q] \in Word(8)
  BY CoveredAreBytes
<1>1. F \in [(1 .. 5) \X Word(8) -> Word(8)] /\ {} \in Word(8)
  BY DEF Word
<1>2. \A i \in 1 .. 5 : \A c \in Word(8) :
         Crc7Update(c, bytes[i - 1]) \in Word(8) => F[<<i, c>>] = Crc7Update(c, bytes[i - 1])
  OBVIOUS
<1> HIDE DEF F, bytes
<1>3. PICK f : Register(Word(8), {}, 5, F, f)
  BY <1>1, RegisterExists
<1>4. f \in [0 .. 5 -> Word(8)] /\ f[0] = {} /\ \A j \in 1 .. 5 : f[j] = F[<<j, f[j - 1]>>]
  BY <1>3 DEF Register
<1> DEFINE Good(i) == Low(f[i]) = R(M(i))
<1>5. ASSUME NEW i \in 0 .. 4, Good(i)
      PROVE  /\ Good(i + 1)
             /\ f[i + 1] = Crc7Update(f[i], bytes[i])
  <2> DEFINE w == M(i)
  <2>1. i \in 0 .. 5 /\ i < 5 /\ 7 \in Nat /\ 5 \in Nat /\ \A q \in 0 .. 5 - 1 : q \in 0 .. 4
    OBVIOUS
  <2>2. M(i) \subseteq 7 .. 8 * i + 7 - 1
    BY <1>9, <2>1, MessageLaws
  <2>3. M(i + 1) = Xor(Up(M(i), 8), Up(bytes[i], 7))
    BY <1>9, <2>1, MessageLaws
  <2>4. 14 <= m /\ w \subseteq 0 .. m - 8
    BY <1>0, <2>2
  <2>5. bytes[i] \in Word(8)
    BY <1>9
  <2> HIDE DEF w
  <2>6. f[i] \in Word(8) /\ Low(f[i]) = Remainder(w, Powers(G7, 7, m), 7)
    BY <1>4, <1>5, <2>1 DEF w
  <2>7. /\ Crc7Update(f[i], bytes[i]) \in Word(8)
        /\ Low(Crc7Update(f[i], bytes[i])) = R(Xor(Up(w, 8), Up(bytes[i], 7)))
    BY <2>4, <2>5, <2>6, Crc7Byte
  <2>8. f[i + 1] = F[<<i + 1, f[i]>>]
    <3>1. i + 1 \in 1 .. 5 /\ (i + 1) - 1 = i
      OBVIOUS
    <3> QED
      BY <1>4, <3>1
  <2>9. F[<<i + 1, f[i]>>] = Crc7Update(f[i], bytes[i])
    <3>1. i + 1 \in 1 .. 5 /\ (i + 1) - 1 = i
      OBVIOUS
    <3> QED
      BY <1>2, <2>6, <2>7, <3>1
  <2> QED
    BY <2>3, <2>7, <2>8, <2>9 DEF w
<1>6. Good(0)
  <2>1. M(0) = {}
    <3>1. 0 \in 0 .. 5 /\ 7 \in Nat /\ 5 \in Nat /\ \A q \in 0 .. 5 - 1 : q \in 0 .. 4
      OBVIOUS
    <3> QED
      BY <1>9, <3>1, MessageLaws
  <2>2. R({}) = {}
    BY RemainderNothing
  <2> QED
    BY <1>4, <2>1, <2>2 DEF Low
<1> HIDE DEF Good
<1>7. Good(1) /\ Good(2) /\ Good(3) /\ Good(4) /\ Good(5)
  <2>1. Good(0 + 1)
    BY <1>5, <1>6
  <2>2. Good(1 + 1)
    BY <1>5, <2>1
  <2>3. Good(2 + 1)
    BY <1>5, <2>2
  <2>4. Good(3 + 1)
    BY <1>5, <2>3
  <2>5. Good(4 + 1)
    BY <1>5, <2>4
  <2> QED
    BY <2>1, <2>2, <2>3, <2>4, <2>5
<1>8. \A i \in 1 .. 5 : f[i] = Crc7Update(f[i - 1], bytes[i - 1])
  <2> TAKE i \in 1 .. 5
  <2>1. i - 1 \in 0 .. 4 /\ (i - 1) + 1 = i
    OBVIOUS
  <2>2. i - 1 = 0 \/ i - 1 = 1 \/ i - 1 = 2 \/ i - 1 = 3 \/ i - 1 = 4
    OBVIOUS
  <2>3. Good(i - 1)
    BY <1>6, <1>7, <2>2
  <2> QED
    BY <1>5, <2>1, <2>3
<1>10. \A c, b : UNION {Crc7Update(v, b) : v \in {c}} = Crc7Update(c, b)
  OBVIOUS
<1>11. Registers(f)
  <2>1. \A i \in 0 .. 5 : f[i] = IF i = 0 THEN {}
                                 ELSE UNION {Crc7Update(c, bytes[i - 1]) : c \in {f[i - 1]}}
    <3> TAKE i \in 0 .. 5
    <3>1. i # 0 => i \in 1 .. 5
      OBVIOUS
    <3> QED
      BY <1>4, <1>8, <1>10, <3>1
  <2>2. f = [i \in 0 .. 5 |-> IF i = 0 THEN {}
                              ELSE UNION {Crc7Update(c, bytes[i - 1]) : c \in {f[i - 1]}}]
    BY <1>4, <2>1
  <2> QED
    BY <2>2 DEF Then
<1>12. Registers(crc)
  BY <1>11
<1>13. Crc7(token, arg) = Shl(crc[5], 1, 8) \cup {0}
  BY DEF Crc7, Then, bytes, Covered
<1>14. crc[0] = {} /\ \A i \in 1 .. 5 : crc[i] = Crc7Update(crc[i - 1], bytes[i - 1])
  <2>1. \A i \in 0 .. 5 : crc[i] = IF i = 0 THEN {}
                                   ELSE UNION {Crc7Update(c, bytes[i - 1]) : c \in {crc[i - 1]}}
    <3> HIDE DEF crc
    <3> QED
      BY <1>12 DEF Then
  <2> HIDE DEF crc
  <2>2. crc[0] = {}
    BY <2>1
  <2>3. ASSUME NEW i \in 1 .. 5 PROVE crc[i] = Crc7Update(crc[i - 1], bytes[i - 1])
    <3>1. i \in 0 .. 5 /\ i # 0
      OBVIOUS
    <3> QED
      BY <1>10, <2>1, <3>1
  <2> QED
    BY <2>2, <2>3
<1> HIDE DEF crc, Registers
<1>15. crc[5] = f[5]
  <2>1. ASSUME NEW i \in 1 .. 5, crc[i - 1] = f[i - 1] PROVE crc[i] = f[i]
    BY <1>8, <1>14, <2>1
  <2>2. crc[1 - 1] = f[1 - 1]
    BY <1>4, <1>14
  <2>3. crc[2 - 1] = f[2 - 1]
    BY <2>1, <2>2
  <2>4. crc[3 - 1] = f[3 - 1]
    BY <2>1, <2>3
  <2>5. crc[4 - 1] = f[4 - 1]
    BY <2>1, <2>4
  <2>6. crc[5 - 1] = f[5 - 1]
    BY <2>1, <2>5
  <2> QED
    BY <2>1, <2>6
<1>16. Shl(f[5], 1, 8) = Shl(Low(f[5]), 1, 8)
  <2>1. f[5] \subseteq 0 .. 7
    BY <1>4 DEF Word
  <2>2. \A b \in f[5] : b + 1 \in 0 .. 8 - 1 => b \in Low(f[5])
    BY <2>1 DEF Low
  <2> QED
    BY <2>2 DEF Shl, Low
<1>17. Powers7 = Powers(G7, 7, m)
  BY <1>0 DEF Powers7, G7
<1> QED
  BY <1>7, <1>13, <1>15, <1>16, <1>17 DEF Good, bytes
=============================================================================
