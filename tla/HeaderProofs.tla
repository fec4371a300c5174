---------------------------- MODULE HeaderProofs ----------------------------
(***************************************************************************)
(* Proofs about the numbers in a tar header and in a pax header: every     *)
(* size and every checksum is read as it was written, the mutator of the   *)
(* harnesses writes headers that the parser takes, and paxSize() finds the *)
(* size that a list of records says.                                       *)
(***************************************************************************)
EXTENDS MCHeaders, SequenceTheorems, WellFoundedInduction, TLAPS

----------------------------------------------------------------------------
(* The recursive functions of the model exist, and what they satisfy. *)

\* A set of naturals that holds 0 and the successors of its elements holds all.
LEMMA SetInduction ==
  ASSUME NEW S, 0 \in S, \A n \in Nat : n \in S => n + 1 \in S
  PROVE  Nat \subseteq S
<1>1. SUFFICES ASSUME Nat \ S # {} PROVE FALSE
  OBVIOUS
<1>2. PICK x \in Nat \ S : \A y \in Nat \ S : ~(<<y, x>> \in OpToRel(<, Nat))
  BY <1>1, NatLessThanWellFounded, WFMin
<1>3. x \in Nat /\ x # 0 /\ x \notin S
  OBVIOUS
<1> DEFINE y == x - 1
<1>4. y \in Nat /\ y < x /\ y + 1 = x
  BY <1>3
<1> HIDE DEF y
<1>5. <<y, x>> \in OpToRel(<, Nat)
  BY <1>3, <1>4 DEF OpToRel
<1>6. y \in S
  BY <1>2, <1>5, <1>4
<1> QED
  BY <1>3, <1>6, <1>4

\* What Power() computes.
PowerTable(f, base, n) == f = [k \in 0 .. n |-> IF k = 0 THEN 1 ELSE f[k - 1] * base]

LEMMA PowerTableExists ==
  ASSUME NEW base, NEW n \in Nat
  PROVE  \E f : PowerTable(f, base, n)
<1> DEFINE Body(f, k) == IF k = 0 THEN 1 ELSE f[k - 1] * base
           S == {m \in Nat : \E g : \A k \in 0 .. m : g[k] = Body(g, k)}
<1>1. 0 \in S
  <2> DEFINE g == [k \in 0 .. 0 |-> 1]
  <2>1. \A k \in 0 .. 0 : g[k] = Body(g, k)
    OBVIOUS
  <2> QED
    BY <2>1
<1>2. ASSUME NEW m \in Nat, m \in S PROVE m + 1 \in S
  <2>1. PICK g : \A k \in 0 .. m : g[k] = Body(g, k)
    BY <1>2
  <2> DEFINE h == [k \in 0 .. m + 1 |-> IF k = m + 1 THEN Body(g, k) ELSE g[k]]
  <2>2. \A k \in 0 .. m : h[k] = g[k]
    OBVIOUS
  <2>3. h[m + 1] = Body(g, m + 1)
    OBVIOUS
  <2>4. ASSUME NEW k \in 0 .. m + 1 PROVE Body(h, k) = Body(g, k)
    BY <2>2
  <2> HIDE DEF h
  <2>5. \A k \in 0 .. m + 1 : h[k] = Body(h, k)
    <3> HIDE DEF Body
    <3> QED BY <2>1, <2>2, <2>3, <2>4
  <2> QED
    BY <2>5
<1>3. n \in S
  <2> HIDE DEF S
  <2> QED BY <1>1, <1>2, SetInduction
<1>4. PICK g : \A k \in 0 .. n : g[k] = Body(g, k)
  BY <1>3
<1> DEFINE f == [k \in 0 .. n |-> g[k]]
<1>5. \A k \in 0 .. n : f[k] = Body(f, k)
  BY <1>4
<1>6. PowerTable(f, base, n)
  BY <1>5 DEF PowerTable
<1> QED
  <2> HIDE DEF f
  <2> QED BY <1>6

\* Power() multiplies by its base from 1 on.
LEMMA PowerFacts ==
  ASSUME NEW base \in Nat \ {0}
  PROVE  /\ Power(base, 0) = 1
         /\ \A n \in Nat : Power(base, n + 1) = Power(base, n) * base
         /\ \A n \in Nat : Power(base, n) \in Nat \ {0}
<1> DEFINE P(n) == CHOOSE f : PowerTable(f, base, n)
<1>1. ASSUME NEW n \in Nat PROVE PowerTable(P(n), base, n) /\ Power(base, n) = P(n)[n]
  <2>1. PowerTable(P(n), base, n)
    BY PowerTableExists
  <2>2. Power(base, n) = P(n)[n]
    BY DEF Power, PowerTable
  <2> QED
    BY <2>1, <2>2
<1> HIDE DEF P
<1>2. ASSUME NEW n \in Nat PROVE P(n)[0] = 1 /\ \A k \in 1 .. n : P(n)[k] = P(n)[k - 1] * base
  BY <1>1 DEF PowerTable
<1> DEFINE S == {j \in Nat : \A n \in Nat : j <= n => P(n)[j] = P(j)[j]}
<1>3. 0 \in S
  BY <1>2
<1>4. ASSUME NEW j \in Nat, j \in S PROVE j + 1 \in S
  <2> SUFFICES ASSUME NEW n \in Nat, j + 1 <= n PROVE P(n)[j + 1] = P(j + 1)[j + 1]
    OBVIOUS
  <2>1. P(n)[j] = P(j)[j] /\ P(j + 1)[j] = P(j)[j]
    BY <1>4
  <2>2. P(n)[j + 1] = P(n)[j] * base /\ P(j + 1)[j + 1] = P(j + 1)[j] * base
    <3>1. j + 1 \in 1 .. n /\ j + 1 \in 1 .. j + 1 /\ j + 1 - 1 = j /\ j + 1 \in Nat
      OBVIOUS
    <3> QED
      BY <1>2, <3>1
  <2> QED
    BY <2>1, <2>2
<1>5. Nat \subseteq S
  <2> HIDE DEF S
  <2> QED BY <1>3, <1>4, SetInduction
<1>6. Power(base, 0) = 1
  BY <1>1, <1>2
<1>7. ASSUME NEW n \in Nat PROVE Power(base, n + 1) = Power(base, n) * base
  <2>1. P(n + 1)[n] = P(n)[n]
    BY <1>5
  <2>2. P(n + 1)[n + 1] = P(n + 1)[n] * base
    <3>1. n + 1 \in 1 .. n + 1 /\ n + 1 - 1 = n /\ n + 1 \in Nat
      OBVIOUS
    <3> QED
      BY <1>2, <3>1
  <2> QED
    BY <1>1, <2>1, <2>2
<1>8. \A n \in Nat : Power(base, n) \in Nat \ {0}
  <2> DEFINE T == {n \in Nat : Power(base, n) \in Nat \ {0}}
  <2>1. 0 \in T
    BY <1>6
  <2>2. ASSUME NEW n \in Nat, n \in T PROVE n + 1 \in T
    <3>1. PICK p \in Nat \ {0} : p = Power(base, n)
      BY <2>2
    <3>2. p * base \in Nat \ {0}
      OBVIOUS
    <3> QED
      BY <1>7, <3>1, <3>2
  <2>3. Nat \subseteq T
    <3> HIDE DEF T
    <3> QED BY <2>1, <2>2, SetInduction
  <2> QED
    BY <2>3
<1> QED
  BY <1>6, <1>7, <1>8

\* What ValueOf() computes.
ValueTable(f, ds, base) ==
  f = [k \in 0 .. Len(ds) |-> IF k = 0 THEN 0 ELSE f[k - 1] * base + ds[k]]

\* The values of the first digits.
ValuesOf(ds, base) == CHOOSE f : ValueTable(f, ds, base)

\* ValueOf() is the last of the values of the first digits.
LEMMA ValuesOfFacts ==
  ASSUME NEW ds, Len(ds) \in Nat, NEW base
  PROVE  /\ ValuesOf(ds, base)[0] = 0
         /\ \A k \in Nat : k < Len(ds) =>
              ValuesOf(ds, base)[k + 1] = ValuesOf(ds, base)[k] * base + ds[k + 1]
         /\ ValueOf(ds, base) = ValuesOf(ds, base)[Len(ds)]
<1> DEFINE N == Len(ds)
           Body(f, k) == IF k = 0 THEN 0 ELSE f[k - 1] * base + ds[k]
           S == {m \in Nat : \E g : \A k \in 0 .. m : g[k] = Body(g, k)}
<1>1. 0 \in S
  <2> DEFINE g == [k \in 0 .. 0 |-> 0]
  <2>1. \A k \in 0 .. 0 : g[k] = Body(g, k)
    OBVIOUS
  <2> QED
    BY <2>1
<1>2. ASSUME NEW m \in Nat, m \in S PROVE m + 1 \in S
  <2>1. PICK g : \A k \in 0 .. m : g[k] = Body(g, k)
    BY <1>2
  <2> DEFINE h == [k \in 0 .. m + 1 |-> IF k = m + 1 THEN Body(g, k) ELSE g[k]]
  <2>2. \A k \in 0 .. m : h[k] = g[k]
    OBVIOUS
  <2>3. h[m + 1] = Body(g, m + 1)
    OBVIOUS
  <2>4. ASSUME NEW k \in 0 .. m + 1 PROVE Body(h, k) = Body(g, k)
    BY <2>2
  <2> HIDE DEF h
  <2>5. \A k \in 0 .. m + 1 : h[k] = Body(h, k)
    <3> HIDE DEF Body
    <3> QED BY <2>1, <2>2, <2>3, <2>4
  <2> QED
    BY <2>5
<1>3. N \in S
  <2> HIDE DEF S
  <2> QED BY <1>1, <1>2, SetInduction
<1>4. PICK g : \A k \in 0 .. N : g[k] = Body(g, k)
  BY <1>3
<1> DEFINE f == [k \in 0 .. N |-> g[k]]
<1>5. \A k \in 0 .. N : f[k] = Body(f, k)
  BY <1>4
<1>6. ValueTable(f, ds, base)
  BY <1>5 DEF ValueTable
<1> DEFINE v == ValuesOf(ds, base)
<1>7. ValueTable(v, ds, base)
  <2> HIDE DEF f
  <2> QED BY <1>6 DEF ValuesOf
<1>8. ValueOf(ds, base) = v[N]
  BY DEF ValueOf, ValueTable, ValuesOf
<1> HIDE DEF v
<1>9. v[0] = 0 /\ \A k \in 1 .. N : v[k] = v[k - 1] * base + ds[k]
  BY <1>7 DEF ValueTable
<1>10. ASSUME NEW k \in Nat, k < N PROVE v[k + 1] = v[k] * base + ds[k + 1]
  <2>1. \A m \in Nat, l \in Nat : l < m => l + 1 \in 1 .. m /\ l = (l + 1) - 1
    OBVIOUS
  <2>2. PICK j \in 1 .. N : j = k + 1 /\ k = j - 1
    BY <2>1, <1>10
  <2> QED
    BY <1>9, <2>2
<1> QED
  BY <1>8, <1>9, <1>10 DEF v

LEMMA ValueFacts ==
  ASSUME NEW ds, Len(ds) \in Nat, NEW base
  PROVE  \E f : /\ f[0] = 0
                /\ \A k \in Nat : k < Len(ds) => f[k + 1] = f[k] * base + ds[k + 1]
                /\ ValueOf(ds, base) = f[Len(ds)]
<1>1. \E v : v = ValuesOf(ds, base)
  OBVIOUS
<1> QED
  BY <1>1, ValuesOfFacts

----------------------------------------------------------------------------
(* Numbers as digits, and back. *)

\* A quotient and a rest.
LEMMA DivFacts ==
  ASSUME NEW a \in Nat, NEW b \in Nat \ {0}
  PROVE  /\ a \div b \in Nat /\ a % b \in 0 .. b - 1
         /\ a = (a % b) + b * (a \div b)
  OBVIOUS

\* The same with the quotient first.
LEMMA DivParts ==
  ASSUME NEW a \in Nat, NEW b \in Nat \ {0}
  PROVE  a = (a \div b) * b + (a % b)
<1>1. PICK q \in Nat, r \in 0 .. b - 1 : q = a \div b /\ r = a % b /\ a = r + b * q
  BY DivFacts
<1>2. r + b * q = q * b + r
  OBVIOUS
<1> QED
  BY <1>1, <1>2

\* Dividing by two numbers is dividing by their product.
LEMMA DivDiv ==
  ASSUME NEW a \in Nat, NEW b \in Nat \ {0}, NEW c \in Nat \ {0}
  PROVE  a \div (b * c) = (a \div b) \div c
<1>1. PICK q \in Nat, r \in 0 .. b - 1 : q = a \div b /\ a = r + b * q
  BY DivFacts
<1>2. PICK t \in Nat, s \in 0 .. c - 1 : t = q \div c /\ q = s + c * t
  BY DivFacts
<1>3. b * c \in Nat \ {0}
  OBVIOUS
<1>4. PICK u \in Nat, w \in 0 .. b * c - 1 : u = a \div (b * c) /\ a = w + (b * c) * u
  BY DivFacts, <1>3
<1> DEFINE m == b * c
           z == s * b + r
<1>5. z \in 0 .. m - 1
  <2>1. s * b <= (c - 1) * b /\ s * b \in Nat
    OBVIOUS
  <2>2. (c - 1) * b = m - b
    OBVIOUS
  <2> QED
    BY <2>1, <2>2, <1>3
<1>6. a = t * m + z
  <2>1. b * (s + c * t) = t * (b * c) + s * b
    OBVIOUS
  <2>2. b * q = b * (s + c * t)
    BY <1>2
  <2>3. a = r + (t * (b * c) + s * b)
    BY <1>1, <2>1, <2>2
  <2> QED
    BY <2>3
<1>7. u = t
  <2> HIDE DEF m, z
  <2>0. m * u = u * m
    BY <1>3 DEF m
  <2>1. t * m + z = u * m + w /\ w \in 0 .. m - 1 /\ m \in Nat \ {0}
    <3>1. a = w + m * u /\ w \in 0 .. m - 1 /\ m \in Nat \ {0}
      BY <1>3, <1>4 DEF m
    <3>2. a = t * m + z
      BY <1>6 DEF m
    <3>3. u * m \in Nat /\ w \in Nat
      BY <3>1
    <3> QED
      BY <2>0, <3>1, <3>2, <3>3
  <2>2. ASSUME t < u PROVE FALSE
    <3>1. (t + 1) * m <= u * m
      BY <2>1, <2>2
    <3>2. (t + 1) * m = t * m + m
      BY <2>1
    <3>3. t * m \in Nat /\ u * m \in Nat /\ (t + 1) * m \in Nat
      BY <2>1
    <3> QED
      BY <2>1, <1>5, <3>1, <3>2, <3>3
  <2>3. ASSUME u < t PROVE FALSE
    <3>1. (u + 1) * m <= t * m
      BY <2>1, <2>3
    <3>2. (u + 1) * m = u * m + m
      BY <2>1
    <3>3. t * m \in Nat /\ u * m \in Nat /\ (u + 1) * m \in Nat
      BY <2>1
    <3> QED
      BY <2>1, <1>5, <3>1, <3>2, <3>3
  <2> QED
    BY <2>2, <2>3
<1> QED
  BY <1>1, <1>2, <1>4, <1>7

\* The digits of a number are numbers below the base.
LEMMA DigitsType ==
  ASSUME NEW base \in Nat \ {0}, NEW n \in Nat, NEW width \in Nat
  PROVE  /\ InDigits(n, width, base) \in Seq(0 .. base - 1)
         /\ Len(InDigits(n, width, base)) = width
<1>1. ASSUME NEW k \in 1 .. width
      PROVE  (n \div Power(base, width - k)) % base \in 0 .. base - 1
  <2>1. width - k \in Nat
    OBVIOUS
  <2>2. Power(base, width - k) \in Nat \ {0}
    BY <2>1, PowerFacts
  <2> QED
    BY <2>2, DivFacts
<1> QED
  BY <1>1 DEF InDigits

\* A number is the value of its digits.
LEMMA DigitsValue ==
  ASSUME NEW base \in Nat \ {0}, NEW width \in Nat, NEW n \in 0 .. Power(base, width) - 1
  PROVE  ValueOf(InDigits(n, width, base), base) = n
<1> DEFINE ds == InDigits(n, width, base)
<1>0. n \in Nat /\ Power(base, width) \in Nat \ {0}
  BY PowerFacts
<1>1. Len(ds) = width /\ \A k \in 1 .. width : ds[k] = (n \div Power(base, width - k)) % base
  BY <1>0, DigitsType DEF InDigits
<1> HIDE DEF ds
<1>2. PICK v : /\ v[0] = 0
               /\ \A k \in Nat : k < Len(ds) => v[k + 1] = v[k] * base + ds[k + 1]
               /\ ValueOf(ds, base) = v[Len(ds)]
  BY <1>1, ValueFacts
<1> DEFINE S == {k \in Nat : k <= width => v[k] = n \div Power(base, width - k)}
<1>3. 0 \in S
  <2>1. n \div Power(base, width) = 0
    BY <1>0
  <2>2. width - 0 = width
    OBVIOUS
  <2> QED
    BY <1>2, <2>1, <2>2
<1>4. ASSUME NEW k \in Nat, k \in S PROVE k + 1 \in S
  <2> SUFFICES ASSUME k + 1 <= width PROVE v[k + 1] = n \div Power(base, width - (k + 1))
    OBVIOUS
  <2> DEFINE j == width - (k + 1)
  <2>1. j \in Nat /\ j + 1 = width - k /\ k + 1 \in 1 .. width /\ k + 1 - 1 = k /\ k <= width
    OBVIOUS
  <2> HIDE DEF j
  <2>2. PICK p \in Nat \ {0} : p = Power(base, j)
    BY <2>1, PowerFacts
  <2>3. v[k] = n \div (p * base)
    <3>1. Power(base, width - k) = p * base
      BY <2>1, <2>2, PowerFacts
    <3> QED
      BY <1>4, <2>1, <3>1
  <2>4. PICK m \in Nat : m = n \div p
    BY <1>0, <2>2, DivFacts
  <2>5. v[k] = m \div base
    BY <1>0, <2>2, <2>3, <2>4, DivDiv
  <2>6. v[k + 1] = v[k] * base + (m % base)
    <3>1. ds[k + 1] = m % base
      BY <1>1, <2>1, <2>2, <2>4 DEF j
    <3>2. v[k + 1] = v[k] * base + ds[k + 1]
      BY <1>1, <1>2, <2>1
    <3> QED
      BY <3>1, <3>2
  <2>7. v[k + 1] = m
    <3>1. m = (m \div base) * base + (m % base)
      BY DivParts
    <3> QED
      BY <2>5, <2>6, <3>1, Zenon
  <2> QED
    BY <2>2, <2>4, <2>7 DEF j
<1>5. v[width] = n
  <2>1. width \in S
    <3> HIDE DEF S
    <3> QED BY <1>3, <1>4, SetInduction
  <2>2. v[width] = n \div Power(base, 0)
    <3>1. width - width = 0
      OBVIOUS
    <3> QED
      BY <2>1, <3>1
  <2>3. n \div 1 = n
    OBVIOUS
  <2> QED
    BY <2>2, <2>3, PowerFacts
<1> QED
  BY <1>1, <1>2, <1>5 DEF ds

\* The value of the first digits is a number of that many digits, which grows.
LEMMA ValuesBounds ==
  ASSUME NEW base \in Nat \ {0}, NEW ds \in Seq(0 .. base - 1)
  PROVE  LET v == ValuesOf(ds, base)
         IN  /\ \A k \in 0 .. Len(ds) : v[k] \in 0 .. Power(base, k) - 1 /\ v[k] <= v[Len(ds)]
             /\ \A k \in Nat : k < Len(ds) => v[k + 1] >= v[k] * base
             /\ ds # <<>> /\ ds[1] # 0 => v[Len(ds)] >= Power(base, Len(ds) - 1)
<1> DEFINE v == ValuesOf(ds, base)
           N == Len(ds)
<1>0. N \in Nat /\ \A k \in 1 .. N : ds[k] \in 0 .. base - 1
  OBVIOUS
<1>1. v[0] = 0 /\ \A k \in Nat : k < N => v[k + 1] = v[k] * base + ds[k + 1]
  BY <1>0, ValuesOfFacts
<1> HIDE DEF v, N
<1>2. \A k \in Nat : k <= N => v[k] \in 0 .. Power(base, k) - 1
  <2> DEFINE S == {k \in Nat : k <= N => v[k] \in 0 .. Power(base, k) - 1}
  <2>1. 0 \in S
    <3>1. Power(base, 0) = 1
      BY PowerFacts
    <3> QED
      BY <1>1, <3>1
  <2>2. ASSUME NEW k \in Nat, k \in S PROVE k + 1 \in S
    <3>1. SUFFICES ASSUME k + 1 <= N PROVE v[k + 1] \in 0 .. Power(base, k + 1) - 1
      OBVIOUS
    <3>2. PICK p \in Nat \ {0} : p = Power(base, k)
      BY PowerFacts
    <3>3. PICK x \in 0 .. p - 1 : x = v[k]
      <4>1. k <= N
        BY <1>0, <3>1
      <4> QED
        BY <2>2, <3>2, <4>1
    <3>4. PICK d \in 0 .. base - 1 : d = ds[k + 1]
      <4>1. k + 1 \in 1 .. N
        BY <1>0, <3>1
      <4> QED
        BY <1>0, <4>1
    <3>5. v[k + 1] = x * base + d
      BY <1>0, <1>1, <3>1, <3>3, <3>4
    <3>6. Power(base, k + 1) = p * base
      BY <3>2, PowerFacts
    <3>7. x * base + d \in 0 .. p * base - 1
      <4>1. x * base <= (p - 1) * base /\ (p - 1) * base = p * base - base
        OBVIOUS
      <4>2. x * base \in Nat /\ p * base \in Nat
        OBVIOUS
      <4> QED
        BY <4>1, <4>2
    <3> QED
      BY <3>5, <3>6, <3>7
  <2>3. Nat \subseteq S
    <3> HIDE DEF S
    <3> QED BY <2>1, <2>2, SetInduction
  <2> QED
    BY <2>3
<1>3. ASSUME NEW k \in Nat, k < N
      PROVE  v[k + 1] >= v[k] * base /\ v[k + 1] >= v[k] /\ v[k] \in Nat
  <2>1. PICK x \in Nat : x = v[k]
    <3>1. v[k] \in 0 .. Power(base, k) - 1
      BY <1>0, <1>2, <1>3
    <3> QED
      BY <3>1
  <2>2. PICK d \in Nat : d = ds[k + 1]
    <3>1. k + 1 \in 1 .. N
      BY <1>0, <1>3
    <3> QED
      BY <1>0, <3>1
  <2>3. v[k + 1] = x * base + d
    BY <1>1, <1>3, <2>1, <2>2
  <2>4. x * base \in Nat /\ x * base >= x
    OBVIOUS
  <2> QED
    BY <2>1, <2>3, <2>4
<1>4. \A k \in Nat : k <= N => v[N - k] <= v[N]
  <2> DEFINE S == {k \in Nat : k <= N => v[N - k] <= v[N]}
  <2>0. v[N] \in Nat
    <3>1. v[N] \in 0 .. Power(base, N) - 1
      BY <1>0, <1>2
    <3> QED
      BY <3>1
  <2>1. 0 \in S
    <3>1. N - 0 = N
      BY <1>0
    <3> QED
      BY <2>0, <3>1
  <2>2. ASSUME NEW k \in Nat, k \in S PROVE k + 1 \in S
    <3>1. SUFFICES ASSUME k + 1 <= N PROVE v[N - (k + 1)] <= v[N]
      OBVIOUS
    <3> DEFINE j == N - (k + 1)
    <3>2. j \in Nat /\ j < N /\ j + 1 = N - k /\ k <= N
      BY <1>0, <3>1
    <3> HIDE DEF j
    <3>3. v[j + 1] >= v[j] /\ v[j] \in Nat
      BY <1>3, <3>2
    <3>4. v[j + 1] <= v[N]
      BY <2>2, <3>2
    <3>5. v[j + 1] \in Nat
      <4>1. v[j + 1] \in 0 .. Power(base, j + 1) - 1
        BY <1>0, <1>2, <3>2
      <4> QED
        BY <4>1
    <3>6. v[j] <= v[N]
      BY <2>0, <3>3, <3>4, <3>5
    <3> QED
      BY <3>6 DEF j
  <2>3. Nat \subseteq S
    <3> HIDE DEF S
    <3> QED BY <2>1, <2>2, SetInduction
  <2> QED
    BY <2>3
<1>5. ASSUME NEW k \in 0 .. N PROVE v[k] <= v[N]
  <2> DEFINE j == N - k
  <2>1. j \in Nat /\ j <= N /\ N - j = k
    BY <1>0
  <2> HIDE DEF j
  <2> QED
    BY <1>4, <2>1
<1>6. ASSUME ds # <<>>, ds[1] # 0 PROVE v[N] >= Power(base, N - 1)
  <2>0. N >= 1
    BY <1>6 DEF N
  <2> DEFINE S == {k \in Nat : k + 1 <= N => v[k + 1] >= Power(base, k)}
  <2>1. 0 \in S
    <3>1. PICK d \in 1 .. base - 1 : d = ds[1]
      <4>1. 1 \in 1 .. N
        BY <1>0, <2>0
      <4> QED
        BY <1>0, <1>6, <4>1
    <3>2. v[0 + 1] = v[0] * base + ds[0 + 1]
      BY <1>0, <1>1, <2>0
    <3>3. v[0 + 1] = d
      BY <1>1, <3>1, <3>2
    <3>4. v[0 + 1] >= Power(base, 0)
      <4>1. Power(base, 0) = 1
        BY PowerFacts
      <4> QED
        BY <3>3, <4>1
    <3> QED
      BY <3>4
  <2>2. ASSUME NEW k \in Nat, k \in S PROVE k + 1 \in S
    <3>1. SUFFICES ASSUME k + 1 + 1 <= N PROVE v[k + 1 + 1] >= Power(base, k + 1)
      OBVIOUS
    <3>2. k + 1 \in Nat /\ k + 1 < N /\ k + 1 <= N
      BY <1>0, <3>1
    <3>3. PICK x \in Nat : x = v[k + 1]
      BY <1>3, <3>2
    <3>4. PICK p \in Nat \ {0} : p = Power(base, k)
      BY PowerFacts
    <3>5. x >= p
      BY <2>2, <3>2, <3>3, <3>4
    <3>6. v[k + 1 + 1] >= x * base
      BY <1>3, <3>2, <3>3
    <3>7. Power(base, k + 1) = p * base
      BY <3>4, PowerFacts
    <3>8. x * base >= p * base /\ x * base \in Nat /\ p * base \in Nat
      BY <3>5
    <3>9. v[k + 1 + 1] \in Nat
      <4>1. v[k + 1 + 1] \in 0 .. Power(base, k + 1 + 1) - 1
        BY <1>0, <1>2, <3>1
      <4> QED
        BY <4>1
    <3>10. \A a \in Nat, b \in Nat, c \in Nat : a >= b /\ b >= c => a >= c
      OBVIOUS
    <3>11. v[k + 1 + 1] >= p * base
      BY <3>6, <3>8, <3>9, <3>10
    <3> QED
      BY <3>7, <3>11, Zenon
  <2>3. Nat \subseteq S
    <3> HIDE DEF S
    <3> QED BY <2>1, <2>2, SetInduction
  <2>4. PICK k \in Nat : k + 1 = N /\ k = N - 1
    <3>1. N - 1 \in Nat /\ N - 1 + 1 = N
      BY <1>0, <2>0
    <3> QED
      BY <3>1
  <2>5. k \in S /\ k + 1 <= N
    BY <1>0, <2>3, <2>4
  <2>6. v[k + 1] >= Power(base, k)
    BY <2>5
  <2> QED
    BY <2>4, <2>6
<1>7. \A k \in 0 .. N : v[k] \in 0 .. Power(base, k) - 1 /\ v[k] <= v[N]
  BY <1>0, <1>2, <1>5
<1>8. \A k \in Nat : k < N => v[k + 1] >= v[k] * base
  BY <1>3
<1> QED
  BY <1>6, <1>7, <1>8 DEF v, N

\* A least element is found by its property.
LEMMA MinIs ==
  ASSUME NEW S \in SUBSET Nat, NEW x \in S, \A y \in S : x <= y
  PROVE  Min(S) = x
<1>1. \A y \in S : (\A z \in S : y <= z) => y = x
  OBVIOUS
<1> QED
  BY <1>1 DEF Min

\* The constants, without the powers.
LEMMA Constants ==
  /\ Radix \in Nat \ {0, 1} /\ Byte \in Nat /\ TopBit \in Nat /\ 2 * TopBit <= Byte
  /\ Radix + 2 < TopBit /\ TopBit <= Byte - 1
  /\ Digits \in Nat \ {0} /\ MaxBlocks \in Nat /\ Samples \subseteq 0 .. Byte - 1
<1>1. /\ Radix \in Nat \ {0, 1} /\ Byte \in Nat /\ Digits \in Nat /\ MaxBlocks \in Nat
      /\ Samples \subseteq 0 .. Byte - 1 /\ Radix + 2 < TopBit
  BY TarFieldsAssumption DEF Minus
<1>2. TopBit \in Nat /\ 2 * TopBit <= Byte
  BY <1>1 DEF TopBit
<1>3. Digits # 0
  <2>1. SUFFICES ASSUME Digits = 0 PROVE FALSE
    OBVIOUS
  <2>2. Power(Radix, 0) = 1
    BY <1>1, PowerFacts
  <2>3. SizeWidth * (Byte - 1) + ChecksumWidth < 1
    BY <2>1, <2>2, TarFieldsAssumption
  <2> QED
    BY <2>1, <2>3, <1>1, <1>2 DEF SizeWidth, ChecksumWidth
<1> QED
  BY <1>1, <1>2, <1>3

\* Octal digits are characters that strtoul() knows.
LEMMA OctalDigits ==
  ASSUME NEW n \in Nat, NEW width \in Nat
  PROVE  /\ Octal(n, width) \in Seq(Int) /\ Len(Octal(n, width)) = width
         /\ \A k \in 1 .. width : /\ Octal(n, width)[k] = 2 + InDigits(n, width, Radix)[k]
                                  /\ Octal(n, width)[k] \in 2 .. Radix + 1
                                  /\ InDigits(n, width, Radix)[k] \in 0 .. Radix - 1
                                  /\ IsDigit(Octal(n, width)[k])
<1>1. /\ InDigits(n, width, Radix) \in Seq(0 .. Radix - 1)
      /\ Len(InDigits(n, width, Radix)) = width
  BY Constants, DigitsType
<1> DEFINE ds == InDigits(n, width, Radix)
<1>2. \A k \in 1 .. width : ds[k] \in 0 .. Radix - 1
  <2> SUFFICES ASSUME NEW d \in Seq(0 .. Radix - 1), Len(d) = width
               PROVE  \A k \in 1 .. width : d[k] \in 0 .. Radix - 1
    BY <1>1
  <2> QED
    BY ElementOfSeq
<1> HIDE DEF ds
<1>3. Octal(n, width) = [k \in 1 .. width |-> 2 + ds[k]]
  BY DEF Octal, Digit, ds
<1>4. \A k \in 1 .. width : 2 + ds[k] \in 2 .. Radix + 1
  BY <1>2, Constants
<1>5. \A k \in 1 .. width : IsDigit(2 + ds[k])
  BY <1>2 DEF IsDigit, Digit
<1> QED
  BY <1>2, <1>3, <1>4, <1>5 DEF ds

\* strtoul() reads a number from its digits, past spaces, up to the end of the
\* field or to a byte that is no digit.
LEMMA StrtoulReads ==
  ASSUME NEW field \in Seq(Int), NEW lead \in Nat, NEW width \in Nat \ {0},
         NEW n \in 0 .. Power(Radix, width) - 1,
         lead + width <= Len(field),
         \A k \in 1 .. lead : field[k] = Space,
         \A k \in 1 .. width : field[lead + k] = Octal(n, width)[k],
         lead + width < Len(field) => ~IsDigit(field[lead + width + 1])
  PROVE  strtoul(field) = n
<1>0. Radix \in Nat \ {0} /\ n \in Nat
  BY Constants, PowerFacts
<1> DEFINE text == Append(field, NUL)
           N == Len(field)
           ones == {k \in DOMAIN text : text[k] # Space}
           start == Min(ones)
           others == {k \in start .. Len(text) : ~IsDigit(text[k])}
           stop == Min(others)
<1>1. N \in Nat /\ Len(text) = N + 1 /\ DOMAIN text = 1 .. N + 1
  OBVIOUS
<1>2. (\A k \in 1 .. N : text[k] = field[k]) /\ text[N + 1] = 0
  BY DEF NUL
<1> HIDE DEF text, N
<1>3. ASSUME NEW k \in 1 .. width
      PROVE  /\ text[lead + k] = 2 + InDigits(n, width, Radix)[k]
             /\ text[lead + k] \in 2 .. Radix + 1 /\ IsDigit(text[lead + k])
  <2>1. lead + k \in 1 .. N
    BY <1>1 DEF N
  <2>2. text[lead + k] = Octal(n, width)[k]
    BY <1>2, <2>1
  <2>3. Octal(n, width)[k] \in 2 .. Radix + 1
    BY <1>0, OctalDigits
  <2> QED
    BY <2>2, <2>3, <1>0, OctalDigits
<1>4. start = lead + 1
  <2>1. lead + 1 \in ones
    <3>1. lead + 1 \in 1 .. N + 1
      BY <1>1 DEF N
    <3>2. text[lead + 1] \in 2 .. Radix + 1
      BY <1>3
    <3> QED
      BY <1>1, <3>1, <3>2 DEF Space
  <2>2. \A k \in ones : lead + 1 <= k
    <3>1. ASSUME NEW k \in ones, k <= lead PROVE FALSE
      <4>1. k \in 1 .. N + 1 /\ text[k] # Space
        BY <1>1
      <4>2. k \in 1 .. lead /\ k \in 1 .. N
        BY <1>1, <3>1, <4>1 DEF N
      <4> QED
        BY <1>2, <4>1, <4>2
    <3>2. ones \subseteq Nat
      BY <1>1
    <3> HIDE DEF ones
    <3> QED
      BY <3>1, <3>2
  <2>3. ones \subseteq Nat
    BY <1>1
  <2> HIDE DEF ones
  <2> QED
    BY <2>1, <2>2, <2>3, MinIs
<1> HIDE DEF start
<1>5. text[start] # Minus
  BY <1>0, <1>3, <1>4 DEF Minus
<1>6. stop = lead + width + 1
  <2>1. lead + width + 1 \in others
    <3>1. lead + width + 1 \in start .. Len(text)
      BY <1>1, <1>4 DEF N
    <3>2. ~IsDigit(0)
      BY <1>0 DEF IsDigit, Digit
    <3>3. ~IsDigit(text[lead + width + 1])
      <4>1. CASE lead + width = N
        BY <4>1, <1>2, <3>2
      <4>2. CASE lead + width < N
        BY <4>2, <1>1, <1>2 DEF N
      <4> QED
        BY <4>1, <4>2, <1>1 DEF N
    <3> QED
      BY <3>1, <3>3
  <2>2. ASSUME NEW k \in others PROVE lead + width + 1 <= k
    <3>1. k \in Nat /\ lead + 1 <= k /\ ~IsDigit(text[k])
      BY <1>1, <1>4
    <3>2. SUFFICES ASSUME k <= lead + width PROVE FALSE
      BY <3>1
    <3> DEFINE j == k - lead
    <3>3. j \in 1 .. width /\ k = lead + j
      BY <3>1, <3>2
    <3> QED
      BY <3>1, <3>3, <1>3
  <2>3. others \subseteq Nat
    BY <1>1, <1>4
  <2> HIDE DEF others
  <2> QED
    BY <2>1, <2>2, <2>3, MinIs
<1> HIDE DEF stop
<1> DEFINE number == [k \in 1 .. stop - start |-> text[start + k - 1] - Digit(0)]
<1>7. number = InDigits(n, width, Radix)
  <2>1. stop - start = width
    BY <1>4, <1>6
  <2>2. ASSUME NEW k \in 1 .. width
        PROVE  text[start + k - 1] - Digit(0) = InDigits(n, width, Radix)[k]
    <3>1. start + k - 1 = lead + k
      BY <1>4
    <3>2. PICK d \in Nat : d = InDigits(n, width, Radix)[k]
      <4>1. InDigits(n, width, Radix)[k] \in 0 .. Radix - 1
        BY <1>0, OctalDigits
      <4>2. 0 .. Radix - 1 \subseteq Nat
        BY <1>0
      <4> QED
        BY <4>1, <4>2
    <3>3. text[lead + k] = 2 + d
      BY <1>3, <3>2
    <3>4. text[start + k - 1] = 2 + d
      BY <3>1, <3>3, Zenon
    <3> QED
      BY <3>2, <3>4 DEF Digit
  <2>3. InDigits(n, width, Radix) = [k \in 1 .. width |-> InDigits(n, width, Radix)[k]]
    BY DEF InDigits
  <2> QED
    BY <2>1, <2>2, <2>3
<1>8. strtoul(field) = ValueOf(number, Radix)
  BY <1>5 DEF strtoul, start, stop, text
<1> QED
  BY <1>0, <1>7, <1>8, DigitsValue

----------------------------------------------------------------------------
(* The fields of a header. *)

Bytes == 0 .. Byte - 1

\* A digit, a space and a NUL are bytes below the one that marks base 256.
LEMMA Characters ==
  /\ 2 .. Radix + 1 \subseteq 0 .. TopBit - 1 /\ 0 .. TopBit - 1 \subseteq Bytes
  /\ {NUL, Space} \subseteq 0 .. TopBit - 1 /\ TopBit \in Bytes /\ Byte - 1 \in Bytes
  /\ Byte - 1 # TopBit /\ {0, 1} \subseteq Bytes
  /\ ~IsDigit(NUL) /\ ~IsDigit(Space)
<1>1. Byte - 1 # TopBit
  BY Constants
<1>2. ~IsDigit(NUL) /\ ~IsDigit(Space)
  BY Constants DEF IsDigit, Digit, NUL, Space
<1> QED
  BY <1>1, <1>2, Constants DEF Bytes, NUL, Space

\* `u' is the sequence `s' of length a, then `t' of length b.
IsConcat(S, u, s, t, a, b) ==
  /\ u \in Seq(S) /\ Len(u) = a + b
  /\ \A k \in 1 .. a : u[k] = s[k]
  /\ \A k \in 1 .. b : u[a + k] = t[k]

\* Concatenation, as one fact.
LEMMA Concat ==
  ASSUME NEW S, NEW s \in Seq(S), NEW t \in Seq(S), NEW a \in Nat, NEW b \in Nat,
         Len(s) = a, Len(t) = b
  PROVE  IsConcat(S, s \o t, s, t, a, b)
<1> DEFINE u == s \o t
<1>1. /\ u \in Seq(S) /\ Len(u) = a + b
      /\ \A k \in 1 .. a + b : u[k] = IF k <= a THEN s[k] ELSE t[k - a]
  BY ConcatProperties, Zenon
<1> HIDE DEF u
<1>2. \A k \in 1 .. a : u[k] = s[k]
  BY <1>1
<1>3. ASSUME NEW k \in 1 .. b PROVE u[a + k] = t[k]
  <2>1. a + k \in 1 .. a + b /\ ~(a + k <= a) /\ a + k - a = k
    OBVIOUS
  <2> QED
    BY <1>1, <2>1
<1> QED
  BY <1>1, <1>2, <1>3 DEF u, IsConcat

\* One more element, as one fact.
LEMMA Appended ==
  ASSUME NEW S, NEW s \in Seq(S), NEW x \in S, NEW a \in Nat, Len(s) = a
  PROVE  IsConcat(S, Append(s, x), s, <<x>>, a, 1)
<1> DEFINE u == Append(s, x)
<1>1. /\ Append(s, x) \in Seq(S) /\ Len(Append(s, x)) = Len(s) + 1
      /\ Append(s, x)[Len(s) + 1] = x
      /\ \A k \in 1 .. Len(s) : Append(s, x)[k] = s[k]
  <2>1. Append(s, x) \in Seq(S)
    OBVIOUS
  <2>2. Len(Append(s, x)) = Len(s) + 1
    OBVIOUS
  <2>3. Append(s, x)[Len(s) + 1] = x
    OBVIOUS
  <2>4. \A k \in 1 .. Len(s) : Append(s, x)[k] = s[k]
    OBVIOUS
  <2> QED
    BY <2>1, <2>2, <2>3, <2>4, Zenon
<1>2. /\ u \in Seq(S) /\ Len(u) = Len(s) + 1 /\ u[Len(s) + 1] = x
      /\ \A k \in 1 .. Len(s) : u[k] = s[k]
  BY <1>1
<1> HIDE DEF u
<1>3. IsConcat(S, u, s, <<x>>, a, 1)
  BY <1>2 DEF IsConcat
<1> QED
  BY <1>3 DEF u

\* A size in octal is read as it was written.
LEMMA OctalSize ==
  ASSUME NEW field \in Seq(Int), Len(field) = SizeWidth, NEW lead \in 0 .. 1,
         NEW width \in 1 .. SizeWidth, NEW n \in 0 .. Power(Radix, width) - 1,
         lead + width <= SizeWidth,
         \A k \in 1 .. lead : field[k] = Space,
         \A k \in 1 .. width : field[lead + k] = Octal(n, width)[k],
         \A k \in lead + width + 1 .. SizeWidth : field[k] \in {NUL, Space}
  PROVE  /\ field \in [1 .. SizeWidth -> Bytes]
         /\ parseTarSize(field) = n
<1>0. n \in Nat
  BY PowerFacts, Constants
<1>1. \A k \in 1 .. width : Octal(n, width)[k] \in 0 .. TopBit - 1
  <2>1. width \in Nat
    BY DEF SizeWidth
  <2>2. \A k \in 1 .. width : Octal(n, width)[k] \in 2 .. Radix + 1
    BY <1>0, <2>1, OctalDigits
  <2> QED
    BY <2>2, Characters
<1>2. ASSUME NEW k \in 1 .. SizeWidth PROVE field[k] \in 0 .. TopBit - 1
  <2>1. CASE k <= lead
    BY <2>1, Characters DEF SizeWidth
  <2>2. CASE lead < k /\ k <= lead + width
    <3>1. PICK j \in 1 .. width : k = lead + j
      <4>1. k - lead \in 1 .. width /\ k = lead + (k - lead)
        BY <2>2 DEF SizeWidth
      <4> QED
        BY <4>1
    <3> QED
      BY <1>1, <3>1
  <2>3. CASE k > lead + width
    BY <2>3, Characters DEF SizeWidth
  <2> QED
    BY <2>1, <2>2, <2>3 DEF SizeWidth
<1>3. field \in [1 .. SizeWidth -> Bytes]
  <2>1. DOMAIN field = 1 .. SizeWidth /\ field = [k \in 1 .. SizeWidth |-> field[k]]
    BY DEF SizeWidth
  <2>2. \A k \in 1 .. SizeWidth : field[k] \in Bytes
    BY <1>2, Characters
  <2> QED
    BY <2>1, <2>2
<1>4. field[1] < TopBit
  BY <1>2, Constants DEF SizeWidth
<1>5. lead + width < Len(field) => ~IsDigit(field[lead + width + 1])
  <2> SUFFICES ASSUME lead + width < SizeWidth PROVE ~IsDigit(field[lead + width + 1])
    OBVIOUS
  <2>1. lead + width + 1 \in lead + width + 1 .. SizeWidth
    BY DEF SizeWidth
  <2> QED
    BY <2>1, Characters
<1>6. strtoul(field) = n
  <2>1. width \in Nat \ {0} /\ lead \in Nat /\ lead + width <= Len(field)
    BY DEF SizeWidth
  <2> QED
    BY <1>5, <2>1, StrtoulReads
<1> QED
  BY <1>3, <1>4, <1>6 DEF parseTarSize

\* Two bytes hold a size.
LEMMA TwoBytes ==
  ASSUME NEW n \in 0 .. U64Max
  PROVE  /\ InDigits(n, 2, Byte) \in Seq(Bytes) /\ Len(InDigits(n, 2, Byte)) = 2
         /\ ValueOf(InDigits(n, 2, Byte), Byte) = n
<1>1. Byte \in Nat \ {0} /\ Byte * Byte \in Nat
  BY Constants
<1>2. Power(Byte, 2) = Byte * Byte
  <2>1. Power(Byte, 0) = 1 /\ Power(Byte, 0 + 1) = Power(Byte, 0) * Byte
    BY <1>1, PowerFacts
  <2>2. Power(Byte, 1) = Byte
    BY <1>1, <2>1
  <2>3. Power(Byte, 1 + 1) = Power(Byte, 1) * Byte
    BY <1>1, PowerFacts
  <2> QED
    BY <2>2, <2>3
<1>3. n \in Nat /\ n \in 0 .. Power(Byte, 2) - 1
  BY <1>1, <1>2 DEF U64Max
<1> QED
  BY <1>1, <1>3, DigitsType, DigitsValue DEF Bytes

\* A size in base 256 is read as it was written, or taken for no size.
LEMMA BinarySize ==
  ASSUME NEW top \in {TopBit, Byte - 1}, NEW next \in Bytes, NEW n \in 0 .. U64Max
  PROVE  LET field == <<top, next>> \o InDigits(n, 2, Byte)
         IN  /\ field \in [1 .. SizeWidth -> Bytes]
             /\ parseTarSize(field) =
                  IF top = TopBit /\ next = 0 THEN n ELSE U64Max
<1> DEFINE ds == InDigits(n, 2, Byte)
           field == <<top, next>> \o ds
<1>1. ds \in Seq(Bytes) /\ Len(ds) = 2 /\ ValueOf(ds, Byte) = n
  BY TwoBytes
<1>2. top \in Bytes /\ ~(top < TopBit)
  BY Characters, Constants
<1> HIDE DEF ds
<1>3. <<top, next>> \in Seq(Bytes) /\ Len(<<top, next>>) = 2
  BY <1>2
<1>4. /\ field \in Seq(Bytes) /\ Len(field) = 4
      /\ field[1] = top /\ field[2] = next /\ field[3] = ds[1] /\ field[4] = ds[2]
  <2> DEFINE head == <<top, next>>
  <2>1. head \in Seq(Bytes) /\ Len(head) = 2 /\ head[1] = top /\ head[2] = next
    BY <1>3
  <2> HIDE DEF head
  <2>2. PICK u : u = head \o ds /\ IsConcat(Bytes, u, head, ds, 2, 2)
    BY <1>1, <2>1, Concat
  <2>3. /\ u \in Seq(Bytes) /\ Len(u) = 4 /\ u[1] = head[1] /\ u[2] = head[2]
        /\ u[2 + 1] = ds[1] /\ u[2 + 2] = ds[2]
    BY <2>2 DEF IsConcat
  <2> QED
    BY <2>1, <2>2, <2>3 DEF head
<1> HIDE DEF field
<1>5. field \in [1 .. SizeWidth -> Bytes]
  <2>1. \A k \in 1 .. 4 : field[k] \in Bytes
    BY <1>4, ElementOfSeq
  <2>2. field = [k \in 1 .. 4 |-> field[k]]
    BY <1>4
  <2> QED
    BY <2>1, <2>2 DEF SizeWidth
<1>6. SubSeq(field, 3, SizeWidth) = ds
  <2>1. SubSeq(field, 3, SizeWidth) = [k \in 1 .. 2 |-> field[k + 2]]
    BY <1>4 DEF SizeWidth
  <2>2. ds = [k \in 1 .. 2 |-> ds[k]]
    BY <1>1
  <2>3. \A k \in 1 .. 2 : field[k + 2] = ds[k]
    BY <1>4
  <2> QED
    BY <2>1, <2>2, <2>3
<1>7. parseTarSize(field) = IF top = TopBit /\ next = 0 THEN n ELSE U64Max
  BY <1>1, <1>2, <1>4, <1>6, Zenon DEF parseTarSize
<1> QED
  BY <1>5, <1>7 DEF field, ds

\* Every size is read as it was written, in every format.
LEMMA EncodedRead ==
  ASSUME NEW format \in SizeFormats, NEW n \in 0 .. Largest(format)
  PROVE  /\ Encoded(format, n) \in [1 .. SizeWidth -> Bytes]
         /\ parseTarSize(Encoded(format, n)) = Meant(format, n)
<1>0. Radix \in Nat \ {0}
  BY Constants
<1>1. ASSUME NEW width \in 1 .. 4, NEW m \in 0 .. Power(Radix, width) - 1
      PROVE  /\ m \in Nat /\ Octal(m, width) \in Seq(Int) /\ Len(Octal(m, width)) = width
  <2>1. m \in Nat
    BY <1>0, PowerFacts
  <2>2. width \in Nat
    OBVIOUS
  <2> QED
    BY <2>1, <2>2, OctalDigits
<1>2. ASSUME NEW m \in 0 .. Power(Radix, 3) - 1, NEW last \in {NUL, Space}
      PROVE  /\ Append(Octal(m, 3), last) \in [1 .. SizeWidth -> Bytes]
             /\ parseTarSize(Append(Octal(m, 3), last)) = m
  <2> DEFINE o == Octal(m, 3)
             field == Append(o, last)
  <2>1. o \in Seq(Int) /\ Len(o) = 3
    BY <1>1
  <2> HIDE DEF o
  <2>2. last \in Int
    BY DEF NUL, Space
  <2>3. /\ field \in Seq(Int) /\ Len(field) = 4
        /\ \A k \in 1 .. 3 : field[0 + k] = o[k]
        /\ field[4] = last
    <3>1. IsConcat(Int, field, o, <<last>>, 3, 1)
      BY <2>1, <2>2, Appended
    <3> HIDE DEF field
    <3> QED
      BY <3>1 DEF IsConcat
  <2> HIDE DEF field
  <2>4. \A k \in 0 + 3 + 1 .. SizeWidth : field[k] \in {NUL, Space}
    BY <2>3 DEF SizeWidth
  <2>5. /\ Len(field) = SizeWidth /\ 0 + 3 <= SizeWidth /\ 3 \in 1 .. SizeWidth /\ 0 \in 0 .. 1
        /\ \A k \in 1 .. 0 : field[k] = Space
    BY <2>3 DEF SizeWidth
  <2>6. field \in [1 .. SizeWidth -> Bytes] /\ parseTarSize(field) = m
    BY <2>3, <2>4, <2>5, OctalSize, Zenon DEF o
  <2> QED
    BY <2>6 DEF field, o
<1>3. ASSUME NEW m \in 0 .. Power(Radix, 4) - 1
      PROVE  Octal(m, 4) \in [1 .. SizeWidth -> Bytes] /\ parseTarSize(Octal(m, 4)) = m
  <2> DEFINE field == Octal(m, 4)
  <2>1. field \in Seq(Int) /\ Len(field) = 4
    BY <1>1
  <2>2. \A k \in 1 .. 4 : field[0 + k] = Octal(m, 4)[k]
    OBVIOUS
  <2> HIDE DEF field
  <2>3. /\ Len(field) = SizeWidth /\ 0 + 4 <= SizeWidth /\ 4 \in 1 .. SizeWidth /\ 0 \in 0 .. 1
        /\ \A k \in 1 .. 0 : field[k] = Space
        /\ \A k \in 0 + 4 + 1 .. SizeWidth : field[k] \in {NUL, Space}
    BY <2>1 DEF SizeWidth
  <2>4. field \in [1 .. SizeWidth -> Bytes] /\ parseTarSize(field) = m
    BY <2>1, <2>2, <2>3, OctalSize, Zenon
  <2> QED
    BY <2>4 DEF field
<1>4. ASSUME NEW m \in 0 .. Power(Radix, 2) - 1
      PROVE  LET field == <<Space>> \o Octal(m, 2) \o <<Space>>
             IN  field \in [1 .. SizeWidth -> Bytes] /\ parseTarSize(field) = m
  <2> DEFINE o == Octal(m, 2)
             field == <<Space>> \o o \o <<Space>>
  <2>1. o \in Seq(Int) /\ Len(o) = 2
    BY <1>1
  <2> HIDE DEF o
  <2>2. /\ field \in Seq(Int) /\ Len(field) = 4 /\ field[1] = Space /\ field[4] = Space
        /\ field[2] = o[1] /\ field[3] = o[2]
    <3> DEFINE sp == <<Space>>
    <3>1. sp \in Seq(Int) /\ Len(sp) = 1 /\ sp[1] = Space
      BY DEF Space
    <3> HIDE DEF sp
    <3>2. PICK head : head = sp \o o /\ IsConcat(Int, head, sp, o, 1, 2)
      BY <2>1, <3>1, Concat
    <3>3. /\ head \in Seq(Int) /\ Len(head) = 3
          /\ head[1] = Space /\ head[1 + 1] = o[1] /\ head[1 + 2] = o[2]
      <4>1. 1 \in 1 .. 1 /\ 1 \in 1 .. 2 /\ 2 \in 1 .. 2 /\ 1 + 2 = 3
        OBVIOUS
      <4> QED
        BY <3>1, <3>2, <4>1, Zenon DEF IsConcat
    <3>4. PICK u : u = head \o sp /\ IsConcat(Int, u, head, sp, 3, 1)
      BY <3>1, <3>3, Concat
    <3>5. /\ u \in Seq(Int) /\ Len(u) = 4 /\ u[1] = Space /\ u[3 + 1] = Space
          /\ u[2] = o[1] /\ u[3] = o[2]
      <4>1. 1 \in 1 .. 1 /\ 1 \in 1 .. 3 /\ 2 \in 1 .. 3 /\ 3 \in 1 .. 3 /\ 3 + 1 = 4
        OBVIOUS
      <4>2. head[2] = o[1] /\ head[3] = o[2]
        BY <3>3
      <4> QED
        BY <3>1, <3>3, <3>4, <4>1, <4>2, Zenon DEF IsConcat
    <3>6. field = u
      BY <3>2, <3>4 DEF sp
    <3> HIDE DEF field
    <3> QED
      BY <3>5, <3>6
  <2> HIDE DEF field
  <2>3. \A k \in 1 .. 2 : field[1 + k] = o[k]
    BY <2>2
  <2>4. \A k \in 1 .. 1 : field[k] = Space
    BY <2>2
  <2>5. /\ Len(field) = SizeWidth /\ 1 + 2 <= SizeWidth /\ 2 \in 1 .. SizeWidth /\ 1 \in 0 .. 1
        /\ \A k \in 1 + 2 + 1 .. SizeWidth : field[k] \in {NUL, Space}
    BY <2>2 DEF SizeWidth
  <2>6. field \in [1 .. SizeWidth -> Bytes] /\ parseTarSize(field) = m
    BY <2>2, <2>3, <2>4, <2>5, OctalSize, Zenon DEF o
  <2> QED
    BY <2>6 DEF field, o
<1>5. CASE format = "NUL"
  <2>1. n \in 0 .. Power(Radix, 3) - 1
    BY <1>5 DEF Largest, SizeWidth
  <2>2. Encoded(format, n) = Append(Octal(n, 3), NUL) /\ Meant(format, n) = n
    BY <1>5 DEF Encoded, Meant, SizeWidth
  <2> QED
    BY <1>2, <2>1, <2>2
<1>6. CASE format = "space"
  <2>1. n \in 0 .. Power(Radix, 3) - 1
    BY <1>6 DEF Largest, SizeWidth
  <2>2. Encoded(format, n) = Append(Octal(n, 3), Space) /\ Meant(format, n) = n
    BY <1>6 DEF Encoded, Meant, SizeWidth
  <2> QED
    BY <1>2, <2>1, <2>2
<1>7. CASE format = "full"
  <2>1. n \in 0 .. Power(Radix, 4) - 1
    BY <1>7 DEF Largest, SizeWidth
  <2>2. Encoded(format, n) = Octal(n, 4) /\ Meant(format, n) = n
    BY <1>7 DEF Encoded, Meant, SizeWidth
  <2> QED
    BY <1>3, <2>1, <2>2
<1>8. CASE format = "padded"
  <2>1. n \in 0 .. Power(Radix, 2) - 1
    BY <1>8 DEF Largest, SizeWidth
  <2>2. Encoded(format, n) = <<Space>> \o Octal(n, 2) \o <<Space>> /\ Meant(format, n) = n
    BY <1>8 DEF Encoded, Meant, SizeWidth
  <2> QED
    BY <1>4, <2>1, <2>2
<1>9. CASE format \in {"base-256", "negative", "wide"}
  <2>1. n \in 0 .. U64Max
    BY <1>9 DEF Largest
  <2>2. CASE format = "base-256"
    <3>1. Encoded(format, n) = <<TopBit, 0>> \o InDigits(n, 2, Byte) /\ Meant(format, n) = n
      BY <2>2 DEF Encoded, Meant
    <3> QED
      BY <2>1, <3>1, BinarySize, Characters
  <2>3. CASE format = "negative"
    <3>1. /\ Encoded(format, n) = <<Byte - 1, Byte - 1>> \o InDigits(n, 2, Byte)
          /\ Meant(format, n) = U64Max
      BY <2>3 DEF Encoded, Meant
    <3> QED
      BY <2>1, <3>1, BinarySize, Characters
  <2>4. CASE format = "wide"
    <3>1. Encoded(format, n) = <<TopBit, 1>> \o InDigits(n, 2, Byte) /\ Meant(format, n) = U64Max
      BY <2>4 DEF Encoded, Meant
    <3> QED
      BY <2>1, <3>1, BinarySize, Characters
  <2> QED
    BY <1>9, <2>2, <2>3, <2>4
<1> QED
  BY <1>5, <1>6, <1>7, <1>8, <1>9 DEF SizeFormats

Header == [size : [1 .. SizeWidth -> Bytes], chksum : Seq(Int)]

\* The sum of the bytes of a size field.
LEMMA SumRange ==
  ASSUME NEW field \in [1 .. SizeWidth -> Bytes]
  PROVE  Sum(field) \in 0 .. SizeWidth * (Byte - 1)
<1>1. Byte \in Nat \ {0}
  BY Constants
<1>2. Len(field) = 4 /\ \A k \in 1 .. 4 : field[k] \in 0 .. Byte - 1
  BY DEF SizeWidth, Bytes
<1>3. PICK v : /\ v[0] = 0
               /\ \A k \in Nat : k < Len(field) => v[k + 1] = v[k] * 1 + field[k + 1]
               /\ Sum(field) = v[Len(field)]
  <2>1. Len(field) \in Nat
    BY <1>2
  <2> QED
    BY <2>1, ValueFacts DEF Sum
<1>4. ASSUME NEW k \in 0 .. 3, NEW m \in Nat, v[k] \in 0 .. m * (Byte - 1)
      PROVE  v[k + 1] \in 0 .. (m + 1) * (Byte - 1)
  <2>1. v[k + 1] = v[k] * 1 + field[k + 1]
    BY <1>2, <1>3
  <2>2. field[k + 1] \in 0 .. Byte - 1
    BY <1>2
  <2>3. m * (Byte - 1) \in Nat /\ (m + 1) * (Byte - 1) = m * (Byte - 1) + (Byte - 1)
    BY <1>1
  <2> QED
    BY <1>1, <1>4, <2>1, <2>2, <2>3
<1>5. v[0] \in 0 .. 0 * (Byte - 1)
  BY <1>1, <1>3
<1>6. v[0 + 1] \in 0 .. (0 + 1) * (Byte - 1)
  BY <1>4, <1>5
<1>7. v[1 + 1] \in 0 .. (1 + 1) * (Byte - 1)
  BY <1>4, <1>6
<1>8. v[2 + 1] \in 0 .. (2 + 1) * (Byte - 1)
  BY <1>4, <1>7
<1>9. v[3 + 1] \in 0 .. (3 + 1) * (Byte - 1)
  BY <1>4, <1>8
<1> QED
  BY <1>2, <1>3, <1>9 DEF SizeWidth

\* A checksum fits in its digits.
LEMMA ChecksumRange ==
  ASSUME NEW h \in Header
  PROVE  checksum(h) \in 0 .. Power(Radix, Digits) - 1
<1>1. PICK s \in 0 .. SizeWidth * (Byte - 1) : s = Sum(h.size)
  BY SumRange DEF Header
<1>2. Digits \in Nat /\ Byte \in Nat /\ Power(Radix, Digits) \in Nat
  BY Constants, PowerFacts
<1>3. SizeWidth * (Byte - 1) + ChecksumWidth < Power(Radix, Digits)
  BY TarFieldsAssumption
<1>4. checksum(h) = s + ChecksumWidth
  BY <1>1, <1>2 DEF checksum, Space, ChecksumWidth
<1> QED
  BY <1>1, <1>2, <1>3, <1>4 DEF ChecksumWidth, SizeWidth

\* A checksum is read as it was written, in both formats.
LEMMA ChecksumRead ==
  ASSUME NEW n \in 0 .. Power(Radix, Digits) - 1
  PROVE  /\ Posix(n) \in Seq(Int) /\ strtoul(Posix(n)) = n
         /\ Git(n) \in Seq(Int) /\ strtoul(Git(n)) = n
<1>0. Radix \in Nat \ {0} /\ Digits \in Nat \ {0} /\ n \in Nat /\ Power(Radix, Digits) \in Nat
  BY Constants, PowerFacts
<1>1. ASSUME NEW width \in Nat \ {0}, n \in 0 .. Power(Radix, width) - 1,
             NEW foot \in Seq(Int), NEW m \in Nat \ {0}, Len(foot) = m, foot[1] = NUL
      PROVE  /\ Octal(n, width) \o foot \in Seq(Int)
             /\ strtoul(Octal(n, width) \o foot) = n
  <2>1. /\ Octal(n, width) \in Seq(Int) /\ Len(Octal(n, width)) = width
    BY <1>0, OctalDigits
  <2>2. PICK u : u = Octal(n, width) \o foot /\ IsConcat(Int, u, Octal(n, width), foot, width, m)
    BY <1>1, <2>1, Concat
  <2>3. /\ u \in Seq(Int) /\ Len(u) = width + m
        /\ \A k \in 1 .. width : u[k] = Octal(n, width)[k]
        /\ u[width + 1] = NUL
    BY <1>1, <2>2 DEF IsConcat
  <2>4. /\ 0 \in Nat /\ 0 + width <= Len(u)
        /\ \A k \in 1 .. 0 : u[k] = Space
        /\ \A k \in 1 .. width : u[0 + k] = Octal(n, width)[k]
        /\ u[0 + width + 1] = NUL
    BY <2>3
  <2>5. 0 + width < Len(u) => ~IsDigit(u[0 + width + 1])
    BY <2>4, Characters, Zenon
  <2>6. strtoul(u) = n
    BY <1>1, <2>3, <2>4, <2>5, StrtoulReads, Zenon
  <2> QED
    BY <2>2, <2>3, <2>6
<1>2. Posix(n) \in Seq(Int) /\ strtoul(Posix(n)) = n
  <2> DEFINE foot == <<NUL, Space>>
  <2>1. foot \in Seq(Int) /\ Len(foot) = 2 /\ foot[1] = NUL
    BY DEF NUL, Space
  <2>2. Posix(n) = Octal(n, Digits) \o foot
    BY DEF Posix
  <2> HIDE DEF foot
  <2> QED
    BY <1>0, <1>1, <2>1, <2>2
<1>3. Git(n) \in Seq(Int) /\ strtoul(Git(n)) = n
  <2> DEFINE foot == <<NUL>>
  <2>1. foot \in Seq(Int) /\ Len(foot) = 1 /\ foot[1] = NUL
    BY DEF NUL
  <2>2. Git(n) = Octal(n, Digits + 1) \o foot
    BY DEF Git
  <2> HIDE DEF foot
  <2>3. n \in 0 .. Power(Radix, Digits + 1) - 1
    <3>1. Power(Radix, Digits + 1) = Power(Radix, Digits) * Radix
      BY <1>0, PowerFacts
    <3>2. \A p \in Nat : p <= p * Radix
      BY <1>0
    <3> QED
      BY <1>0, <3>1, <3>2
  <2>4. Digits + 1 \in Nat \ {0} /\ 1 \in Nat \ {0}
    BY <1>0
  <2>5. PICK width \in Nat \ {0} : width = Digits + 1
    BY <2>4
  <2>6. Octal(n, width) \o foot \in Seq(Int) /\ strtoul(Octal(n, width) \o foot) = n
    BY <1>1, <2>1, <2>3, <2>4, <2>5
  <2> QED
    BY <2>2, <2>5, <2>6
<1> QED
  BY <1>2, <1>3

\* A header is taken with the checksum that it should have, and no other.
LEMMA TakenOnlyWithChecksum ==
  ASSUME NEW h \in Header, NEW n \in 0 .. Power(Radix, Digits) - 1,
         NEW chk \in {Posix(n), Git(n)}
  PROVE  LET w == [h EXCEPT !.chksum = chk]
         IN  w \in Header /\ w.size = h.size /\ (isTarHeader(w) <=> n = checksum(w))
<1> DEFINE w == [h EXCEPT !.chksum = chk]
<1>1. chk \in Seq(Int) /\ strtoul(chk) = n
  BY ChecksumRead
<1>2. w \in Header /\ w.size = h.size /\ w.chksum = chk
  BY <1>1 DEF Header
<1> HIDE DEF w
<1>3. isTarHeader(w) <=> n = checksum(w)
  BY <1>1, <1>2 DEF isTarHeader
<1> QED
  BY <1>2, <1>3 DEF w

\* The parser takes what the mutator writes.
LEMMA FixedTaken ==
  ASSUME NEW h \in Header
  PROVE  /\ fix_tar_checksum(h) \in Header
         /\ fix_tar_checksum(h).size = h.size
         /\ isTarHeader(fix_tar_checksum(h))
<1> DEFINE n == checksum(h)
           w == [h EXCEPT !.chksum = Posix(n)]
<1>1. n \in 0 .. Power(Radix, Digits) - 1
  BY ChecksumRange
<1>2. w \in Header /\ w.size = h.size /\ (isTarHeader(w) <=> n = checksum(w))
  <2> HIDE DEF n
  <2> QED BY <1>1, TakenOnlyWithChecksum
<1>3. checksum(w) = n
  <2> HIDE DEF w
  <2> QED BY <1>2 DEF checksum
<1>4. fix_tar_checksum(h) = w
  BY DEF fix_tar_checksum
<1> HIDE DEF w, n
<1> QED
  BY <1>2, <1>3, <1>4

----------------------------------------------------------------------------
(* The invariant. *)

\* Blocks before `off' are null or have their checksum, the others are as they
\* were; only checksums change; and the size of a header is what it was.
HeaderInv ==
  /\ blocks \in Seq(Header) /\ first \in Seq(Header) /\ Len(first) = Len(blocks)
  /\ off \in 0 .. Len(blocks)
  /\ \A k \in 1 .. Len(blocks) : blocks[k].size = first[k].size
  /\ \A k \in 1 .. off : isZero(blocks[k]) \/ isTarHeader(blocks[k])
  /\ \A k \in 1 .. Len(blocks) : off < k \/ isZero(first[k]) => blocks[k] = first[k]
  /\ meant # -1 => Len(blocks) > 0 /\ parseTarSize(blocks[1].size) = meant

LEMMA HeaderInit == MCInit => HeaderInv
<1> SUFFICES ASSUME MCInit PROVE HeaderInv
  OBVIOUS
<1>1. CASE NoHeader
  <2>1. blocks = << >> /\ first = << >> /\ off = 0 /\ meant = -1
    BY <1>1 DEF NoHeader
  <2> QED
    BY <2>1 DEF HeaderInv
<1>2. ASSUME blocks \in Seq(Header), first = blocks, off = 0,
             meant # -1 => Len(blocks) > 0 /\ parseTarSize(blocks[1].size) = meant
      PROVE  HeaderInv
  <2>1. Len(blocks) \in Nat
    BY <1>2
  <2> QED
    BY <1>2, <2>1 DEF HeaderInv
<1>3. \A byte \in Int : Field(byte) \in Seq(Int)
  <2>1. ChecksumWidth \in Nat
    BY Constants DEF ChecksumWidth
  <2> QED
    BY <2>1 DEF Field
<1>4. CASE Init
  <2>1. first = blocks /\ off = 0
    BY <1>4 DEF Init
  <2>2. ASSUME NEW format \in SizeFormats, NEW n \in 0 .. Largest(format),
               blocks = <<[size |-> Encoded(format, n), chksum |-> Field(NUL)]>>,
               meant = Meant(format, n)
        PROVE  HeaderInv
    <3> DEFINE h == [size |-> Encoded(format, n), chksum |-> Field(NUL)]
    <3>1. Encoded(format, n) \in [1 .. SizeWidth -> Bytes] /\ Field(NUL) \in Seq(Int)
      BY <1>3, EncodedRead DEF NUL
    <3>2. h \in Header /\ h.size = Encoded(format, n)
      BY <3>1 DEF Header
    <3>3. blocks = <<h>>
      BY <2>2
    <3> HIDE DEF h
    <3>4. blocks \in Seq(Header) /\ Len(blocks) = 1 /\ blocks[1] = h
      BY <3>2, <3>3
    <3>5. parseTarSize(blocks[1].size) = meant
      BY <2>2, <3>2, <3>4, EncodedRead
    <3> QED
      BY <1>2, <2>1, <3>4, <3>5
  <2>3. ASSUME NEW any, any = [size : [1 .. SizeWidth -> Samples],
                               chksum : {Field(NUL), Field(Byte - 1)}],
               NEW n \in 1 .. MaxBlocks, blocks \in [1 .. n -> any], meant = -1
        PROVE  HeaderInv
    <3>1. any \subseteq Header
      <4>1. Samples \subseteq Bytes
        BY Constants DEF Bytes
      <4>2. Field(NUL) \in Seq(Int) /\ Field(Byte - 1) \in Seq(Int)
        BY <1>3, Constants DEF NUL
      <4> QED
        BY <2>3, <4>1, <4>2 DEF Header
    <3>2. n \in Nat
      OBVIOUS
    <3>3. blocks \in Seq(Header)
      BY <2>3, <3>1, <3>2
    <3> QED
      BY <1>2, <2>1, <2>3, <3>3
  <2> QED
    BY <1>4, <2>2, <2>3 DEF Init
<1> QED
  BY <1>1, <1>4 DEF MCInit

LEMMA HeaderStep == HeaderInv /\ [MCNext]_<<vars, paxVars>> => HeaderInv'
<1> SUFFICES ASSUME HeaderInv, [MCNext]_<<vars, paxVars>> PROVE HeaderInv'
  OBVIOUS
<1>1. CASE UNCHANGED vars
  BY <1>1 DEF HeaderInv, vars
<1>2. CASE FixBlock
  <2> DEFINE N == Len(blocks)
             at == off + 1
  <2>0. /\ blocks \in Seq(Header) /\ first \in Seq(Header) /\ N \in Nat /\ Len(first) = N
        /\ off \in Nat /\ off < N /\ off' = at /\ at \in 1 .. N
        /\ first' = first /\ meant' = meant
    BY <1>2 DEF HeaderInv, FixBlock
  <2>1. blocks[at] \in Header /\ blocks[at] = first[at]
    BY <2>0 DEF HeaderInv
  <2>2. CASE isZero(blocks[at])
    <3>1. blocks' = blocks
      BY <1>2, <2>2 DEF FixBlock
    <3>2. \A k \in 1 .. at : isZero(blocks[k]) \/ isTarHeader(blocks[k])
      BY <2>0, <2>2 DEF HeaderInv
    <3>3. \A k \in 1 .. N : at < k \/ isZero(first[k]) => blocks[k] = first[k]
      BY <2>0 DEF HeaderInv
    <3> HIDE DEF at
    <3> QED
      BY <2>0, <3>1, <3>2, <3>3 DEF HeaderInv
  <2>3. CASE ~isZero(blocks[at])
    <3> DEFINE h == fix_tar_checksum(blocks[at])
    <3>1. h \in Header /\ h.size = blocks[at].size /\ isTarHeader(h)
      BY <2>1, FixedTaken
    <3>2. blocks' = [blocks EXCEPT ![at] = h]
      BY <1>2, <2>3 DEF FixBlock
    <3> HIDE DEF h, at
    <3>3. /\ blocks' \in Seq(Header) /\ Len(blocks') = N /\ blocks'[at] = h
          /\ \A k \in 1 .. N : k # at => blocks'[k] = blocks[k]
      BY <2>0, <3>1, <3>2
    <3>4. \A k \in 1 .. N : blocks'[k].size = first[k].size
      BY <2>1, <3>1, <3>3, <2>0 DEF HeaderInv
    <3>5. \A k \in 1 .. at : isZero(blocks'[k]) \/ isTarHeader(blocks'[k])
      <4>1. \A k \in 1 .. at : k # at => k \in 1 .. off /\ k \in 1 .. N
        BY <2>0 DEF at
      <4> QED
        BY <3>1, <3>3, <4>1 DEF HeaderInv
    <3>6. \A k \in 1 .. N : at < k \/ isZero(first[k]) => blocks'[k] = first[k]
      <4>1. \A k \in 1 .. N : at < k => k # at /\ off < k
        BY <2>0 DEF at
      <4>2. ~isZero(first[at])
        BY <2>1, <2>3
      <4> QED
        BY <2>0, <3>3, <4>1, <4>2 DEF HeaderInv
    <3>7. meant # -1 => N > 0 /\ parseTarSize(blocks'[1].size) = meant
      <4>1. 1 \in 1 .. N
        BY <2>0
      <4>2. blocks'[1].size = blocks[1].size
        BY <3>4, <4>1 DEF HeaderInv
      <4> QED
        BY <4>2 DEF HeaderInv
    <3>8. first' = first /\ meant' = meant /\ off' = at /\ at \in 0 .. N
      BY <2>0
    <3> QED
      BY <2>0, <3>3, <3>4, <3>5, <3>6, <3>7, <3>8 DEF HeaderInv
  <2> QED
    BY <2>2, <2>3
<1> QED
  BY <1>1, <1>2 DEF MCNext, Next, vars

\* The invariant holds in every state.
LEMMA HeaderInvariance == MCSpec => []HeaderInv
BY HeaderInit, HeaderStep, PTL DEF MCSpec

----------------------------------------------------------------------------
\* parseTarSize() reads every size as the writer meant it, in each of the
\* formats of tar programs, and takes none that does not fit for a size.
THEOREM SizesReadAsWritten == MCSpec => []SizeRead
<1>1. HeaderInv => SizeRead
  BY DEF HeaderInv, SizeRead
<1> QED
  BY <1>1, HeaderInvariance, PTL

\* isTarHeader() takes a header with its checksum in either format, and with no
\* other checksum.
THEOREM ChecksumDecides == MCSpec => []ChecksumFormats
<1>1. HeaderInv => ChecksumFormats
  <2> SUFFICES ASSUME HeaderInv, off = 0, meant # -1,
                      NEW n \in 0 .. Power(Radix, Digits) - 1,
                      NEW chk \in {Posix(n), Git(n)}
               PROVE  LET h == [blocks[1] EXCEPT !.chksum = chk]
                      IN  isTarHeader(h) <=> n = checksum(h)
    BY DEF ChecksumFormats
  <2>1. blocks[1] \in Header
    BY DEF HeaderInv
  <2> QED
    BY <2>1, TakenOnlyWithChecksum
<1> QED
  BY <1>1, HeaderInvariance, PTL

\* The parser takes every block of an input that LLVMFuzzerCustomMutator() has
\* been through, and only checksums of it changed.
THEOREM MutatorFixes == MCSpec => []MutatedAccepted
<1>1. HeaderInv => MutatedAccepted
  <2> SUFFICES ASSUME HeaderInv, off = Len(blocks), NEW k \in DOMAIN blocks
               PROVE  /\ isZero(blocks[k]) \/ isTarHeader(blocks[k])
                      /\ blocks[k].size = first[k].size
                      /\ isZero(first[k]) => blocks[k] = first[k]
    BY DEF MutatedAccepted
  <2>1. k \in 1 .. Len(blocks) /\ k \in 1 .. off
    BY DEF HeaderInv
  <2> QED
    BY <2>1 DEF HeaderInv
<1> QED
  BY <1>1, HeaderInvariance, PTL

----------------------------------------------------------------------------
(* The records of a pax header. *)

\* The constants of PaxRecords, without the product.
LEMMA PaxFits ==
  /\ PaxRadix \in Nat \ {0, 1} /\ PaxMax \in Nat /\ PaxMax >= PaxRadix /\ MaxDigits \in Nat
  /\ MaxDigits + 7 < Power(PaxRadix, 4) /\ 2 * (MaxDigits + 7) <= PaxMax
  /\ Power(PaxRadix, 0) = 1
<1>1. /\ PaxRadix \in Nat \ {0, 1} /\ PaxMax \in Nat /\ PaxMax >= PaxRadix /\ MaxDigits \in Nat
      /\ MaxDigits + 7 < PaxRadix * PaxRadix * PaxRadix * PaxRadix
      /\ 2 * (MaxDigits + 7) <= PaxMax
  BY PaxRecordsAssumption DEF Pax!ConstantsFit
<1>2. /\ Power(PaxRadix, 0) = 1 /\ Power(PaxRadix, 0 + 1) = Power(PaxRadix, 0) * PaxRadix
      /\ Power(PaxRadix, 1 + 1) = Power(PaxRadix, 1) * PaxRadix
      /\ Power(PaxRadix, 2 + 1) = Power(PaxRadix, 2) * PaxRadix
      /\ Power(PaxRadix, 3 + 1) = Power(PaxRadix, 3) * PaxRadix
  BY <1>1, PowerFacts
<1>3. Power(PaxRadix, 1) = PaxRadix
  BY <1>1, <1>2
<1>4. Power(PaxRadix, 2) = PaxRadix * PaxRadix
  BY <1>2, <1>3
<1>5. Power(PaxRadix, 3) = PaxRadix * PaxRadix * PaxRadix
  BY <1>2, <1>4
<1>6. Power(PaxRadix, 4) = PaxRadix * PaxRadix * PaxRadix * PaxRadix
  BY <1>2, <1>5
<1> QED
  BY <1>1, <1>2, <1>6

\* Powers grow.
LEMMA PowersGrow ==
  ASSUME NEW base \in Nat \ {0}, NEW a \in Nat, NEW b \in Nat, a <= b
  PROVE  Power(base, a) <= Power(base, b)
<1> DEFINE S == {k \in Nat : Power(base, a) <= Power(base, a + k)}
<1>1. 0 \in S
  <2>1. a + 0 = a /\ Power(base, a) \in Nat
    BY PowerFacts
  <2> QED
    BY <2>1
<1>2. ASSUME NEW k \in Nat, k \in S PROVE k + 1 \in S
  <2>1. PICK p \in Nat, q \in Nat : p = Power(base, a) /\ q = Power(base, a + k)
    <3>1. a + k \in Nat
      OBVIOUS
    <3>2. Power(base, a) \in Nat \ {0} /\ Power(base, a + k) \in Nat \ {0}
      BY <3>1, PowerFacts
    <3> QED
      BY <3>2
  <2>2. Power(base, a + k + 1) = q * base
    <3>1. a + k \in Nat
      OBVIOUS
    <3> QED
      BY <2>1, <3>1, PowerFacts
  <2>3. p <= q
    BY <1>2, <2>1
  <2>4. q <= q * base /\ q * base \in Nat
    OBVIOUS
  <2>5. Power(base, a) <= Power(base, a + k + 1)
    BY <2>1, <2>2, <2>3, <2>4
  <2>6. a + k + 1 = a + (k + 1)
    OBVIOUS
  <2> QED
    BY <2>5, <2>6
<1>3. Nat \subseteq S
  <2> HIDE DEF S
  <2> QED BY <1>1, <1>2, SetInduction
<1>4. PICK k \in Nat : b = a + k
  <2>1. b - a \in Nat /\ b = a + (b - a)
    OBVIOUS
  <2> QED
    BY <2>1
<1> QED
  BY <1>3, <1>4

\* Text() writes a number in as few digits as it takes.
LEMMA TextIs ==
  ASSUME NEW n \in Nat, NEW d \in 1 .. 4,
         Power(PaxRadix, d - 1) <= n, n < Power(PaxRadix, d)
  PROVE  /\ Pax!Text(n) \in Seq(0 .. PaxRadix - 1) /\ Len(Pax!Text(n)) = d
         /\ ValueOf(Pax!Text(n), PaxRadix) = n
<1> DEFINE R == PaxRadix
           Good(ds) == Pax!Number(ds) = n /\ ds # <<>> /\ (ds[1] = 0 => Len(ds) = 1)
<1>0. R \in Nat \ {0} /\ d \in Nat /\ d - 1 \in Nat /\ d - 1 + 1 = d
  BY PaxFits
<1>1. PICK p \in Nat \ {0} : p = Power(R, d - 1)
  BY <1>0, PowerFacts
<1>2. Power(R, d) = p * R
  BY <1>0, <1>1, PowerFacts
<1>3. n \in 0 .. Power(R, d) - 1 /\ n # 0
  <2>1. Power(R, d) \in Nat
    BY <1>0, PowerFacts
  <2> QED
    BY <1>1, <2>1
<1> DEFINE e == InDigits(n, d, R)
<1>4. e \in Seq(0 .. R - 1) /\ Len(e) = d /\ ValueOf(e, R) = n
  BY <1>0, <1>3, DigitsType, DigitsValue
<1>5. e[1] # 0
  <2>1. e[1] = (n \div p) % R
    <3>1. 1 \in 1 .. d
      BY <1>0
    <3> QED
      BY <1>1, <3>1 DEF InDigits
  <2>2. PICK q \in Nat, t \in 0 .. p - 1 : q = n \div p /\ n = t + p * q
    BY DivFacts
  <2>3. q # 0
    BY <1>1, <2>2
  <2>4. q < R
    <3>1. SUFFICES ASSUME q >= R PROVE FALSE
      BY <1>0
    <3>2. p * q >= p * R /\ p * q \in Nat /\ p * R \in Nat
      BY <1>0, <3>1
    <3> QED
      BY <1>2, <2>2, <3>2
  <2>5. q % R = q
    BY <1>0, <2>4
  <2> QED
    BY <2>1, <2>2, <2>3, <2>5
<1>6. \A ds : Pax!Number(ds) = ValueOf(ds, R)
  BY DEF Pax!Number, ValueOf
<1>7. e \in Pax!BoundedSeq(Pax!DigitBytes, 4) /\ Good(e)
  <2>1. e \in [1 .. d -> Pax!DigitBytes] /\ d \in 0 .. 4
    <3>1. e = [k \in 1 .. d |-> e[k]] /\ \A k \in 1 .. d : e[k] \in 0 .. R - 1
      <4> HIDE DEF e
      <4>1. \A k \in 1 .. Len(e) : e[k] \in 0 .. R - 1
        BY <1>4, ElementOfSeq
      <4> QED
        BY <1>4, <4>1
    <3> HIDE DEF e
    <3> QED
      BY <1>0, <3>1 DEF Pax!DigitBytes
  <2>2. e # <<>>
    BY <1>0, <1>4
  <2> HIDE DEF e
  <2>3. e \in Pax!BoundedSeq(Pax!DigitBytes, 4)
    BY <2>1 DEF Pax!BoundedSeq, Pax!SeqOf
  <2> QED
    BY <1>4, <1>5, <1>6, <2>2, <2>3
<1> DEFINE ds == Pax!Text(n)
<1>8. ds \in Pax!BoundedSeq(Pax!DigitBytes, 4) /\ Good(ds)
  <2>1. ds = CHOOSE f \in Pax!BoundedSeq(Pax!DigitBytes, 4) : Good(f)
    BY DEF Pax!Text
  <2> HIDE DEF Good, ds, e
  <2> QED
    BY <1>7, <2>1
<1> HIDE DEF ds, e
<1>9. PICK w \in 1 .. 4 : ds \in Seq(0 .. R - 1) /\ Len(ds) = w
  <2>1. PICK w \in 0 .. 4 : ds \in [1 .. w -> 0 .. R - 1]
    BY <1>8 DEF Pax!BoundedSeq, Pax!SeqOf, Pax!DigitBytes
  <2>2. ds \in Seq(0 .. R - 1) /\ Len(ds) = w
    <3>1. \A T : \A m \in Nat : \A f \in [1 .. m -> T] : f \in Seq(T) /\ Len(f) = m
      OBVIOUS
    <3>2. w \in Nat
      OBVIOUS
    <3> QED
      BY <2>1, <3>1, <3>2, Zenon
  <2>3. w # 0
    BY <1>8, <2>2
  <2> QED
    BY <2>2, <2>3
<1>10. ValueOf(ds, R) = n
  BY <1>6, <1>8
<1> DEFINE v == ValuesOf(ds, R)
<1>11. v[w] = n /\ v[0] = 0 /\ \A k \in Nat : k < w => v[k + 1] = v[k] * R + ds[k + 1]
  BY <1>9, <1>10, ValuesOfFacts
<1>12. ds[1] # 0
  <2>1. SUFFICES ASSUME ds[1] = 0 PROVE FALSE
    OBVIOUS
  <2>2. w = 1
    BY <1>8, <1>9, <2>1
  <2> HIDE DEF v
  <2>3. v[0 + 1] = v[0] * R + ds[0 + 1]
    BY <1>11, <2>2
  <2>4. v[0 + 1] = 0
    BY <1>0, <1>11, <2>1, <2>3
  <2> QED
    BY <1>3, <1>11, <2>2, <2>4
<1>13. v[w] \in 0 .. Power(R, w) - 1 /\ v[w] >= Power(R, w - 1)
  <2>1. ds # <<>> /\ w \in 0 .. w
    BY <1>8, <1>9
  <2> QED
    BY <1>0, <1>9, <1>12, <2>1, ValuesBounds
<1> HIDE DEF v
<1>14. w = d
  <2>1. /\ Power(R, w) \in Nat /\ Power(R, w - 1) \in Nat
        /\ Power(R, d) \in Nat /\ Power(R, d - 1) \in Nat
    <3>1. w \in Nat /\ w - 1 \in Nat
      BY <1>9
    <3> QED
      BY <1>0, <3>1, PowerFacts
  <2>2. ASSUME w < d PROVE FALSE
    <3>1. Power(R, w) <= Power(R, d - 1)
      BY <1>0, <1>9, <2>2, PowersGrow
    <3> QED
      BY <1>11, <1>13, <2>1, <3>1
  <2>3. ASSUME d < w PROVE FALSE
    <3>1. Power(R, d) <= Power(R, w - 1)
      <4>1. w - 1 \in Nat /\ d <= w - 1
        BY <1>0, <1>9, <2>3
      <4> QED
        BY <1>0, <4>1, PowersGrow
    <3> QED
      BY <1>11, <1>13, <2>1, <3>1
  <2> QED
    BY <1>0, <1>9, <2>2, <2>3
<1> QED
  BY <1>9, <1>10, <1>14 DEF ds

\* A number below the fourth power has some number of digits.
LEMMA HasDigits ==
  ASSUME NEW n \in Nat \ {0}, n < Power(PaxRadix, 4)
  PROVE  \E d \in 1 .. 4 : Power(PaxRadix, d - 1) <= n /\ n < Power(PaxRadix, d)
<1> DEFINE P(k) == Power(PaxRadix, k)
<1>0. P(0) = 1 /\ \A k \in Nat : P(k) \in Nat
  BY PaxFits, PowerFacts
<1>1. P(1 - 1) = P(0) /\ P(2 - 1) = P(1) /\ P(3 - 1) = P(2) /\ P(4 - 1) = P(3)
  <2>1. 1 - 1 = 0 /\ 2 - 1 = 1 /\ 3 - 1 = 2 /\ 4 - 1 = 3
    OBVIOUS
  <2> QED
    BY <2>1, Zenon
<1> HIDE DEF P
<1>2. P(0) \in Nat /\ P(1) \in Nat /\ P(2) \in Nat /\ P(3) \in Nat /\ P(4) \in Nat
  BY <1>0
<1>3. n < P(4)
  BY DEF P
<1>4. CASE n < P(1)
  <2>1. P(1 - 1) <= n /\ n < P(1) /\ 1 \in 1 .. 4
    BY <1>0, <1>1, <1>4
  <2> QED
    BY <2>1 DEF P
<1>5. CASE P(1) <= n /\ n < P(2)
  <2>1. P(2 - 1) <= n /\ n < P(2) /\ 2 \in 1 .. 4
    BY <1>1, <1>5
  <2> QED
    BY <2>1 DEF P
<1>6. CASE P(2) <= n /\ n < P(3)
  <2>1. P(3 - 1) <= n /\ n < P(3) /\ 3 \in 1 .. 4
    BY <1>1, <1>6
  <2> QED
    BY <2>1 DEF P
<1>7. CASE P(3) <= n
  <2>1. P(4 - 1) <= n /\ n < P(4) /\ 4 \in 1 .. 4
    BY <1>1, <1>3, <1>7
  <2> QED
    BY <2>1 DEF P
<1> QED
  BY <1>2, <1>4, <1>5, <1>6, <1>7

\* What follows the length in a record, the length, and its digits.
Rest(r) == r.key \o r.value \o <<Pax!Newline>>

LengthOf(r) == Pax!Min({k \in 1 .. Len(Rest(r)) + 5 : k = Len(Pax!Text(k)) + Len(Rest(r))})

Figures(r) == Pax!Text(LengthOf(r))

LEMMA RecordType ==
  ASSUME NEW r \in Pax!Records
  PROVE  /\ r.key \in {Pax!Key, Pax!OtherKey} /\ r.key \in Seq(Int) /\ Len(r.key) = 2
         /\ r.key[1] = PaxRadix /\ (r.key = Pax!Key <=> r.key[2] = PaxRadix + 1)
         /\ r.value \in Seq(0 .. PaxRadix - 1) /\ r.value \in Seq(Int)
         /\ Len(r.value) \in 1 .. MaxDigits
         /\ Pax!Key # Pax!OtherKey /\ Pax!Key \in Seq(Int) /\ Len(Pax!Key) = 2
         /\ Pax!Key[1] = PaxRadix /\ Pax!Key[2] = PaxRadix + 1
<1>0. PaxRadix \in Nat /\ MaxDigits \in Nat
  BY PaxFits
<1> DEFINE Fact(k) == /\ k \in Seq(Int) /\ Len(k) = 2 /\ k[1] = PaxRadix
<1>1. Fact(Pax!Key) /\ Pax!Key[2] = PaxRadix + 1
  BY <1>0 DEF Pax!Key, Pax!Space
<1>2. Fact(Pax!OtherKey) /\ Pax!OtherKey[2] = PaxRadix + 2
  BY <1>0 DEF Pax!OtherKey, Pax!Space
<1>3. Pax!Key # Pax!OtherKey
  <2>1. PaxRadix + 1 # PaxRadix + 2
    BY <1>0
  <2> QED
    BY <1>1, <1>2, <2>1, Zenon
<1>4. r.key \in {Pax!Key, Pax!OtherKey} /\ r.value \in Pax!Values
  BY DEF Pax!Records
<1>5. PICK m \in 1 .. MaxDigits : r.value \in [1 .. m -> 0 .. PaxRadix - 1]
  BY <1>4 DEF Pax!Values, Pax!DigitBytes
<1>6. r.value \in Seq(0 .. PaxRadix - 1) /\ r.value \in Seq(Int) /\ Len(r.value) = m
  <2>1. \A T : \A j \in Nat : \A f \in [1 .. j -> T] : f \in Seq(T) /\ Len(f) = j
    OBVIOUS
  <2>2. m \in Nat /\ r.value \in [1 .. m -> Int]
    BY <1>0, <1>5
  <2> QED
    BY <1>5, <2>1, <2>2, Zenon
<1>7. r.key = Pax!Key <=> r.key[2] = PaxRadix + 1
  <2>1. PaxRadix + 1 # PaxRadix + 2
    BY <1>0
  <2> QED
    BY <1>1, <1>2, <1>4, <2>1
<1> HIDE DEF Fact
<1>8. Fact(r.key)
  BY <1>1, <1>2, <1>4
<1> QED
  BY <1>1, <1>3, <1>4, <1>5, <1>6, <1>7, <1>8 DEF Fact

LEMMA RestIs ==
  ASSUME NEW r \in Pax!Records
  PROVE  LET m == Len(r.value)
         IN  /\ Rest(r) \in Seq(Int) /\ Len(Rest(r)) = m + 3
             /\ Rest(r)[1] = r.key[1] /\ Rest(r)[2] = r.key[2]
             /\ \A j \in 1 .. m : Rest(r)[2 + j] = r.value[j]
             /\ Rest(r)[m + 3] = Pax!Newline
<1> DEFINE m == Len(r.value)
<1>0. m \in Nat /\ PaxRadix \in Nat
  BY RecordType, PaxFits
<1> DEFINE nl == <<Pax!Newline>>
<1>1. nl \in Seq(Int) /\ Len(nl) = 1 /\ nl[1] = Pax!Newline
  <2>1. Pax!Newline \in Int
    BY <1>0 DEF Pax!Newline
  <2> QED
    BY <2>1
<1> HIDE DEF m, nl
<1>2. PICK u : u = r.key \o r.value /\ IsConcat(Int, u, r.key, r.value, 2, m)
  BY <1>0, RecordType, Concat DEF m
<1>3. u \in Seq(Int) /\ Len(u) = 2 + m
  BY <1>2 DEF IsConcat
<1>4. PICK w : w = u \o nl /\ IsConcat(Int, w, u, nl, 2 + m, 1)
  <2>1. 2 + m \in Nat
    BY <1>0
  <2> QED
    BY <1>1, <1>3, <2>1, Concat
<1>5. w = Rest(r)
  BY <1>2, <1>4 DEF Rest, nl
<1>6. \A j \in 1 .. 2 + m : w[j] = u[j]
  BY <1>4, Zenon DEF IsConcat
<1>7. w[1] = r.key[1] /\ w[2] = r.key[2]
  <2>1. ASSUME NEW j \in 1 .. 2 PROVE w[j] = r.key[j]
    <3>1. u[j] = r.key[j]
      BY <1>2, Zenon DEF IsConcat
    <3>2. j \in 1 .. 2 + m
      BY <1>0
    <3> QED
      BY <1>6, <3>1, <3>2, Zenon
  <2>2. 1 \in 1 .. 2 /\ 2 \in 1 .. 2
    OBVIOUS
  <2> QED
    BY <2>1, <2>2, Zenon
<1>8. ASSUME NEW j \in 1 .. m PROVE w[2 + j] = r.value[j]
  <2>1. u[2 + j] = r.value[j]
    BY <1>2, Zenon DEF IsConcat
  <2>2. PICK k \in 1 .. 2 + m : k = 2 + j
    BY <1>0
  <2>3. w[k] = u[k]
    BY <1>6, <2>2
  <2> QED
    BY <2>1, <2>2, <2>3
<1>9. w \in Seq(Int) /\ Len(w) = m + 3 /\ w[m + 3] = Pax!Newline
  <2>1. w[2 + m + 1] = nl[1] /\ Len(w) = 2 + m + 1
    <3>1. 1 \in 1 .. 1
      OBVIOUS
    <3> QED
      BY <1>4, <3>1, Zenon DEF IsConcat
  <2>2. 2 + m + 1 = m + 3
    BY <1>0
  <2>3. w \in Seq(Int)
    BY <1>4 DEF IsConcat
  <2> QED
    BY <1>1, <2>1, <2>2, <2>3, Zenon
<1> QED
  BY <1>5, <1>7, <1>8, <1>9 DEF m

\* The least element of a set of naturals.
LEMMA MinFacts ==
  ASSUME NEW S \in SUBSET Nat, S # {}
  PROVE  Pax!Min(S) \in S /\ \A y \in S : Pax!Min(S) <= y
<1>1. PICK x \in S : \A y \in S : ~(<<y, x>> \in OpToRel(<, Nat))
  BY NatLessThanWellFounded, WFMin
<1>2. ASSUME NEW y \in S PROVE x <= y
  <2>1. SUFFICES ASSUME y < x PROVE FALSE
    OBVIOUS
  <2>2. <<y, x>> \in Nat \X Nat /\ <<y, x>>[1] = y /\ <<y, x>>[2] = x
    OBVIOUS
  <2>3. <<y, x>> \in OpToRel(<, Nat)
    BY <2>1, <2>2 DEF OpToRel
  <2> QED
    BY <1>1, <2>3
<1> QED
  BY <1>2 DEF Pax!Min

\* The length of a record counts its own digits.
LEMMA LengthIs ==
  ASSUME NEW r \in Pax!Records
  PROVE  LET n == LengthOf(r)
             w == Len(Figures(r))
         IN  /\ w \in 1 .. 4 /\ n \in Nat /\ n = w + Len(r.value) + 3
             /\ Figures(r) \in Seq(0 .. PaxRadix - 1) /\ ValueOf(Figures(r), PaxRadix) = n
<1> DEFINE L == Len(Rest(r))
           S == {k \in 1 .. L + 5 : k = Len(Pax!Text(k)) + L}
           P(k) == Power(PaxRadix, k)
<1>1. L \in Nat /\ L = Len(r.value) + 3 /\ L + 4 < P(4)
  <2>1. Len(r.value) \in 1 .. MaxDigits /\ MaxDigits \in Nat /\ MaxDigits + 7 < P(4) /\ P(4) \in Nat
    BY RecordType, PaxFits, PowerFacts
  <2>2. L = Len(r.value) + 3
    BY RestIs
  <2> HIDE DEF L, P
  <2> QED
    BY <2>1, <2>2
<1> HIDE DEF L
<1>2. ASSUME NEW d \in 1 .. 4, P(d - 1) <= L + d, L + d < P(d)
      PROVE  L + d \in S /\ L + d < P(4)
  <2>1. L + d \in Nat /\ L + d \in 1 .. L + 5 /\ d \in Nat
    BY <1>1
  <2>2. Len(Pax!Text(L + d)) = d
    BY <1>2, <2>1, TextIs
  <2>3. L + d < P(4)
    <3>1. P(4) \in Nat
      BY PaxFits, PowerFacts
    <3> QED
      BY <1>1, <3>1
  <2> QED
    BY <1>1, <2>1, <2>2, <2>3
<1>3. PICK k \in S : k < P(4)
  <2>0. /\ P(0) = 1 /\ P(1) \in Nat /\ P(2) \in Nat /\ P(3) \in Nat /\ P(4) \in Nat
    BY PaxFits, PowerFacts
  <2>1. 1 - 1 = 0 /\ 2 - 1 = 1 /\ 3 - 1 = 2 /\ 4 - 1 = 3
    OBVIOUS
  <2>2. P(1 - 1) = P(0) /\ P(2 - 1) = P(1) /\ P(3 - 1) = P(2) /\ P(4 - 1) = P(3)
    BY <2>1, Zenon
  <2> HIDE DEF P, S
  <2>3. 1 \in 1 .. 4 /\ 2 \in 1 .. 4 /\ 3 \in 1 .. 4 /\ 4 \in 1 .. 4
    OBVIOUS
  <2>4. CASE L + 1 < P(1)
    <3>1. P(1 - 1) <= L + 1
      BY <1>1, <2>0, <2>2
    <3> QED
      BY <1>2, <2>3, <2>4, <3>1, Zenon
  <2>5. CASE P(1) <= L + 1 /\ L + 2 < P(2)
    <3>1. P(2 - 1) <= L + 2
      BY <1>1, <2>0, <2>2, <2>5
    <3> QED
      BY <1>2, <2>3, <2>5, <3>1, Zenon
  <2>6. CASE P(2) <= L + 2 /\ L + 3 < P(3)
    <3>1. P(3 - 1) <= L + 3
      BY <1>1, <2>0, <2>2, <2>6
    <3> QED
      BY <1>2, <2>3, <2>6, <3>1, Zenon
  <2>7. CASE P(3) <= L + 3
    <3>1. P(4 - 1) <= L + 4
      BY <1>1, <2>0, <2>2, <2>7
    <3> QED
      BY <1>1, <1>2, <2>3, <3>1, Zenon
  <2> QED
    BY <1>1, <2>0, <2>4, <2>5, <2>6, <2>7
<1> DEFINE n == LengthOf(r)
<1>4. n \in S /\ n <= k
  <2>1. n = Pax!Min(S)
    BY DEF LengthOf, L
  <2>2. S \in SUBSET Nat /\ S # {}
    BY <1>1, <1>3
  <2> HIDE DEF S, n
  <2> QED
    BY <1>3, <2>1, <2>2, MinFacts
<1> HIDE DEF n
<1>5. n \in Nat \ {0} /\ n < P(4) /\ n = Len(Pax!Text(n)) + L
  <2>1. P(4) \in Nat /\ k \in Nat
    BY <1>1, PaxFits, PowerFacts
  <2> QED
    BY <1>1, <1>3, <1>4, <2>1
<1>6. PICK d \in 1 .. 4 : P(d - 1) <= n /\ n < P(d)
  BY <1>5, HasDigits
<1>7. /\ Pax!Text(n) \in Seq(0 .. PaxRadix - 1) /\ Len(Pax!Text(n)) = d
      /\ ValueOf(Pax!Text(n), PaxRadix) = n
  BY <1>5, <1>6, TextIs
<1>8. Figures(r) = Pax!Text(n)
  BY DEF Figures, n
<1>9. n = d + Len(r.value) + 3
  <2>1. Len(r.value) \in Nat
    BY RecordType
  <2> QED
    BY <1>1, <1>5, <1>7, <2>1
<1> QED
  BY <1>5, <1>7, <1>8, <1>9 DEF n

\* What FlattenSeq() computes: the concatenations of the first sequences.
Joins(f, s) ==
  f = [k \in 1 .. Len(s) |-> IF k = 1 THEN s[k] ELSE f[k - 1] \o s[k]]

\* FlattenSeq() is the last value of a recursive function, which exists when
\* there are one or two sequences.
LEMMA FlattenFew ==
  ASSUME NEW s, NEW N \in {1, 2}, Len(s) = N
  PROVE  Pax!FlattenSeq(s) = IF N = 1 THEN s[1] ELSE s[1] \o s[2]
<1> DEFINE f == [k \in 1 .. N |-> IF k = 1 THEN s[1] ELSE s[1] \o s[2]]
           flatten == CHOOSE F : Joins(F, s)
<1>1. Joins(f, s)
  <2>1. f[1] = s[1]
    OBVIOUS
  <2>2. ASSUME NEW k \in 1 .. N PROVE f[k] = IF k = 1 THEN s[k] ELSE f[k - 1] \o s[k]
    <3>1. CASE k = 1
      BY <2>1, <3>1
    <3>2. CASE k = 2
      <4>1. f[k] = s[1] \o s[2] /\ k - 1 = 1
        BY <3>2
      <4> HIDE DEF f
      <4> QED BY <2>1, <3>2, <4>1
    <3> QED
      BY <3>1, <3>2
  <2>3. f = [k \in 1 .. N |-> f[k]]
    OBVIOUS
  <2> HIDE DEF f
  <2> QED
    BY <2>2, <2>3 DEF Joins
<1>2. Joins(flatten, s)
  <2> HIDE DEF f
  <2> QED BY <1>1
<1>3. Pax!FlattenSeq(s) = flatten[N]
  BY DEF Pax!FlattenSeq, Joins
<1> HIDE DEF f, flatten
<1>4. \A k \in 1 .. N : flatten[k] = IF k = 1 THEN s[k] ELSE flatten[k - 1] \o s[k]
  BY <1>2 DEF Joins
<1>5. flatten[1] = s[1]
  BY <1>4
<1>6. N = 2 => flatten[2] = s[1] \o s[2]
  <2>1. SUFFICES ASSUME N = 2 PROVE flatten[2] = s[1] \o s[2]
    OBVIOUS
  <2>2. flatten[2] = flatten[2 - 1] \o s[2] /\ 2 - 1 = 1
    BY <1>4, <2>1
  <2> QED
    BY <1>5, <2>2
<1> QED
  BY <1>3, <1>5, <1>6

\* The record r lies at `at' in the data D.
WrittenAt(D, r, at) ==
  LET w == Len(Figures(r))
      m == Len(r.value)
  IN  /\ at + LengthOf(r) <= Len(D)
      /\ \A j \in 1 .. w : D[at + j] = Figures(r)[j]
      /\ D[at + w + 1] = r.key[1] /\ D[at + w + 2] = r.key[2]
      /\ \A j \in 1 .. m : D[at + w + 2 + j] = r.value[j]
      /\ D[at + LengthOf(r)] = Pax!Newline

\* A record is its length, its key and its value.
LEMMA RecordWritten ==
  ASSUME NEW r \in Pax!Records
  PROVE  LET u == Pax!Record(r.key, r.value)
         IN  u \in Seq(Int) /\ Len(u) = LengthOf(r) /\ WrittenAt(u, r, 0)
<1> DEFINE w == Len(Figures(r))
           m == Len(r.value)
           n == LengthOf(r)
<1>1. w \in 1 .. 4 /\ m \in Nat /\ n = w + (m + 3) /\ PaxRadix \in Nat
  <2>1. m \in Nat /\ w \in 1 .. 4 /\ n = w + m + 3
    BY RecordType, LengthIs
  <2> HIDE DEF w, m, n
  <2> QED BY <2>1, PaxFits
<1>2. Figures(r) \in Seq(Int) /\ Rest(r) \in Seq(Int) /\ Len(Rest(r)) = m + 3
  <2>1. Figures(r) \in Seq(0 .. PaxRadix - 1)
    BY LengthIs
  <2>2. \A k \in 1 .. w : Figures(r)[k] \in Int
    BY <1>1, <2>1, ElementOfSeq
  <2> QED
    BY <1>1, <2>1, RestIs
<1>3. Pax!Record(r.key, r.value) = Figures(r) \o Rest(r)
  BY DEF Pax!Record, Figures, LengthOf, Rest
<1> HIDE DEF w, m, n
<1>4. PICK u : u = Figures(r) \o Rest(r) /\ IsConcat(Int, u, Figures(r), Rest(r), w, m + 3)
  <2>1. Len(Figures(r)) = w
    BY DEF w
  <2>2. w \in Nat /\ m + 3 \in Nat
    BY <1>1
  <2> QED
    BY <1>2, <2>1, <2>2, Concat
<1>5. u \in Seq(Int) /\ Len(u) = n
  BY <1>1, <1>4 DEF IsConcat
<1>6. \A k \in 1 .. w : u[k] = Figures(r)[k]
  BY <1>4, Zenon DEF IsConcat
<1>7. \A k \in 1 .. m + 3 : u[w + k] = Rest(r)[k]
  BY <1>4, Zenon DEF IsConcat
<1>8. /\ Rest(r)[1] = r.key[1] /\ Rest(r)[2] = r.key[2]
      /\ \A j \in 1 .. m : Rest(r)[2 + j] = r.value[j]
      /\ Rest(r)[m + 3] = Pax!Newline
  BY RestIs DEF m
<1>9. u[w + 1] = r.key[1] /\ u[w + 2] = r.key[2] /\ u[w + (m + 3)] = Pax!Newline
  <2>1. 1 \in 1 .. m + 3 /\ 2 \in 1 .. m + 3 /\ m + 3 \in 1 .. m + 3
    BY <1>1
  <2> QED
    BY <1>7, <1>8, <2>1, Zenon
<1>10. ASSUME NEW j \in 1 .. m PROVE u[w + 2 + j] = r.value[j]
  <2>1. 2 + j \in 1 .. m + 3 /\ w + (2 + j) = w + 2 + j
    BY <1>1
  <2>2. u[w + (2 + j)] = Rest(r)[2 + j]
    BY <1>7, <2>1, Zenon
  <2> QED
    BY <1>8, <2>1, <2>2
<1>11. WrittenAt(u, r, 0)
  <2>1. 0 + n <= Len(u) /\ 0 + n = w + (m + 3) /\ 0 + w + 1 = w + 1 /\ 0 + w + 2 = w + 2
    BY <1>1, <1>5
  <2>2. \A j \in 1 .. w : u[0 + j] = Figures(r)[j]
    BY <1>6
  <2>3. \A j \in 1 .. m : u[0 + w + 2 + j] = r.value[j]
    BY <1>10, <2>1
  <2>4. u[0 + w + 1] = r.key[1] /\ u[0 + w + 2] = r.key[2] /\ u[0 + n] = Pax!Newline
    BY <1>9, <2>1
  <2> QED
    BY <2>1, <2>2, <2>3, <2>4, Zenon DEF WrittenAt, w, m, n
<1> QED
  BY <1>3, <1>4, <1>5, <1>11 DEF n

\* A record lies in what the data that holds it is part of.
LEMMA WrittenWithin ==
  ASSUME NEW r \in Pax!Records, NEW s, WrittenAt(s, r, 0), Len(s) = LengthOf(r),
         NEW D, NEW at \in Nat, Len(D) \in Nat, at + LengthOf(r) <= Len(D),
         \A j \in 1 .. LengthOf(r) : D[at + j] = s[j]
  PROVE  WrittenAt(D, r, at)
<1> DEFINE w == Len(Figures(r))
           m == Len(r.value)
           n == LengthOf(r)
<1>1. w \in 1 .. 4 /\ m \in Nat /\ n \in Nat /\ n = w + m + 3
  BY RecordType, LengthIs
<1> HIDE DEF w, m, n
<1>2. \A j \in 1 .. n : D[at + j] = s[j]
  BY DEF n
<1>3. /\ \A j \in 1 .. w : s[0 + j] = Figures(r)[j]
      /\ s[0 + w + 1] = r.key[1] /\ s[0 + w + 2] = r.key[2]
      /\ \A j \in 1 .. m : s[0 + w + 2 + j] = r.value[j]
      /\ s[0 + n] = Pax!Newline
  BY Zenon DEF WrittenAt, w, m, n
<1>4. ASSUME NEW j \in 1 .. w PROVE D[at + j] = Figures(r)[j]
  <2>1. j \in 1 .. n /\ 0 + j = j
    BY <1>1
  <2> QED
    BY <1>2, <1>3, <2>1
<1>5. ASSUME NEW j \in 1 .. m PROVE D[at + w + 2 + j] = r.value[j]
  <2>1. PICK k \in 1 .. n : k = w + 2 + j
    BY <1>1
  <2>2. at + w + 2 + j = at + k /\ 0 + w + 2 + j = k
    BY <1>1, <2>1
  <2> QED
    BY <1>2, <1>3, <2>2
<1>6. D[at + w + 1] = r.key[1] /\ D[at + w + 2] = r.key[2] /\ D[at + n] = Pax!Newline
  <2>1. PICK a \in 1 .. n, b \in 1 .. n, c \in 1 .. n : a = w + 1 /\ b = w + 2 /\ c = n
    BY <1>1
  <2>2. /\ at + w + 1 = at + a /\ 0 + w + 1 = a
        /\ at + w + 2 = at + b /\ 0 + w + 2 = b /\ 0 + n = c
    BY <1>1, <2>1
  <2> QED
    BY <1>2, <1>3, <2>1, <2>2
<1> QED
  <2>1. at + n <= Len(D)
    BY DEF n
  <2> QED
    BY <1>4, <1>5, <1>6, <2>1, Zenon DEF WrittenAt, w, m, n

----------------------------------------------------------------------------
(* The invariant of paxSize() on well-formed lists. *)

\* Where a record of the list starts.
Off(k) == IF k = 1 THEN 0 ELSE LengthOf(records[1])

\* The data is one record, or two of which the first has another key.
Layout ==
  /\ records \in Seq(Pax!Records) /\ data \in Seq(Int)
  /\ \/ Len(records) = 1 /\ Len(data) = LengthOf(records[1])
     \/ /\ Len(records) = 2 /\ Len(data) = LengthOf(records[1]) + LengthOf(records[2])
        /\ records[1].key = Pax!OtherKey
  /\ \A k \in 1 .. Len(records) : WrittenAt(data, records[k], Off(k))

NoneBefore(k) == \A j \in 1 .. k - 1 : records[j].key = Pax!OtherKey

\* paxSize() is at a record: no size comes before it.
AtRecord(k) == k \in 1 .. Len(records) /\ pos = Off(k) /\ NoneBefore(k)

\* It has read j digits of the length, and of the value.
InLength(k, j) ==
  /\ j \in 0 .. Len(Figures(records[k]))
  /\ i = pos + j /\ recLen = ValuesOf(Figures(records[k]), PaxRadix)[j]

InSize(k, j) ==
  /\ records[k].key = Pax!Key /\ recLen = LengthOf(records[k])
  /\ j \in 0 .. Len(records[k].value)
  /\ i = pos + Len(Figures(records[k])) + 2 + j
  /\ size = ValuesOf(records[k].value, PaxRadix)[j] /\ size <= PaxMax

PaxInv ==
  records # <<>> =>
    /\ Layout
    /\ pc \in {"record", "length", "value", "done"}
    /\ pc = "record" =>
         \/ \E k \in Nat : AtRecord(k)
         \/ pos = Len(data) /\ NoneBefore(Len(records) + 1)
    /\ pc = "length" => \E k \in Nat, j \in Nat : AtRecord(k) /\ InLength(k, j)
    /\ pc = "value" => \E k \in Nat, j \in Nat : AtRecord(k) /\ InSize(k, j)
    /\ FindsSize

\* A record fits in memory.
LEMMA LengthFits ==
  ASSUME NEW r \in Pax!Records
  PROVE  LengthOf(r) \in 1 .. MaxDigits + 7
<1> DEFINE w == Len(Figures(r))
           m == Len(r.value)
<1>1. MaxDigits \in Nat /\ m \in 1 .. MaxDigits
  BY RecordType, PaxFits
<1>2. w \in 1 .. 4 /\ LengthOf(r) = w + m + 3
  BY LengthIs
<1> HIDE DEF w, m
<1> QED
  BY <1>1, <1>2

LEMMA LayoutFacts ==
  ASSUME Layout, NEW k \in 1 .. Len(records)
  PROVE  LET r  == records[k]
             n  == LengthOf(r)
             at == Off(k)
         IN  /\ r \in Pax!Records /\ WrittenAt(data, r, at)
             /\ at \in Nat /\ n \in Nat /\ Len(data) \in Nat /\ Len(data) <= PaxMax
             /\ at + n <= Len(data)
             /\ k < Len(records) => k + 1 \in 1 .. Len(records) /\ Off(k + 1) = at + n
             /\ ~(k < Len(records)) => k = Len(records) /\ at + n = Len(data)
<1>1. records[k] \in Pax!Records /\ WrittenAt(data, records[k], Off(k))
  BY DEF Layout
<1>2. MaxDigits \in Nat /\ PaxMax \in Nat /\ 2 * (MaxDigits + 7) <= PaxMax
  BY PaxFits
<1>3. CASE Len(records) = 1
  <2>1. k = 1 /\ Off(k) = 0 /\ Len(data) = LengthOf(records[1])
    BY <1>3 DEF Layout, Off
  <2>2. LengthOf(records[1]) \in 1 .. MaxDigits + 7
    BY <1>1, <2>1, LengthFits
  <2> QED
    BY <1>1, <1>2, <1>3, <2>1, <2>2
<1>4. CASE Len(records) = 2
  <2>1. records[1] \in Pax!Records /\ records[2] \in Pax!Records
    <3>1. records \in Seq(Pax!Records) /\ 1 \in 1 .. Len(records) /\ 2 \in 1 .. Len(records)
      BY <1>4 DEF Layout
    <3> QED
      BY <3>1, ElementOfSeq, Zenon
  <2>2. PICK a \in 1 .. MaxDigits + 7, b \in 1 .. MaxDigits + 7 :
          a = LengthOf(records[1]) /\ b = LengthOf(records[2])
    BY <2>1, LengthFits
  <2>3. Off(1) = 0 /\ Off(2) = a /\ Len(data) = a + b
    BY <1>4, <2>2 DEF Layout, Off
  <2>4. 1 + 1 = 2 /\ Off(1 + 1) = a
    BY <2>2 DEF Off
  <2>5. CASE k = 1
    BY <1>1, <1>2, <1>4, <2>2, <2>3, <2>4, <2>5
  <2>6. CASE k = 2
    BY <1>1, <1>2, <1>4, <2>2, <2>3, <2>6
  <2> QED
    BY <1>4, <2>5, <2>6
<1> QED
  BY <1>3, <1>4 DEF Layout

\* The length of a record is its digits and no more.
LEMMA LengthBytes ==
  ASSUME Layout, NEW k \in 1 .. Len(records), NEW j \in 0 .. Len(Figures(records[k]))
  PROVE  LET at == Off(k) + j
             w  == Len(Figures(records[k]))
         IN  /\ j < w => /\ Pax!IsDigit(at) /\ j + 1 \in 1 .. w
                         /\ Pax!ByteAt(at) = Figures(records[k])[j + 1]
                         /\ Pax!ByteAt(at) \in 0 .. PaxRadix - 1
             /\ j = w => ~Pax!IsDigit(at)
<1> DEFINE r == records[k]
           w == Len(Figures(r))
           n == LengthOf(r)
           at == Off(k)
<1>1. /\ r \in Pax!Records /\ WrittenAt(data, r, at)
      /\ at \in Nat /\ n \in Nat /\ Len(data) \in Nat /\ at + n <= Len(data)
  BY LayoutFacts
<1> HIDE DEF r, at
<1>2. w \in 1 .. 4 /\ n = w + Len(r.value) + 3 /\ Figures(r) \in Seq(0 .. PaxRadix - 1)
  BY <1>1, LengthIs
<1>3. Len(r.value) \in Nat /\ r.key[1] = PaxRadix /\ PaxRadix \in Nat
  <2>1. Len(r.value) \in 1 .. MaxDigits /\ r.key[1] = PaxRadix
    BY <1>1, RecordType
  <2> QED
    BY <2>1, PaxFits
<1> HIDE DEF n
<1>4. /\ \A l \in 1 .. w : data[at + l] = Figures(r)[l]
      /\ data[at + w + 1] = r.key[1]
  BY <1>1, Zenon DEF WrittenAt, w
<1>5. j \in 0 .. w
  BY DEF w, r
<1>6. \A l \in 1 .. w : Figures(r)[l] \in 0 .. PaxRadix - 1
  BY <1>2, ElementOfSeq DEF w
<1> HIDE DEF w
<1>7. ASSUME j < w
      PROVE  /\ Pax!IsDigit(at + j) /\ j + 1 \in 1 .. w
             /\ Pax!ByteAt(at + j) = Figures(r)[j + 1]
             /\ Pax!ByteAt(at + j) \in 0 .. PaxRadix - 1
  <2>1. j + 1 \in 1 .. w /\ at + j + 1 = at + (j + 1) /\ at + j < Len(data)
    BY <1>1, <1>2, <1>3, <1>5, <1>7
  <2>2. Pax!ByteAt(at + j) = Figures(r)[j + 1]
    BY <1>4, <2>1 DEF Pax!ByteAt
  <2>3. Pax!ByteAt(at + j) \in 0 .. PaxRadix - 1
    BY <1>6, <2>1, <2>2
  <2> QED
    BY <2>1, <2>2, <2>3 DEF Pax!IsDigit, Pax!len, Pax!DigitBytes
<1>8. ASSUME j = w PROVE ~Pax!IsDigit(at + j)
  <2>1. Pax!ByteAt(at + j) = PaxRadix
    BY <1>3, <1>4, <1>8 DEF Pax!ByteAt
  <2>2. PaxRadix \notin 0 .. PaxRadix - 1
    BY <1>3
  <2> QED
    BY <2>1, <2>2 DEF Pax!IsDigit, Pax!DigitBytes
<1> QED
  BY <1>7, <1>8 DEF w, r, at

\* The value of a record is its digits and no more.
LEMMA ValueBytes ==
  ASSUME Layout, NEW k \in 1 .. Len(records), NEW j \in 0 .. Len(records[k].value)
  PROVE  LET at == Off(k) + Len(Figures(records[k])) + 2 + j
             m  == Len(records[k].value)
         IN  /\ at < Off(k) + LengthOf(records[k])
             /\ j < m => /\ Pax!IsDigit(at) /\ j + 1 \in 1 .. m
                         /\ Pax!ByteAt(at) = records[k].value[j + 1]
                         /\ Pax!ByteAt(at) \in 0 .. PaxRadix - 1
             /\ j = m => ~Pax!IsDigit(at)
<1> DEFINE r == records[k]
           w == Len(Figures(r))
           m == Len(r.value)
           n == LengthOf(r)
           at == Off(k)
<1>1. /\ r \in Pax!Records /\ WrittenAt(data, r, at)
      /\ at \in Nat /\ n \in Nat /\ Len(data) \in Nat /\ at + n <= Len(data)
  BY LayoutFacts
<1> HIDE DEF r, at
<1>2. w \in 1 .. 4 /\ n = w + m + 3
  BY <1>1, LengthIs
<1>3. m \in Nat /\ r.value \in Seq(0 .. PaxRadix - 1) /\ PaxRadix \in Nat
  <2>1. m \in 1 .. MaxDigits /\ r.value \in Seq(0 .. PaxRadix - 1)
    BY <1>1, RecordType
  <2> QED
    BY <2>1, PaxFits
<1>4. /\ \A l \in 1 .. m : data[at + w + 2 + l] = r.value[l]
      /\ data[at + n] = Pax!Newline
  BY <1>1, Zenon DEF WrittenAt, w, m, n
<1>5. j \in 0 .. m
  BY DEF m, r
<1>6. \A l \in 1 .. m : r.value[l] \in 0 .. PaxRadix - 1
  BY <1>3, ElementOfSeq DEF m
<1> HIDE DEF w, m, n
<1> DEFINE a == at + w + 2 + j
<1>7. a < at + n
  BY <1>1, <1>2, <1>3, <1>5
<1>8. ASSUME j < m
      PROVE  /\ Pax!IsDigit(a) /\ j + 1 \in 1 .. m
             /\ Pax!ByteAt(a) = r.value[j + 1] /\ Pax!ByteAt(a) \in 0 .. PaxRadix - 1
  <2>1. j + 1 \in 1 .. m /\ a + 1 = at + w + 2 + (j + 1) /\ a < Len(data)
    BY <1>1, <1>2, <1>3, <1>5, <1>8
  <2> HIDE DEF a
  <2>2. Pax!ByteAt(a) = r.value[j + 1]
    BY <1>4, <2>1 DEF Pax!ByteAt
  <2>3. Pax!ByteAt(a) \in 0 .. PaxRadix - 1
    BY <1>6, <2>1, <2>2
  <2> QED
    BY <2>1, <2>2, <2>3 DEF Pax!IsDigit, Pax!len, Pax!DigitBytes
<1>9. ASSUME j = m PROVE ~Pax!IsDigit(a)
  <2>1. a + 1 = at + n
    BY <1>1, <1>2, <1>3, <1>9
  <2> HIDE DEF a
  <2>2. Pax!ByteAt(a) = PaxRadix + 3
    BY <1>4, <2>1 DEF Pax!ByteAt, Pax!Newline
  <2>3. PaxRadix + 3 \notin 0 .. PaxRadix - 1
    BY <1>3
  <2> QED
    BY <2>2, <2>3 DEF Pax!IsDigit, Pax!DigitBytes
<1> QED
  BY <1>7, <1>8, <1>9 DEF w, m, n, r, at

\* The first record with the key is the size that the list says.
LEMMA SizeIsFirst ==
  ASSUME Layout, NEW k \in 1 .. Len(records), NoneBefore(k), records[k].key = Pax!Key
  PROVE  /\ Pax!Sized(records) # {}
         /\ Pax!Said(records) = ValueOf(records[k].value, PaxRadix)
<1> DEFINE S == Pax!Sized(records)
<1>0. records \in Seq(Pax!Records) /\ Len(records) \in Nat
  BY DEF Layout
<1>1. S = {l \in 1 .. Len(records) : records[l].key = Pax!Key}
  BY <1>0 DEF Pax!Sized
<1>2. k \in S /\ S \in SUBSET Nat
  BY <1>0, <1>1
<1>3. ASSUME NEW l \in S PROVE ~(l < k)
  <2>1. SUFFICES ASSUME l < k PROVE FALSE
    OBVIOUS
  <2>2. l \in 1 .. k - 1 /\ records[l].key = Pax!Key
    BY <1>1, <2>1
  <2>3. records[l].key = Pax!OtherKey
    BY <2>2 DEF NoneBefore
  <2>4. Pax!Key # Pax!OtherKey
    <3>1. records[k] \in Pax!Records
      BY <1>0
    <3> QED
      BY <3>1, RecordType
  <2> QED
    BY <2>2, <2>3, <2>4
<1> HIDE DEF S
<1>4. Pax!Min(S) = k
  <2>1. PICK x \in S : x = Pax!Min(S) /\ x <= k
    BY <1>2, MinFacts
  <2>2. ~(x < k) /\ x \in Nat /\ k \in Nat
    BY <1>2, <1>3, <2>1
  <2> QED
    BY <1>2, <2>1, <2>2
<1>5. Pax!Said(records) = Pax!Number(records[k].value)
  BY <1>4 DEF Pax!Said, S
<1>6. Pax!Number(records[k].value) = ValueOf(records[k].value, PaxRadix)
  BY DEF Pax!Number, ValueOf
<1> QED
  BY <1>2, <1>5, <1>6 DEF S

\* Without the key the list says no size.
LEMMA NoSizeSaid ==
  ASSUME Layout, NoneBefore(Len(records) + 1)
  PROVE  Pax!Sized(records) = {}
<1>1. records \in Seq(Pax!Records) /\ Len(records) \in Nat
  BY DEF Layout
<1>2. ASSUME NEW l \in 1 .. Len(records), records[l].key = Pax!Key PROVE FALSE
  <2>1. l \in 1 .. Len(records) + 1 - 1 /\ records[l] \in Pax!Records
    BY <1>1
  <2>2. records[l].key = Pax!OtherKey
    BY <2>1 DEF NoneBefore
  <2> QED
    BY <1>2, <2>1, <2>2, RecordType
<1> QED
  BY <1>1, <1>2 DEF Pax!Sized

\* A number that fits does not wrap around.
LEMMA NoWrap ==
  ASSUME NEW max \in Nat, NEW x \in 0 .. max
  PROVE  x % (max + 1) = x
<1>1. x \in Nat /\ max + 1 \in Nat \ {0} /\ x < max + 1
  OBVIOUS
<1> QED
  BY <1>1

\* The record that paxSize() is at stays where it is.
LEMMA DataStays ==
  ASSUME UNCHANGED <<data, records>>
  PROVE  /\ Layout => Layout'
         /\ \A k : NoneBefore(k) => NoneBefore(k)'
         /\ \A k : Off(k)' = Off(k)
         /\ \A k \in 1 .. Len(records) : pos' = Off(k) /\ NoneBefore(k) => AtRecord(k)'
<1>1. /\ Layout => Layout'
      /\ \A k : NoneBefore(k) => NoneBefore(k)'
      /\ \A k : Off(k)' = Off(k)
  BY DEF Layout, Off, NoneBefore
<1>2. ASSUME NEW k \in 1 .. Len(records), pos' = Off(k), NoneBefore(k)
      PROVE  AtRecord(k)'
  BY <1>1, <1>2 DEF AtRecord
<1> QED
  BY <1>1, <1>2

\* The first value of the digits is 0.
LEMMA StartsAtZero ==
  ASSUME Layout, NEW k \in 1 .. Len(records)
  PROVE  /\ ValuesOf(Figures(records[k]), PaxRadix)[0] = 0
         /\ 0 \in 0 .. Len(Figures(records[k]))
         /\ ValuesOf(records[k].value, PaxRadix)[0] = 0
         /\ 0 \in 0 .. Len(records[k].value)
<1>1. records[k] \in Pax!Records
  BY LayoutFacts
<1>2. Len(Figures(records[k])) \in Nat /\ Len(records[k].value) \in Nat
  <2>1. Len(Figures(records[k])) \in 1 .. 4 /\ Len(records[k].value) \in 1 .. MaxDigits
    BY <1>1, LengthIs, RecordType
  <2> QED
    BY <2>1, PaxFits
<1> QED
  BY <1>2, ValuesOfFacts

LEMMA NextRecordKeeps ==
  ASSUME PaxInv, records # <<>>, Pax!NextRecord
  PROVE  PaxInv'
<1>1. Layout /\ UNCHANGED <<data, records>> /\ pc = "record"
  BY DEF PaxInv, Pax!NextRecord
<1>2. Layout'
  BY <1>1, DataStays
<1>3. CASE pos < Len(data)
  <2>1. recLen' = 0 /\ i' = pos /\ pc' = "length" /\ pos' = pos
    BY <1>3 DEF Pax!NextRecord, Pax!len
  <2>2. ~(pos = Len(data))
    BY <1>1, <1>3, LayoutFacts
  <2>3. PICK k \in Nat : AtRecord(k)
    BY <1>1, <2>2 DEF PaxInv
  <2>4. k \in 1 .. Len(records) /\ pos = Off(k) /\ NoneBefore(k) /\ pos \in Nat
    BY <1>1, <2>3, LayoutFacts DEF AtRecord
  <2>5. AtRecord(k)'
    BY <1>1, <2>1, <2>4, DataStays
  <2>6. InLength(k, 0)'
    <3>1. i' = pos' + 0
      BY <2>1, <2>4
    <3>2. records' = records
      BY <1>1
    <3> QED
      BY <1>1, <2>1, <2>4, <3>1, <3>2, StartsAtZero DEF InLength
  <2>7. FindsSize'
    BY <2>1 DEF FindsSize, Pax!FindsSize
  <2> QED
    BY <1>2, <2>1, <2>3, <2>5, <2>6, <2>7 DEF PaxInv
<1>4. CASE ~(pos < Len(data))
  <2>1. pc' = "done" /\ result' = PaxMax
    BY <1>4 DEF Pax!NextRecord, Pax!len, Pax!Return, Pax!NoSize
  <2>2. ASSUME NEW k \in Nat, AtRecord(k) PROVE FALSE
    <3>1. k \in 1 .. Len(records) /\ pos = Off(k)
      BY <2>2 DEF AtRecord
    <3>2. PICK n : n = LengthOf(records[k])
      OBVIOUS
    <3>3. n \in 1 .. MaxDigits + 7 /\ Off(k) \in Nat /\ Len(data) \in Nat /\ Off(k) + n <= Len(data)
      BY <1>1, <3>1, <3>2, LayoutFacts, LengthFits
    <3> QED
      BY <1>4, <3>1, <3>3
  <2>3. NoneBefore(Len(records) + 1)
    BY <1>1, <2>2 DEF PaxInv
  <2>4. Pax!Sized(records) = {}
    BY <1>1, <2>3, NoSizeSaid
  <2>5. FindsSize'
    BY <1>1, <2>1, <2>4 DEF FindsSize, Pax!FindsSize, Pax!NoSize
  <2> QED
    BY <1>2, <2>1, <2>5 DEF PaxInv
<1> QED
  BY <1>3, <1>4

\* The number of the first digits of a length is no larger than the data.
LEMMA LengthSoFar ==
  ASSUME Layout, NEW k \in 1 .. Len(records), NEW j \in 0 .. Len(Figures(records[k]))
  PROVE  LET w == Len(Figures(records[k]))
             v == ValuesOf(Figures(records[k]), PaxRadix)
         IN  /\ v[j] \in Nat /\ v[j] <= Len(data) /\ v[w] = LengthOf(records[k])
             /\ j < w => v[j + 1] = v[j] * PaxRadix + Figures(records[k])[j + 1]
             /\ Len(data) \in Nat /\ Len(data) <= PaxMax
<1> DEFINE r == records[k]
           w == Len(Figures(r))
           v == ValuesOf(Figures(r), PaxRadix)
           n == LengthOf(r)
<1>1. /\ r \in Pax!Records /\ Off(k) \in Nat /\ n \in Nat
      /\ Len(data) \in Nat /\ Len(data) <= PaxMax /\ Off(k) + n <= Len(data)
  BY LayoutFacts
<1> HIDE DEF r
<1>2. /\ w \in 1 .. 4 /\ Figures(r) \in Seq(0 .. PaxRadix - 1)
      /\ ValueOf(Figures(r), PaxRadix) = n
  BY <1>1, LengthIs
<1>3. PaxRadix \in Nat \ {0}
  BY PaxFits
<1>4. \A l \in 0 .. w : v[l] \in 0 .. Power(PaxRadix, l) - 1 /\ v[l] <= v[w]
  BY <1>2, <1>3, ValuesBounds
<1>5. v[w] = n /\ \A l \in Nat : l < w => v[l + 1] = v[l] * PaxRadix + Figures(r)[l + 1]
  <2>1. Len(Figures(r)) \in Nat
    BY <1>2
  <2> QED
    BY <1>2, <2>1, ValuesOfFacts
<1>6. j \in 0 .. w
  BY DEF w, r
<1> HIDE DEF w, v, n
<1>7. v[j] \in Nat /\ v[j] <= n
  BY <1>4, <1>5, <1>6
<1>8. v[j] <= Len(data)
  BY <1>1, <1>7
<1>9. j < w => v[j + 1] = v[j] * PaxRadix + Figures(r)[j + 1]
  BY <1>5, <1>6
<1> QED
  BY <1>1, <1>5, <1>7, <1>8, <1>9 DEF w, v, n, r

LEMMA LengthDigitKeeps ==
  ASSUME PaxInv, records # <<>>, Pax!LengthDigit
  PROVE  PaxInv'
<1>1. /\ Layout /\ UNCHANGED <<data, records, pos, pc>> /\ pc = "length" /\ Pax!IsDigit(i)
      /\ recLen' = (recLen * PaxRadix + Pax!ByteAt(i)) % (PaxMax + 1) /\ i' = i + 1
  BY DEF PaxInv, Pax!LengthDigit
<1>2. PICK k \in Nat, j \in Nat : AtRecord(k) /\ InLength(k, j)
  BY <1>1 DEF PaxInv
<1> DEFINE w == Len(Figures(records[k]))
           v == ValuesOf(Figures(records[k]), PaxRadix)
<1>3. /\ k \in 1 .. Len(records) /\ pos = Off(k) /\ NoneBefore(k)
      /\ j \in 0 .. w /\ i = Off(k) + j /\ recLen = v[j]
  BY <1>2 DEF AtRecord, InLength
<1>4. w \in Nat /\ Off(k) \in Nat
  <2>1. records[k] \in Pax!Records /\ Off(k) \in Nat
    BY <1>1, <1>3, LayoutFacts
  <2>2. w \in 1 .. 4
    BY <2>1, LengthIs
  <2> QED
    BY <2>1, <2>2
<1>5. j < w => /\ j + 1 \in 1 .. w
               /\ Pax!ByteAt(i) = Figures(records[k])[j + 1]
  BY <1>1, <1>3, LengthBytes
<1>6. j = w => ~Pax!IsDigit(i)
  BY <1>1, <1>3, LengthBytes
<1>7. j < w => /\ v[j + 1] = v[j] * PaxRadix + Figures(records[k])[j + 1]
               /\ Len(data) \in Nat /\ Len(data) <= PaxMax
  BY <1>1, <1>3, LengthSoFar
<1>8. \A l \in 0 .. w : v[l] \in Nat /\ v[l] <= Len(data)
  BY <1>1, <1>3, LengthSoFar
<1> HIDE DEF w, v
<1>9. j < w /\ j + 1 \in 0 .. w
  BY <1>1, <1>3, <1>4, <1>6
<1>10. recLen' = v[j + 1]
  <2>1. PICK x \in 0 .. PaxMax : x = v[j + 1]
    BY <1>7, <1>8, <1>9, PaxFits
  <2>2. x % (PaxMax + 1) = x
    BY <2>1, PaxFits, NoWrap
  <2>3. recLen * PaxRadix + Pax!ByteAt(i) = x
    BY <1>3, <1>5, <1>7, <1>9, <2>1
  <2> QED
    BY <1>1, <2>1, <2>2, <2>3
<1>11. InLength(k, j + 1)'
  <2>1. i' = pos' + (j + 1)
    BY <1>1, <1>3, <1>4
  <2>2. records' = records
    BY <1>1
  <2> QED
    BY <1>9, <1>10, <2>1, <2>2 DEF InLength, w, v
<1>12. Layout' /\ AtRecord(k)'
  BY <1>1, <1>3, DataStays
<1>13. FindsSize'
  BY <1>1 DEF FindsSize, Pax!FindsSize
<1>14. j + 1 \in Nat
  OBVIOUS
<1> QED
  BY <1>1, <1>11, <1>12, <1>13, <1>14 DEF PaxInv

\* A length that has been read is that of the record, which has room for a
\* key: it is compared with the key of the record, and nothing else.
LEMMA LengthRead ==
  ASSUME PaxInv, records # <<>>, Pax!LengthEnds
  PROVE  \E k \in Nat :
           /\ AtRecord(k) /\ recLen = LengthOf(records[k])
           /\ i = pos + Len(Figures(records[k]))
           /\ ~Pax!Malformed /\ Pax!HasRoom
           /\ Pax!KeyMatches = {records[k].key = Pax!Key}
<1>1. Layout /\ pc = "length" /\ ~(Pax!IsDigit(i) /\ recLen <= Len(data))
  BY DEF PaxInv, Pax!LengthEnds, Pax!len
<1>2. PICK k \in Nat, j \in Nat : AtRecord(k) /\ InLength(k, j)
  BY <1>1 DEF PaxInv
<1> DEFINE r == records[k]
           w == Len(Figures(r))
           m == Len(r.value)
           n == LengthOf(r)
           v == ValuesOf(Figures(r), PaxRadix)
<1>3. /\ k \in 1 .. Len(records) /\ pos = Off(k) /\ j \in 0 .. w
      /\ i = Off(k) + j /\ recLen = v[j]
  BY <1>2 DEF AtRecord, InLength
<1>4. v[j] <= Len(data) /\ v[w] = n
  BY <1>1, <1>3, LengthSoFar
<1>5. j < w => Pax!IsDigit(i)
  BY <1>1, <1>3, LengthBytes
<1>6. /\ r \in Pax!Records /\ WrittenAt(data, r, Off(k))
      /\ Off(k) \in Nat /\ Len(data) \in Nat /\ Len(data) <= PaxMax
      /\ Off(k) + n <= Len(data) /\ data \in Seq(Int)
  BY <1>1, <1>3, LayoutFacts DEF Layout
<1> HIDE DEF r
<1>7. w \in 1 .. 4 /\ n = w + m + 3
  BY <1>6, LengthIs
<1>8. m \in 1 .. MaxDigits
  BY <1>6, RecordType
<1> HIDE DEF w, m, n, v
<1>9. m \in Nat \ {0} /\ n \in Nat \ {0} /\ PaxMax \in Nat
  BY <1>7, <1>8, PaxFits
<1>10. j = w /\ recLen = n
  <2>1. ~(j < w)
    BY <1>1, <1>3, <1>4, <1>5
  <2>2. j = w
    BY <1>3, <1>7, <2>1
  <2> QED
    BY <1>3, <1>4, <2>2
<1>11. i = Off(k) + w
  BY <1>3, <1>10
<1>12. ~Pax!Malformed
  BY <1>3, <1>6, <1>9, <1>10 DEF Pax!Malformed, Pax!len
<1>13. Len(Pax!Key) = 2
  BY DEF Pax!Key
<1>14. Pax!HasRoom
  <2>1. PICK x \in 0 .. PaxMax : x = pos + recLen - i /\ x > 2
    <3>1. pos + recLen - i = m + 3
      BY <1>3, <1>6, <1>7, <1>9, <1>10, <1>11
    <3>2. m + 3 \in 0 .. PaxMax /\ m + 3 > 2
      BY <1>6, <1>7, <1>9
    <3> QED
      BY <3>1, <3>2
  <2>2. x % (PaxMax + 1) = x
    BY <1>9, <2>1, NoWrap
  <2> QED
    BY <1>13, <2>1, <2>2 DEF Pax!HasRoom
<1>15. Pax!KeyMatches = {r.key = Pax!Key}
  <2>1. i + 2 <= Len(data) /\ i \in Nat
    BY <1>6, <1>7, <1>9, <1>11
  <2>2. data[i + 1] = r.key[1] /\ data[i + 2] = r.key[2]
    <3>1. data[Off(k) + w + 1] = r.key[1] /\ data[Off(k) + w + 2] = r.key[2]
      BY <1>6 DEF WrittenAt, w
    <3> QED
      BY <1>11, <3>1
  <2> DEFINE s == SubSeq(data, i + 1, i + 2)
  <2>3. s \in Seq(Int) /\ Len(s) = 2 /\ s[1] = data[i + 1] /\ s[2] = data[i + 2]
    BY <1>6, <2>1
  <2> HIDE DEF s
  <2>4. /\ r.key \in {Pax!Key, Pax!OtherKey} /\ r.key[1] = Pax!Key[1]
        /\ Pax!Key \in Seq(Int) /\ (r.key = Pax!Key <=> r.key[2] = Pax!Key[2])
    <3>1. r.key[1] = PaxRadix /\ Pax!Key[1] = PaxRadix /\ Pax!Key[2] = PaxRadix + 1
      BY <1>6, RecordType
    <3>2. r.key \in {Pax!Key, Pax!OtherKey} /\ Pax!Key \in Seq(Int)
      BY <1>6, RecordType
    <3>3. r.key = Pax!Key <=> r.key[2] = PaxRadix + 1
      BY <1>6, RecordType
    <3> QED
      BY <3>1, <3>2, <3>3
  <2>5. s = Pax!Key <=> r.key = Pax!Key
    <3>1. CASE r.key = Pax!Key
      <4>1. s[1] = Pax!Key[1] /\ s[2] = Pax!Key[2]
        BY <2>2, <2>3, <2>4, <3>1
      <4>2. s = Pax!Key
        <5>1. \A a, b \in Seq(Int) :
                Len(a) = 2 /\ Len(b) = 2 /\ a[1] = b[1] /\ a[2] = b[2] => a = b
          OBVIOUS
        <5> QED
          BY <1>13, <2>3, <2>4, <4>1, <5>1
      <4> QED
        BY <3>1, <4>2
    <3>2. CASE r.key # Pax!Key
      <4>1. s[2] # Pax!Key[2]
        BY <2>2, <2>3, <2>4, <3>2
      <4> QED
        BY <3>2, <4>1
    <3> QED
      BY <3>1, <3>2
  <2>6. Pax!KeyMatches = {s = Pax!Key}
    BY <1>13, <2>1 DEF Pax!KeyMatches, Pax!len, s
  <2> QED
    BY <2>5, <2>6, Zenon
<1>16. recLen = LengthOf(records[k]) /\ i = pos + Len(Figures(records[k]))
  BY <1>3, <1>10, <1>11 DEF n, w, r
<1> QED
  BY <1>2, <1>12, <1>14, <1>15, <1>16 DEF r

LEMMA SkipRecordKeeps ==
  ASSUME PaxInv, records # <<>>, Pax!SkipRecord
  PROVE  PaxInv'
<1>1. /\ Layout /\ UNCHANGED <<data, records>> /\ Pax!LengthEnds
      /\ pos' = pos + recLen /\ pc' = "record"
      /\ ~Pax!HasRoom \/ FALSE \in Pax!KeyMatches
  BY DEF PaxInv, Pax!SkipRecord, Pax!Skipped
<1>2. PICK k \in Nat : /\ AtRecord(k) /\ recLen = LengthOf(records[k]) /\ Pax!HasRoom
                       /\ Pax!KeyMatches = {records[k].key = Pax!Key}
  BY <1>1, LengthRead
<1>3. k \in 1 .. Len(records) /\ pos = Off(k) /\ NoneBefore(k)
  BY <1>2 DEF AtRecord
<1>4. /\ records[k] \in Pax!Records /\ Len(records) \in Nat
      /\ k < Len(records) => k + 1 \in 1 .. Len(records) /\ Off(k + 1) = pos'
      /\ ~(k < Len(records)) => k = Len(records) /\ pos' = Len(data)
  <2>1. Len(records) \in Nat
    BY <1>1 DEF Layout
  <2>2. /\ records[k] \in Pax!Records
        /\ k < Len(records) => /\ k + 1 \in 1 .. Len(records)
                               /\ Off(k + 1) = Off(k) + LengthOf(records[k])
        /\ ~(k < Len(records)) => /\ k = Len(records)
                                  /\ Off(k) + LengthOf(records[k]) = Len(data)
    BY <1>1, <1>3, LayoutFacts
  <2> QED
    BY <1>1, <1>2, <1>3, <2>1, <2>2
<1>5. records[k].key = Pax!OtherKey
  <2>1. records[k].key # Pax!Key
    <3>1. FALSE \in {records[k].key = Pax!Key}
      BY <1>1, <1>2, Zenon
    <3> QED
      BY <3>1
  <2> QED
    BY <1>4, <2>1, RecordType
<1>6. NoneBefore(k + 1)
  <2>1. ASSUME NEW j \in 1 .. k + 1 - 1 PROVE records[j].key = Pax!OtherKey
    <3>1. j = k \/ j \in 1 .. k - 1
      BY <1>3, <1>4
    <3> QED
      BY <1>3, <1>5, <3>1 DEF NoneBefore
  <2> QED
    BY <2>1 DEF NoneBefore
<1>7. Layout' /\ FindsSize'
  BY <1>1, DataStays DEF FindsSize, Pax!FindsSize
<1>8. CASE k < Len(records)
  <2>1. AtRecord(k + 1)' /\ k + 1 \in Nat
    BY <1>1, <1>4, <1>6, <1>8, DataStays
  <2> QED
    BY <1>1, <1>7, <2>1 DEF PaxInv
<1>9. CASE ~(k < Len(records))
  <2>1. pos' = Len(data') /\ NoneBefore(Len(records) + 1)
    BY <1>1, <1>4, <1>6, <1>9
  <2>2. NoneBefore(Len(records) + 1)'
    <3>1. records' = records
      BY <1>1
    <3> QED
      BY <2>1, <3>1 DEF NoneBefore
  <2> QED
    BY <1>1, <1>7, <2>1, <2>2 DEF PaxInv
<1> QED
  BY <1>8, <1>9

LEMMA FoundKeyKeeps ==
  ASSUME PaxInv, records # <<>>, Pax!FoundKey
  PROVE  PaxInv'
<1>1. /\ Layout /\ UNCHANGED <<data, records, pos, recLen>> /\ Pax!LengthEnds
      /\ i' = i + 2 /\ size' = 0 /\ pc' = "value" /\ TRUE \in Pax!KeyMatches
  <2>1. Len(Pax!Key) = 2
    BY DEF Pax!Key
  <2> QED
    BY <2>1 DEF PaxInv, Pax!FoundKey
<1>2. PICK k \in Nat : /\ AtRecord(k) /\ recLen = LengthOf(records[k])
                       /\ i = pos + Len(Figures(records[k]))
                       /\ Pax!KeyMatches = {records[k].key = Pax!Key}
  BY <1>1, LengthRead
<1>3. k \in 1 .. Len(records) /\ pos = Off(k) /\ NoneBefore(k)
  BY <1>2 DEF AtRecord
<1>4. records[k].key = Pax!Key
  <2>1. TRUE \in {records[k].key = Pax!Key}
    BY <1>1, <1>2, Zenon
  <2> QED
    BY <2>1
<1> DEFINE w == Len(Figures(records[k]))
<1>5. w \in Nat /\ pos \in Nat
  <2>1. records[k] \in Pax!Records /\ Off(k) \in Nat
    BY <1>1, <1>3, LayoutFacts
  <2>2. w \in 1 .. 4
    BY <2>1, LengthIs
  <2> QED
    BY <1>3, <2>1, <2>2
<1>6. i' = pos + w + 2 + 0
  <2> HIDE DEF w
  <2> QED BY <1>1, <1>2, <1>5 DEF w
<1>7. InSize(k, 0)'
  <2>1. records' = records /\ size' <= PaxMax
    BY <1>1, PaxFits
  <2> QED
    BY <1>1, <1>2, <1>3, <1>4, <1>6, <2>1, StartsAtZero DEF InSize
<1>8. Layout' /\ AtRecord(k)' /\ FindsSize'
  BY <1>1, <1>3, DataStays DEF FindsSize, Pax!FindsSize
<1> QED
  BY <1>1, <1>7, <1>8 DEF PaxInv

\* The test before a digit is added: what it rejects is near the largest
\* number, and what it lets through fits.
LEMMA TestsTheDigit ==
  ASSUME NEW s \in Nat, NEW d \in 0 .. PaxRadix - 1
  PROVE  LET last == (PaxMax - (PaxRadix - 1)) \div PaxRadix
         IN  /\ s > last => s * PaxRadix > PaxMax - PaxRadix
             /\ ~(s > last) => s * PaxRadix + d \in 0 .. PaxMax
<1>1. PICK R \in Nat \ {0} : R = PaxRadix
  BY PaxFits
<1>2. PICK a \in Nat : a = PaxMax - (R - 1) /\ PaxMax = a + (R - 1) /\ PaxMax \in Nat
  BY <1>1, PaxFits
<1>3. PICK q \in Nat, t \in 0 .. R - 1 : q = a \div R /\ a = t + R * q
  BY DivFacts
<1>4. s * R \in Nat /\ R * q \in Nat
  OBVIOUS
<1>5. ASSUME s > q PROVE s * R > PaxMax - R
  <2>1. s * R >= (q + 1) * R /\ (q + 1) * R = R * q + R
    BY <1>5
  <2> QED
    BY <1>2, <1>3, <1>4, <2>1
<1>6. ASSUME ~(s > q) PROVE s * R + d \in 0 .. PaxMax
  <2>1. s * R <= q * R /\ q * R = R * q
    BY <1>6
  <2>2. d \in 0 .. R - 1
    BY <1>1
  <2> QED
    BY <1>2, <1>3, <1>4, <2>1, <2>2
<1> QED
  BY <1>1, <1>2, <1>3, <1>5, <1>6

\* The number of the first digits of a value is no larger than the size said.
LEMMA ValueSoFar ==
  ASSUME Layout, NEW k \in 1 .. Len(records), NEW j \in 0 .. Len(records[k].value)
  PROVE  LET m == Len(records[k].value)
             v == ValuesOf(records[k].value, PaxRadix)
         IN  /\ v[j] \in Nat /\ v[m] \in Nat /\ v[j] <= v[m]
             /\ j < m => v[j + 1] = v[j] * PaxRadix + records[k].value[j + 1]
             /\ v[m] = ValueOf(records[k].value, PaxRadix)
<1> DEFINE r == records[k]
           m == Len(r.value)
           v == ValuesOf(r.value, PaxRadix)
<1>1. r \in Pax!Records
  BY LayoutFacts
<1> HIDE DEF r
<1>2. m \in 1 .. MaxDigits /\ r.value \in Seq(0 .. PaxRadix - 1)
  BY <1>1, RecordType
<1>3. PaxRadix \in Nat \ {0} /\ m \in Nat
  BY <1>2, PaxFits
<1>4. \A l \in 0 .. m : v[l] \in 0 .. Power(PaxRadix, l) - 1 /\ v[l] <= v[m]
  BY <1>2, <1>3, ValuesBounds
<1>5. /\ v[m] = ValueOf(r.value, PaxRadix)
      /\ \A l \in Nat : l < m => v[l + 1] = v[l] * PaxRadix + r.value[l + 1]
  BY <1>3, ValuesOfFacts
<1>6. j \in 0 .. m
  BY DEF m, r
<1> HIDE DEF m, v
<1>7. v[j] \in Nat /\ v[m] \in Nat /\ v[j] <= v[m]
  BY <1>3, <1>4, <1>6
<1>8. j < m => v[j + 1] = v[j] * PaxRadix + r.value[j + 1]
  BY <1>5, <1>6
<1> QED
  BY <1>5, <1>7, <1>8 DEF m, v, r

LEMMA ValueDigitKeeps ==
  ASSUME PaxInv, records # <<>>, Pax!ValueDigit
  PROVE  PaxInv'
<1>1. Layout /\ UNCHANGED <<data, records, pos, recLen>> /\ pc = "value" /\ Pax!IsDigit(i)
  BY DEF PaxInv, Pax!ValueDigit, Pax!InValue
<1>2. PICK k \in Nat, j \in Nat : AtRecord(k) /\ InSize(k, j)
  BY <1>1 DEF PaxInv
<1> DEFINE w == Len(Figures(records[k]))
           m == Len(records[k].value)
           v == ValuesOf(records[k].value, PaxRadix)
<1>3. /\ k \in 1 .. Len(records) /\ pos = Off(k) /\ NoneBefore(k)
      /\ records[k].key = Pax!Key /\ recLen = LengthOf(records[k])
      /\ j \in 0 .. m /\ i = pos + w + 2 + j /\ size = v[j] /\ size <= PaxMax
  BY <1>2 DEF AtRecord, InSize
<1>4. w \in Nat /\ pos \in Nat /\ m \in Nat /\ PaxRadix \in Nat
  <2>1. records[k] \in Pax!Records /\ Off(k) \in Nat
    BY <1>1, <1>3, LayoutFacts
  <2>2. w \in 1 .. 4 /\ m \in 1 .. MaxDigits
    BY <2>1, LengthIs, RecordType
  <2> QED
    BY <1>3, <2>1, <2>2, PaxFits
<1>5. j < m => /\ j + 1 \in 1 .. m /\ Pax!ByteAt(i) = records[k].value[j + 1]
               /\ Pax!ByteAt(i) \in 0 .. PaxRadix - 1
  BY <1>1, <1>3, ValueBytes
<1>6. j = m => ~Pax!IsDigit(i)
  BY <1>1, <1>3, ValueBytes
<1>7. \A l \in 0 .. m : v[l] \in Nat /\ v[l] <= v[m] /\ v[m] \in Nat
  BY <1>1, <1>3, ValueSoFar
<1>8. j < m => v[j + 1] = v[j] * PaxRadix + records[k].value[j + 1]
  BY <1>1, <1>3, ValueSoFar
<1>9. Pax!Sized(records) # {} /\ Pax!Said(records) = v[m]
  <2>1. v[m] = ValueOf(records[k].value, PaxRadix)
    BY <1>1, <1>3, ValueSoFar
  <2> QED
    BY <1>1, <1>3, <2>1, SizeIsFirst
<1> HIDE DEF w, m, v
<1>10. j < m /\ j + 1 \in 0 .. m
  BY <1>1, <1>3, <1>4, <1>6
<1>11. PICK d \in 0 .. PaxRadix - 1 : d = Pax!ByteAt(i)
  BY <1>5, <1>10
<1>12. v[j + 1] = size * PaxRadix + d /\ size \in Nat
  BY <1>3, <1>5, <1>7, <1>8, <1>10, <1>11
<1>13. /\ Pax!TooLarge => size * PaxRadix > PaxMax - PaxRadix
       /\ ~Pax!TooLarge => size * PaxRadix + d \in 0 .. PaxMax
  BY <1>12, TestsTheDigit DEF Pax!TooLarge
<1>14. Layout'
  BY <1>1, DataStays
<1>15. CASE Pax!TooLarge
  <2>1. pc' = "done" /\ result' = PaxMax
    BY <1>15 DEF Pax!ValueDigit, Pax!Return, Pax!NoSize
  <2>2. v[m] > PaxMax - PaxRadix /\ v[m] \in Nat /\ PaxMax \in Nat
    <3>1. PICK x \in Nat, y \in Nat : x = v[j + 1] /\ y = v[m] /\ x <= y
      BY <1>7, <1>10
    <3>2. size * PaxRadix \in Nat
      BY <1>4, <1>12
    <3>3. x >= size * PaxRadix
      BY <1>4, <1>12, <3>1, <3>2
    <3> QED
      BY <1>4, <1>13, <1>15, <3>1, <3>2, <3>3, PaxFits
  <2>3. ~(v[m] <= PaxMax - PaxRadix)
    BY <1>4, <2>2
  <2>4. FindsSize'
    <3>1. records' = records
      BY <1>1
    <3> QED
      BY <1>9, <2>1, <2>3, <3>1 DEF FindsSize, Pax!FindsSize, Pax!NoSize
  <2> QED
    BY <1>14, <2>1, <2>4 DEF PaxInv
<1>16. CASE ~Pax!TooLarge
  <2>1. /\ size' = (size * PaxRadix + Pax!ByteAt(i)) % (PaxMax + 1)
        /\ i' = i + 1 /\ pc' = pc
    BY <1>16 DEF Pax!ValueDigit
  <2>2. size' = v[j + 1] /\ size' <= PaxMax
    <3>1. PICK x \in 0 .. PaxMax : x = size * PaxRadix + d
      BY <1>13, <1>16
    <3>2. x % (PaxMax + 1) = x
      BY <3>1, PaxFits, NoWrap
    <3>3. x <= PaxMax
      OBVIOUS
    <3> QED
      BY <1>11, <1>12, <2>1, <3>1, <3>2, <3>3
  <2>3. i' = pos' + w + 2 + (j + 1)
    BY <1>1, <1>3, <1>4, <2>1
  <2>4. InSize(k, j + 1)'
    <3>1. records' = records /\ recLen' = recLen
      BY <1>1
    <3> QED
      BY <1>3, <1>10, <2>2, <2>3, <3>1 DEF InSize, w, m, v
  <2>5. AtRecord(k)' /\ FindsSize'
    BY <1>1, <1>3, <2>1, DataStays DEF FindsSize, Pax!FindsSize
  <2>6. j + 1 \in Nat
    OBVIOUS
  <2> QED
    BY <1>1, <1>14, <2>1, <2>4, <2>5, <2>6 DEF PaxInv
<1> QED
  BY <1>15, <1>16

LEMMA ValueEndsKeeps ==
  ASSUME PaxInv, records # <<>>, Pax!ValueEnds
  PROVE  PaxInv'
<1>1. /\ Layout /\ UNCHANGED <<data, records>> /\ pc = "value"
      /\ ~(i < pos + recLen /\ Pax!IsDigit(i)) /\ pc' = "done" /\ result' = size
  BY DEF PaxInv, Pax!ValueEnds, Pax!InValue, Pax!Return
<1>2. PICK k \in Nat, j \in Nat : AtRecord(k) /\ InSize(k, j)
  BY <1>1 DEF PaxInv
<1> DEFINE m == Len(records[k].value)
           v == ValuesOf(records[k].value, PaxRadix)
<1>3. /\ k \in 1 .. Len(records) /\ pos = Off(k) /\ NoneBefore(k)
      /\ records[k].key = Pax!Key /\ recLen = LengthOf(records[k])
      /\ j \in 0 .. m /\ i = pos + Len(Figures(records[k])) + 2 + j
      /\ size = v[j] /\ size <= PaxMax
  BY <1>2 DEF AtRecord, InSize
<1>4. i < pos + recLen /\ (j < m => Pax!IsDigit(i))
  BY <1>1, <1>3, ValueBytes
<1>5. m \in Nat /\ PaxRadix \in Nat
  <2>1. records[k] \in Pax!Records
    BY <1>1, <1>3, LayoutFacts
  <2>2. m \in 1 .. MaxDigits
    BY <2>1, RecordType
  <2> QED
    BY <2>2, PaxFits
<1>6. v[m] = ValueOf(records[k].value, PaxRadix) /\ v[m] \in Nat
  BY <1>1, <1>3, ValueSoFar
<1>7. Pax!Sized(records) # {} /\ Pax!Said(records) = v[m]
  BY <1>1, <1>3, <1>6, SizeIsFirst
<1> HIDE DEF m, v
<1>8. j = m
  BY <1>1, <1>3, <1>4, <1>5
<1>9. result' = v[m] /\ ~(v[m] > PaxMax)
  BY <1>1, <1>3, <1>6, <1>8, PaxFits
<1>10. FindsSize'
  <2>1. records' = records
    BY <1>1
  <2> QED
    BY <1>1, <1>7, <1>9, <2>1 DEF FindsSize, Pax!FindsSize
<1>11. Layout'
  BY <1>1, DataStays
<1> QED
  BY <1>1, <1>10, <1>11 DEF PaxInv

LEMMA PaxStep == PaxInv /\ [MCNext]_<<vars, paxVars>> => PaxInv'
<1> SUFFICES ASSUME PaxInv, [MCNext]_<<vars, paxVars>> PROVE PaxInv'
  OBVIOUS
<1>1. CASE UNCHANGED paxVars
  BY <1>1 DEF PaxInv, paxVars, Layout, Off, NoneBefore, AtRecord, InLength, InSize,
              FindsSize, Pax!FindsSize
<1>2. ASSUME Pax!Next, records # <<>> PROVE PaxInv'
  <2>1. CASE Pax!NextRecord
    BY <1>2, <2>1, NextRecordKeeps
  <2>2. CASE Pax!LengthDigit
    BY <1>2, <2>2, LengthDigitKeeps
  <2>3. CASE Pax!RejectRecord
    BY <1>2, <2>3, LengthRead DEF Pax!RejectRecord
  <2>4. CASE Pax!SkipRecord
    BY <1>2, <2>4, SkipRecordKeeps
  <2>5. CASE Pax!FoundKey
    BY <1>2, <2>5, FoundKeyKeeps
  <2>6. CASE Pax!ValueDigit
    BY <1>2, <2>6, ValueDigitKeeps
  <2>7. CASE Pax!ValueEnds
    BY <1>2, <2>7, ValueEndsKeeps
  <2> QED
    BY <1>2, <2>1, <2>2, <2>3, <2>4, <2>5, <2>6, <2>7 DEF Pax!Next
<1>3. ASSUME Pax!Next PROVE records' = records
  BY <1>3 DEF Pax!Next, Pax!NextRecord, Pax!LengthDigit, Pax!RejectRecord, Pax!SkipRecord,
              Pax!FoundKey, Pax!ValueDigit, Pax!ValueEnds
<1>4. ASSUME Pax!Next, records = <<>> PROVE PaxInv'
  BY <1>3, <1>4 DEF PaxInv
<1> QED
  BY <1>1, <1>2, <1>4 DEF MCNext, paxVars

\* The records of a list lie one behind the other in its data.
LEMMA EncodedOne ==
  ASSUME NEW r \in Pax!Records, records = <<r>>, data = Pax!Encoded(records)
  PROVE  Layout
<1> DEFINE u == Pax!Record(r.key, r.value)
           s == [k \in DOMAIN records |-> Pax!Record(records[k].key, records[k].value)]
<1>1. records \in Seq(Pax!Records) /\ Len(records) = 1 /\ records[1] = r
  OBVIOUS
<1>2. Len(s) = 1 /\ s[1] = u
  <2>1. s = [k \in 1 .. 1 |-> Pax!Record(records[k].key, records[k].value)]
    BY <1>1
  <2>2. s[1] = u
    BY <1>1, <2>1
  <2>3. s = [k \in 1 .. 1 |-> s[k]]
    OBVIOUS
  <2> HIDE DEF s, u
  <2> QED
    BY <2>2, <2>3
<1>3. u \in Seq(Int) /\ Len(u) = LengthOf(r) /\ WrittenAt(u, r, 0)
  BY RecordWritten
<1>4. data = Pax!FlattenSeq(s)
  BY DEF Pax!Encoded
<1> HIDE DEF s, u
<1>5. data = u
  <2>1. Pax!FlattenSeq(s) = IF 1 = 1 THEN s[1] ELSE s[1] \o s[2]
    BY <1>2, FlattenFew
  <2> QED
    BY <1>2, <1>4, <2>1
<1>6. \A k \in 1 .. Len(records) : WrittenAt(data, records[k], Off(k))
  BY <1>1, <1>3, <1>5 DEF Off
<1> QED
  BY <1>1, <1>3, <1>5, <1>6 DEF Layout

LEMMA EncodedTwo ==
  ASSUME NEW o \in Pax!Records, NEW r \in Pax!Records, o.key = Pax!OtherKey,
         records = <<o, r>>, data = Pax!Encoded(records)
  PROVE  Layout
<1> DEFINE t == Pax!Record(o.key, o.value)
           u == Pax!Record(r.key, r.value)
           s == [k \in DOMAIN records |-> Pax!Record(records[k].key, records[k].value)]
<1>1. records \in Seq(Pax!Records) /\ Len(records) = 2 /\ records[1] = o /\ records[2] = r
  OBVIOUS
<1>2. Len(s) = 2 /\ s[1] = t /\ s[2] = u
  <2>1. s = [k \in 1 .. 2 |-> Pax!Record(records[k].key, records[k].value)]
    BY <1>1
  <2>2. s[1] = t /\ s[2] = u
    BY <1>1, <2>1
  <2>3. s = [k \in 1 .. 2 |-> s[k]]
    BY <2>1
  <2> HIDE DEF s, t, u
  <2> QED
    BY <2>2, <2>3
<1>3. /\ t \in Seq(Int) /\ Len(t) = LengthOf(o) /\ WrittenAt(t, o, 0)
      /\ u \in Seq(Int) /\ Len(u) = LengthOf(r) /\ WrittenAt(u, r, 0)
  BY RecordWritten
<1>4. data = Pax!FlattenSeq(s)
  BY DEF Pax!Encoded
<1> HIDE DEF s, t, u
<1>5. data = t \o u
  <2>1. Pax!FlattenSeq(s) = IF 2 = 1 THEN s[1] ELSE s[1] \o s[2]
    BY <1>2, FlattenFew
  <2>2. 2 # 1
    OBVIOUS
  <2> QED
    BY <1>2, <1>4, <2>1, <2>2, Zenon
<1>6. PICK a \in 1 .. MaxDigits + 7, b \in 1 .. MaxDigits + 7 :
        a = LengthOf(o) /\ b = LengthOf(r)
  BY LengthFits
<1>7. a \in Nat /\ b \in Nat
  BY PaxFits
<1>8. IsConcat(Int, data, t, u, a, b)
  BY <1>3, <1>5, <1>6, <1>7, Concat
<1>9. data \in Seq(Int) /\ Len(data) = a + b
  BY <1>8 DEF IsConcat
<1>10. WrittenAt(data, o, 0)
  <2>1. \A j \in 1 .. a : data[0 + j] = t[j]
    <3>1. \A j \in 1 .. a : data[j] = t[j]
      BY <1>8, Zenon DEF IsConcat
    <3> QED
      BY <1>7, <3>1
  <2>2. 0 + a <= Len(data) /\ Len(data) \in Nat /\ 0 \in Nat
    BY <1>7, <1>9
  <2> QED
    BY <1>3, <1>6, <2>1, <2>2, WrittenWithin
<1>11. WrittenAt(data, r, a)
  <2>1. \A j \in 1 .. b : data[a + j] = u[j]
    BY <1>8, Zenon DEF IsConcat
  <2>2. a + b <= Len(data) /\ Len(data) \in Nat
    BY <1>7, <1>9
  <2> QED
    BY <1>3, <1>6, <1>7, <2>1, <2>2, WrittenWithin
<1>12. \A k \in 1 .. Len(records) : WrittenAt(data, records[k], Off(k))
  <2>1. Off(1) = 0 /\ Off(2) = a
    BY <1>1, <1>6 DEF Off
  <2> QED
    BY <1>1, <1>10, <1>11, <2>1
<1> QED
  BY <1>1, <1>6, <1>9, <1>12 DEF Layout

LEMMA PaxInit == MCInit => PaxInv
<1> SUFFICES ASSUME MCInit, records # <<>> PROVE PaxInv
  BY DEF PaxInv
<1>1. records \in Pax!Lists /\ data = Pax!Encoded(records) /\ pos = 0 /\ pc = "record"
  BY DEF MCInit, Pax!Idle, Pax!Init, Pax!Start
<1>2. Layout
  <2>1. CASE \E r \in Pax!Records : records = <<r>>
    BY <1>1, <2>1, EncodedOne
  <2>2. CASE \E r \in Pax!Records :
               records = <<[key |-> Pax!OtherKey, value |-> <<0>>], r>>
    <3>1. PICK r \in Pax!Records : records = <<[key |-> Pax!OtherKey, value |-> <<0>>], r>>
      BY <2>2
    <3> DEFINE o == [key |-> Pax!OtherKey, value |-> <<0>>]
    <3>2. o.key = Pax!OtherKey /\ o \in Pax!Records
      <4>1. 1 \in 1 .. MaxDigits
        <5>1. Len(r.value) \in 1 .. MaxDigits /\ MaxDigits \in Nat
          BY RecordType, PaxFits
        <5> QED
          BY <5>1
      <4>2. 0 \in Pax!DigitBytes
        BY PaxFits DEF Pax!DigitBytes
      <4>3. <<0>> \in [1 .. 1 -> Pax!DigitBytes]
        BY <4>2
      <4>4. <<0>> \in Pax!Values
        BY <4>1, <4>3 DEF Pax!Values
      <4> QED
        BY <4>4 DEF Pax!Records
    <3> HIDE DEF o
    <3>3. records = <<o, r>>
      BY <3>1 DEF o
    <3> QED
      BY <1>1, <3>2, <3>3, EncodedTwo
  <2> QED
    BY <1>1, <2>1, <2>2 DEF Pax!Lists
<1>3. AtRecord(1)
  <2>1. 1 \in 1 .. Len(records) /\ Off(1) = 0
    BY <1>2 DEF Layout, Off
  <2>2. NoneBefore(1)
    BY DEF NoneBefore
  <2> QED
    BY <1>1, <2>1, <2>2 DEF AtRecord
<1>4. FindsSize
  BY <1>1 DEF FindsSize, Pax!FindsSize
<1> QED
  BY <1>1, <1>2, <1>3, <1>4 DEF PaxInv

----------------------------------------------------------------------------
\* paxSize() returns the first size of a well-formed list exactly, and takes no
\* size that does not fit for another.
THEOREM PaxSizeFound == MCSpec => []FindsSize
<1>1. PaxInv => FindsSize
  <2>1. records = <<>> => FindsSize
    BY DEF FindsSize, Pax!FindsSize
  <2> QED
    BY <2>1 DEF PaxInv
<1> QED
  BY <1>1, PaxInit, PaxStep, PTL DEF MCSpec
=============================================================================
