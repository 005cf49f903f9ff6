---------------------------- MODULE Rfc3339Proofs ----------------------------
(***************************************************************************)
(* The time stamps read back as the time they were made from, for every    *)
(* day, millisecond and offset, and the integers as their value for every  *)
(* width of int.  The loops of writeInteger() are recursive functions; what*)
(* they compute is proved by induction on the naturals, which rests on the *)
(* well-foundedness of their order.                                        *)
(***************************************************************************)
EXTENDS Rfc3339, WellFoundedInduction, TLAPS

-----------------------------------------------------------------------------
(* Induction and recursion on the naturals                                 *)

LEMMA LessThan == IsWellFoundedOn({p \in Nat \X Nat : p[1] < p[2]}, Nat)
  BY NatLessThanWellFounded DEF OpToRel

LEMMA Smallest ==
  ASSUME NEW S \in SUBSET Nat, S # {}
  PROVE  \E m \in S : \A k \in S : m <= k
<1> DEFINE R == {p \in Nat \X Nat : p[1] < p[2]}
<1>1. PICK m \in S : \A k \in S : <<k, m>> \notin R
  <2> HIDE DEF R
  <2>1. IsWellFoundedOn(R, Nat)
    BY LessThan DEF R
  <2> QED
    BY <2>1, WFMin
<1>2. ASSUME NEW k \in S, k < m PROVE FALSE
  <2>1. <<k, m>> \in R
    BY <1>2
  <2> HIDE DEF R
  <2> QED
    BY <1>1, <2>1
<1> QED
  BY <1>2

LEMMA SetInduction ==
  ASSUME NEW S \in SUBSET Nat, 0 \in S, \A n \in S : n + 1 \in S
  PROVE  S = Nat
<1> SUFFICES ASSUME Nat \ S # {} PROVE FALSE
  OBVIOUS
<1>1. PICK m \in Nat \ S : \A k \in Nat \ S : m <= k
  BY Smallest
<1>2. m # 0 /\ m - 1 \in Nat
  BY <1>1
<1>3. m - 1 \in S
  BY <1>1, <1>2
<1> QED
  BY <1>1, <1>2, <1>3

\* A set of naturals that has a number whenever it has all smaller ones.
LEMMA StrongInduction ==
  ASSUME NEW S \in SUBSET Nat,
         \A n \in Nat : (\A k \in Nat : k < n => k \in S) => n \in S
  PROVE  S = Nat
<1> SUFFICES ASSUME Nat \ S # {} PROVE FALSE
  OBVIOUS
<1>1. PICK m \in Nat \ S : \A k \in Nat \ S : m <= k
  BY Smallest
<1> QED
  BY <1>1

\* A function is defined by its value at 0 and a rule G for every other
\* number n, which may use the value at a smaller number P[n].
Follows(f, n, base, P, G) == f[0] = base /\ \A i \in 1..n : f[i] = G[i][f[P[i]]]

Reached(X, base, P, G) ==
  {n \in Nat : \E f \in [0..n -> X] : Follows(f, n, base, P, G)}

LEMMA RecursionUpTo ==
  ASSUME NEW X, NEW base \in X, NEW P \in [Nat -> Nat], NEW G \in [Nat -> [X -> X]],
         \A n \in Nat : n # 0 => P[n] < n
  PROVE  Reached(X, base, P, G) = Nat
<1> DEFINE Sol(f, n) == Follows(f, n, base, P, G)
           S == {n \in Nat : \E f \in [0..n -> X] : Sol(f, n)}
<1> USE DEF Follows
<1>1. 0 \in S
  <2>1. [i \in 0..0 |-> base] \in [0..0 -> X] /\ Sol([i \in 0..0 |-> base], 0)
    OBVIOUS
  <2> QED
    BY <2>1
<1>2. ASSUME NEW n \in Nat, NEW f \in [0..n -> X], Sol(f, n)
      PROVE  \E g \in [0..(n + 1) -> X] : Sol(g, n + 1)
  <2> DEFINE g == [i \in 0..(n + 1) |->
                     IF i = n + 1 THEN G[n + 1][f[P[n + 1]]] ELSE f[i]]
  <2>1. ASSUME NEW i \in 1..(n + 1) PROVE P[i] \in 0..n /\ P[i] \in 0..(i - 1)
    <3>1. P[i] \in Nat /\ P[i] < i
      OBVIOUS
    <3> QED
      BY <3>1
  <2>2. g \in [0..(n + 1) -> X]
    <3>1. f[P[n + 1]] \in X
      BY <2>1
    <3>2. G[n + 1][f[P[n + 1]]] \in X
      BY <3>1
    <3> QED
      BY <3>2
  <2>3. g[0] = base
    BY <1>2
  <2>4. ASSUME NEW i \in 1..(n + 1) PROVE g[i] = G[i][g[P[i]]]
    <3>1. P[i] \in 0..n
      BY <2>1
    <3>2. g[P[i]] = f[P[i]]
      BY <3>1, SMTT(60)
    <3>3. CASE i = n + 1
      BY <3>2, <3>3
    <3>4. CASE i \in 1..n
      <4>1. g[i] = f[i]
        BY <3>4
      <4>2. f[i] = G[i][f[P[i]]]
        BY <1>2, <3>4
      <4> QED
        BY <3>2, <4>1, <4>2
    <3> QED
      BY <3>3, <3>4
  <2> HIDE DEF g
  <2>5. Sol(g, n + 1)
    BY <2>3, <2>4
  <2> QED
    BY <2>2, <2>5
<1>3. S = Nat
  <2>1. ASSUME NEW n \in S PROVE n + 1 \in S
    <3>1. PICK f \in [0..n -> X] : Sol(f, n)
      OBVIOUS
    <3>2. \E g \in [0..(n + 1) -> X] : Sol(g, n + 1)
      BY <1>2, <3>1
    <3>3. n + 1 \in Nat
      OBVIOUS
    <3> HIDE DEF Sol
    <3> QED
      BY <3>2, <3>3
  <2>2. S \in SUBSET Nat
    OBVIOUS
  <2> HIDE DEF S
  <2> QED
    BY <1>1, <2>1, <2>2, SetInduction
<1> QED
  BY <1>3 DEF Reached

Solutions(X, base, P, G) ==
  {f \in [Nat -> X] : f[0] = base /\ \A n \in Nat : n # 0 => f[n] = G[n][f[P[n]]]}

LEMMA Recursion ==
  ASSUME NEW X, NEW base \in X, NEW P \in [Nat -> Nat], NEW G \in [Nat -> [X -> X]],
         \A n \in Nat : n # 0 => P[n] < n
  PROVE  Solutions(X, base, P, G) # {}
<1> DEFINE Sol(f, n) == Follows(f, n, base, P, G)
           h == [n \in Nat |-> CHOOSE f \in [0..n -> X] : Sol(f, n)]
           F == [n \in Nat |-> h[n][n]]
           S == {i \in Nat : \A n, k \in Nat : i <= n /\ i <= k => h[n][i] = h[k][i]}
<1>1. ASSUME NEW n \in Nat PROVE h[n] \in [0..n -> X] /\ Sol(h[n], n)
  <2>1. \E f \in [0..n -> X] : Sol(f, n)
    <3>1. Reached(X, base, P, G) = Nat
      <4> HIDE DEF Sol, h, F, S
      <4> QED
        BY RecursionUpTo
    <3> QED
      BY <3>1 DEF Reached
  <2> HIDE DEF Sol
  <2> QED
    BY <2>1
<1> HIDE DEF h
<1> USE DEF Follows
<1>2. ASSUME NEW i \in Nat, \A k \in Nat : k < i => k \in S PROVE i \in S
  <2> SUFFICES ASSUME NEW n \in Nat, NEW k \in Nat, i <= n, i <= k
               PROVE  h[n][i] = h[k][i]
    OBVIOUS
  <2>1. CASE i = 0
    BY <1>1, <2>1
  <2>2. CASE i # 0
    <3>1. P[i] \in Nat /\ P[i] < i
      BY <2>2
    <3>2. h[n][P[i]] = h[k][P[i]]
      <4>1. P[i] \in S
        BY <1>2, <3>1
      <4>2. P[i] <= n /\ P[i] <= k
        BY <3>1
      <4>3. \A v, w \in Nat : P[i] <= v /\ P[i] <= w => h[v][P[i]] = h[w][P[i]]
        BY <4>1
      <4> QED
        BY <4>2, <4>3
    <3>3. i \in 1..n /\ i \in 1..k
      BY <2>2
    <3>4. h[n][i] = G[i][h[n][P[i]]] /\ h[k][i] = G[i][h[k][P[i]]]
      BY <1>1, <3>3
    <3> QED
      BY <3>2, <3>4
  <2> QED
    BY <2>1, <2>2
<1>3. S = Nat
  <2>1. S \in SUBSET Nat
    OBVIOUS
  <2> HIDE DEF S
  <2> QED
    BY <1>2, <2>1, StrongInduction
<1>4. F \in [Nat -> X]
  <2>1. ASSUME NEW n \in Nat PROVE h[n][n] \in X
    <3>1. n \in 0..n
      OBVIOUS
    <3> QED
      BY <1>1, <3>1
  <2> QED
    BY <2>1
<1>5. F[0] = base
  BY <1>1
<1>6. ASSUME NEW n \in Nat, n # 0 PROVE F[n] = G[n][F[P[n]]]
  <2>1. P[n] \in Nat /\ P[n] < n
    BY <1>6
  <2>2. h[n][P[n]] = h[P[n]][P[n]]
    <3>1. P[n] \in S
      BY <1>3, <2>1
    <3> QED
      BY <2>1, <3>1
  <2>3. h[n][n] = G[n][h[n][P[n]]]
    <3>1. n \in 1..n
      BY <1>6
    <3> QED
      BY <1>1, <3>1
  <2> QED
    BY <2>1, <2>2, <2>3
<1> HIDE DEF F
<1> QED
  BY <1>4, <1>5, <1>6 DEF Solutions

\* What passes from P[n] to n holds of every number.
LEMMA Inherited ==
  ASSUME NEW X, NEW f, NEW P \in [Nat -> Nat],
         \A n \in Nat : n # 0 => P[n] < n,
         f[0] \in X,
         \A n \in Nat : n # 0 /\ f[P[n]] \in X => f[n] \in X
  PROVE  \A n \in Nat : f[n] \in X
<1> DEFINE S == {n \in Nat : f[n] \in X}
<1>1. ASSUME NEW n \in Nat, \A k \in Nat : k < n => k \in S PROVE n \in S
  <2>1. CASE n = 0
    BY <2>1
  <2>2. CASE n # 0
    <3>1. P[n] \in Nat /\ P[n] < n
      BY <2>2
    <3> QED
      BY <1>1, <2>2, <3>1
  <2> QED
    BY <2>1, <2>2
<1>2. S = Nat
  <2>1. S \in SUBSET Nat
    OBVIOUS
  <2> HIDE DEF S
  <2> QED
    BY <1>1, <2>1, StrongInduction
<1> QED
  BY <1>2

-----------------------------------------------------------------------------
(* What the loops of writeInteger() compute                                *)

\* An int keeps what fits.
LEMMA AsIntIs ==
  /\ \A n \in Int : AsInt(n) \in Int
  /\ \A n \in 0..MaxInt : AsInt(n) = n
<1>1. MaxInt \in Nat
  BY IntAssumption
<1>2. ASSUME NEW n \in Int PROVE (n + MaxInt + 1) % (2 * MaxInt + 2) \in Int
  BY <1>1, SMT
<1>3. ASSUME NEW n \in 0..MaxInt
      PROVE  (n + MaxInt + 1) % (2 * MaxInt + 2) = n + MaxInt + 1
  BY <1>1, SMT
<1> QED
  BY <1>1, <1>2, <1>3 DEF AsInt

LEMMA MeasuredIs ==
  /\ Measured \in [Nat -> [nDigits : Nat, nExp : Int]]
  /\ Measured[0] = [nDigits |-> 1, nExp |-> 1]
  /\ \A n \in Nat : n # 0 =>
       Measured[n] = [nDigits |-> Measured[n \div 10].nDigits + 1,
                      nExp |-> AsInt(Measured[n \div 10].nExp * 10)]
<1> DEFINE X == [nDigits : Nat, nExp : Int]
           base == [nDigits |-> 1, nExp |-> 1]
           step(r) == [nDigits |-> r.nDigits + 1, nExp |-> AsInt(r.nExp * 10)]
           P == [n \in Nat |-> n \div 10]
           G == [n \in Nat |-> [r \in X |-> step(r)]]
<1>1. base \in X /\ P \in [Nat -> Nat] /\ \A n \in Nat : n # 0 => P[n] < n
  OBVIOUS
<1>2. G \in [Nat -> [X -> X]]
  <2>1. \A r \in X : step(r) \in X
    BY AsIntIs
  <2> HIDE DEF X, step
  <2> QED
    BY <2>1
<1>3. Solutions(X, base, P, G) # {}
  <2> HIDE DEF X, base, P, G
  <2> QED
    BY <1>1, <1>2, Recursion
<1>4. PICK f \in [Nat -> X] :
        f[0] = base /\ \A n \in Nat : n # 0 => f[n] = step(f[n \div 10])
  <2>1. \A n \in Nat : n # 0 => n \div 10 \in Nat
    OBVIOUS
  <2> HIDE DEF X, base, step
  <2> QED
    BY <1>3, <2>1 DEF Solutions
<1>5. f = [n \in Nat |-> IF n = 0 THEN base ELSE step(f[n \div 10])]
  <2> HIDE DEF X, base, step
  <2> QED
    BY <1>4
<1>6. Measured = [n \in Nat |-> IF n = 0 THEN base ELSE step(Measured[n \div 10])]
  BY <1>5 DEF Measured
<1>7. \A n \in Nat : Measured[n] \in X
  <2>1. Measured[0] \in X
    BY <1>1, <1>6
  <2>2. ASSUME NEW n \in Nat, n # 0, Measured[P[n]] \in X PROVE Measured[n] \in X
    <3>1. Measured[n] = G[n][Measured[P[n]]]
      BY <1>6, <2>2
    <3> QED
      BY <1>2, <2>2, <3>1, ZenonT(60)
  <2> HIDE DEF X, P
  <2> QED
    BY <1>1, <2>1, <2>2, Inherited
<1> QED
  BY <1>6, <1>7

LEMMA Prepended ==
  ASSUME NEW C, NEW c \in C, NEW w \in Seq(C)
  PROVE  /\ <<c>> \o w \in Seq(C)
         /\ Len(<<c>> \o w) = Len(w) + 1
         /\ (<<c>> \o w)[1] = c
         /\ \A i \in 1..Len(w) : (<<c>> \o w)[i + 1] = w[i]
<1>1. <<c>> \in Seq(C) /\ Len(<<c>>) = 1 /\ <<c>>[1] = c
  OBVIOUS
<1> QED
  BY <1>1

LEMMA CiphersFromIs ==
  /\ \A e, n \in Nat : CiphersFrom[e][n] \in Seq({Cipher[k] : k \in Nat})
  /\ \A n \in Nat : CiphersFrom[0][n] = <<>>
  /\ \A e, n \in Nat : e # 0 =>
       CiphersFrom[e][n] =
         <<Cipher[(n \div e) + 1]>> \o CiphersFrom[e \div 10][n % e]
<1> DEFINE T == Seq({Cipher[k] : k \in Nat})
           X == [Nat -> T]
           base == [n \in Nat |-> <<>>]
           step(e, r) == [n \in Nat |-> <<Cipher[(n \div e) + 1]>> \o r[n % e]]
           P == [e \in Nat |-> e \div 10]
           G == [e \in Nat |-> [r \in X |-> IF e = 0 THEN base ELSE step(e, r)]]
<1>1. base \in X /\ P \in [Nat -> Nat] /\ \A e \in Nat : e # 0 => P[e] < e
  OBVIOUS
<1>2. G \in [Nat -> [X -> X]]
  <2>1. ASSUME NEW e \in Nat, e # 0, NEW r \in X PROVE step(e, r) \in X
    <3> SUFFICES ASSUME NEW n \in Nat
                 PROVE  <<Cipher[(n \div e) + 1]>> \o r[n % e] \in T
      OBVIOUS
    <3>1. n \div e \in Nat /\ n % e \in Nat
      BY <2>1
    <3>2. r[n % e] \in T
      <4> HIDE DEF T
      <4> QED
        BY <3>1
    <3>3. Cipher[(n \div e) + 1] \in {Cipher[k] : k \in Nat}
      BY <3>1
    <3> HIDE DEF T
    <3> QED
      BY <3>2, <3>3, Prepended DEF T
  <2> HIDE DEF X, step, base
  <2> QED
    BY <1>1, <2>1
<1>3. Solutions(X, base, P, G) # {}
  <2> HIDE DEF X, base, P, G
  <2> QED
    BY <1>1, <1>2, Recursion
<1>4. PICK f \in [Nat -> X] :
        f[0] = base /\ \A e \in Nat : e # 0 => f[e] = step(e, f[e \div 10])
  <2>1. \A e \in Nat : e # 0 => e \div 10 \in Nat
    OBVIOUS
  <2> HIDE DEF X, base, step
  <2> QED
    BY <1>3, <2>1 DEF Solutions
<1> DEFINE body(e, r) ==
             [n \in Nat |-> IF e = 0 THEN <<>>
                            ELSE <<Cipher[(n \div e) + 1]>> \o r[n % e]]
<1>5. f = [e \in Nat |-> body(e, f[e \div 10])]
  <2>1. \A r : body(0, r) = base
    OBVIOUS
  <2>2. \A r : \A e \in Nat : e # 0 => body(e, r) = step(e, r)
    OBVIOUS
  <2> HIDE DEF X, base, step, body
  <2> QED
    BY <1>4, <2>1, <2>2
<1>6. CiphersFrom = [e \in Nat |-> body(e, CiphersFrom[e \div 10])]
  BY <1>5 DEF CiphersFrom
<1>7. \A e \in Nat : CiphersFrom[e] \in X
  <2>1. CiphersFrom[0] \in X
    BY <1>1, <1>6
  <2>2. ASSUME NEW e \in Nat, e # 0, CiphersFrom[P[e]] \in X
        PROVE  CiphersFrom[e] \in X
    <3>1. P[e] = e \div 10 /\ P[e] \in Nat
      BY <2>2
    <3>2. CiphersFrom[e] = body(e, CiphersFrom[P[e]])
      BY <1>6, <3>1
    <3>3. body(e, CiphersFrom[P[e]]) = step(e, CiphersFrom[P[e]])
      BY <2>2
    <3>4. step(e, CiphersFrom[P[e]]) = G[e][CiphersFrom[P[e]]]
      BY <2>2
    <3> HIDE DEF X, G, P, body, step
    <3> QED
      BY <1>2, <2>2, <3>2, <3>3, <3>4
  <2> HIDE DEF X, P
  <2> QED
    BY <1>1, <2>1, <2>2, Inherited
<1>8. \A e \in Nat : CiphersFrom[e] = body(e, CiphersFrom[e \div 10])
  BY <1>6
<1> QED
  BY <1>7, <1>8, ZenonT(60)

LEMMA DivMod ==
  ASSUME NEW n \in Nat, NEW e \in Nat, e # 0
  PROVE  /\ n \div e \in Nat /\ n % e \in 0..(e - 1)
         /\ n = e * (n \div e) + (n % e)
         /\ n < 10 * e => n \div e \in 0..9
         /\ e <= n => n \div e # 0
  OBVIOUS

-----------------------------------------------------------------------------
(* What a reader makes of the characters                                   *)

Numerals == Seq(ToSet(Cipher))

LEMMA DigitIs ==
  /\ \A d \in 0..9 : Cipher[d + 1] \in ToSet(Cipher) /\ Digit(Cipher[d + 1]) = d
  /\ \A c \in ToSet(Cipher) : Digit(c) \in 0..9 /\ Cipher[Digit(c) + 1] = c
  /\ Cipher[1] = "0"
<1>1. \A d, e \in 0..9 : Cipher[d + 1] = Cipher[e + 1] => d = e
  BY DEF Cipher
<1>2. ToSet(Cipher) = {Cipher[d + 1] : d \in 0..9}
  BY DEF Cipher, ToSet
<1>3. Cipher[1] = "0"
  BY DEF Cipher
<1>4. ASSUME NEW d \in 0..9 PROVE Digit(Cipher[d + 1]) = d
  BY <1>1 DEF Digit
<1> QED
  BY <1>2, <1>3, <1>4

LEMMA ReadUpToIs ==
  ASSUME NEW text \in Numerals
  PROVE  /\ ReadUpTo(text)[0] = 0
         /\ \A i \in 0..Len(text) : ReadUpTo(text)[i] \in Nat
         /\ \A i \in 1..Len(text) :
              ReadUpTo(text)[i] = 10 * ReadUpTo(text)[i - 1] + Digit(text[i])
<1> DEFINE P == [n \in Nat |-> IF n = 0 THEN 0 ELSE n - 1]
           read(n, x) == 10 * x + Digit(text[n])
           G == [n \in Nat |-> [x \in Nat |-> IF n \in 1..Len(text) THEN read(n, x) ELSE 0]]
<1>1. Len(text) \in Nat
  BY DEF Numerals
<1>2. ASSUME NEW i \in 1..Len(text) PROVE Digit(text[i]) \in Nat
  <2>1. text[i] \in ToSet(Cipher)
    BY DEF Numerals
  <2> QED
    BY <2>1, DigitIs
<1>3. P \in [Nat -> Nat] /\ \A n \in Nat : n # 0 => P[n] < n
  OBVIOUS
<1>4. G \in [Nat -> [Nat -> Nat]]
  <2>1. ASSUME NEW n \in 1..Len(text), NEW x \in Nat PROVE read(n, x) \in Nat
    BY <1>2
  <2> HIDE DEF read
  <2> QED
    BY <2>1
<1>5. Len(text) \in Reached(Nat, 0, P, G)
  <2> HIDE DEF P, G
  <2> QED
    BY <1>1, <1>3, <1>4, RecursionUpTo
<1>6. PICK f \in [0..Len(text) -> Nat] : Follows(f, Len(text), 0, P, G)
  <2> HIDE DEF P, G
  <2> QED
    BY <1>5 DEF Reached
<1>7. f = [i \in 0..Len(text) |-> IF i = 0 THEN 0 ELSE read(i, f[i - 1])]
  <2>1. ASSUME NEW i \in 1..Len(text) PROVE f[i] = read(i, f[i - 1])
    <3>0. i \in Nat /\ i # 0
      BY <1>1
    <3>1. P[i] = i - 1 /\ i - 1 \in 0..Len(text) /\ f[i - 1] \in Nat
      BY <1>1, <3>0
    <3>2. f[i] = G[i][f[P[i]]]
      BY <1>6 DEF Follows
    <3> HIDE DEF read, P
    <3> QED
      BY <1>1, <3>1, <3>2
  <2> HIDE DEF read
  <2> QED
    BY <1>1, <1>6, <2>1 DEF Follows
<1> DEFINE R == ReadUpTo(text)
<1>8. R = [i \in 0..Len(text) |-> IF i = 0 THEN 0 ELSE read(i, R[i - 1])]
  BY <1>7 DEF ReadUpTo
<1> HIDE DEF R
<1>9. \A i \in Nat : i \in 0..Len(text) => R[i] \in Nat
  <2> DEFINE S == {i \in Nat : i \in 0..Len(text) => R[i] \in Nat}
  <2>1. 0 \in S
    BY <1>1, <1>8
  <2>2. ASSUME NEW i \in S PROVE i + 1 \in S
    BY <1>1, <1>2, <1>8, <2>2
  <2>3. S \in SUBSET Nat
    OBVIOUS
  <2> HIDE DEF S
  <2>4. S = Nat
    BY <2>1, <2>2, <2>3, SetInduction
  <2> QED
    BY <2>4 DEF S
<1> QED
  BY <1>1, <1>8, <1>9 DEF R

-----------------------------------------------------------------------------
(* writeInteger() writes numerals                                          *)

\* nExp is the power of ten of the first digit of a number with c tens.
Fits(c) ==
  LET m == Measured[c] IN
  /\ m.nDigits \in Nat \ {0} /\ m.nExp \in 1..MaxInt
  /\ c = 0 => m.nExp = 1 /\ m.nDigits = 1
  /\ c # 0 => /\ m.nExp <= 10 * c /\ c + 1 <= m.nExp
              /\ m.nExp = 10 * Measured[c \div 10].nExp
              /\ m.nDigits = Measured[c \div 10].nDigits + 1

LEMMA MeasuredFits ==
  ASSUME NEW c \in Nat, 10 * c <= MaxInt
  PROVE  Fits(c)
<1> DEFINE S == {n \in Nat : 10 * n <= MaxInt => Fits(n)}
<1>1. MaxInt \in Nat /\ 10 <= MaxInt
  BY IntAssumption
<1>2. ASSUME NEW n \in Nat, \A k \in Nat : k < n => k \in S, 10 * n <= MaxInt
      PROVE  Fits(n)
  <2>1. CASE n = 0
    BY <1>1, <2>1, MeasuredIs DEF Fits
  <2>2. CASE n # 0
    <3> DEFINE c0 == n \div 10
               m == Measured[c0]
    <3>1. c0 \in Nat /\ c0 < n /\ 10 * c0 <= n /\ n <= 10 * c0 + 9
      BY <2>2
    <3>2. Fits(c0)
      BY <1>1, <1>2, <3>1
    <3>3. Measured[n] = [nDigits |-> m.nDigits + 1, nExp |-> AsInt(m.nExp * 10)]
      BY <2>2, MeasuredIs
    <3> HIDE DEF c0
    <3>4. m.nExp \in 1..MaxInt /\ m.nDigits \in Nat \ {0}
      BY <3>2 DEF Fits
    <3>5. m.nExp * 10 \in 0..MaxInt /\ m.nExp * 10 <= 10 * n /\ n + 1 <= m.nExp * 10
      <4>1. CASE c0 = 0
        BY <1>1, <2>2, <3>1, <3>2, <4>1 DEF Fits
      <4>2. CASE c0 # 0
        BY <1>1, <1>2, <3>1, <3>2, <3>4, <4>2 DEF Fits
      <4> QED
        BY <4>1, <4>2
    <3>6. Measured[n].nDigits = m.nDigits + 1 /\ Measured[n].nExp = m.nExp * 10
      BY <3>3, <3>5, AsIntIs
    <3> HIDE DEF m
    <3>7. Fits(n)
      BY <2>2, <3>4, <3>5, <3>6 DEF Fits, c0, m
    <3> QED
      BY <3>7
  <2> QED
    BY <2>1, <2>2
<1>3. S = Nat
  <2>1. S \in SUBSET Nat
    OBVIOUS
  <2>2. \A n \in Nat : (\A k \in Nat : k < n => k \in S) => n \in S
    BY <1>2
  <2> HIDE DEF S
  <2> QED
    BY <2>1, <2>2, StrongInduction
<1> QED
  BY <1>3

\* The text has the numeral w behind position k.
Shows(text, k, w) ==
  k + Len(w) <= Len(text) /\ \A i \in 1..Len(w) : text[k + i] = w[i]

\* Whoever reads w behind the number of the text before it adds n to that
\* number moved up by a power of ten.
Reads(w, power, n) ==
  \A text \in Numerals, k \in Nat : Shows(text, k, w) =>
    ReadUpTo(text)[k + Len(w)] = power * ReadUpTo(text)[k] + n

\* What the dividing loop writes from the power of ten of c tens.
WritesFrom(c) ==
  \A n \in Nat : n < 10 * Measured[c].nExp =>
    LET w == CiphersFrom[Measured[c].nExp][n] IN
    /\ w \in Numerals /\ Len(w) = Measured[c].nDigits
    /\ w[1] = Cipher[(n \div Measured[c].nExp) + 1]
    /\ Reads(w, 10 * Measured[c].nExp, n)

\* One turn of the dividing loop, before the turns that write w.
LEMMA OneCipher ==
  ASSUME NEW e \in Nat, e # 0, NEW n \in Nat, n < 10 * e,
         NEW w \in Numerals, Reads(w, e, n % e),
         NEW v, v = <<Cipher[(n \div e) + 1]>> \o w
  PROVE  /\ v \in Numerals /\ Len(v) = Len(w) + 1
         /\ v[1] = Cipher[(n \div e) + 1]
         /\ Reads(v, 10 * e, n)
<1> DEFINE d == n \div e
<1>1. d \in 0..9 /\ n % e \in Nat /\ n = e * d + (n % e)
  <2>1. /\ n % e \in 0..(e - 1) /\ n = e * (n \div e) + (n % e)
        /\ n < 10 * e => n \div e \in 0..9
    BY DivMod
  <2> QED
    BY <2>1
<1>2. Cipher[d + 1] \in ToSet(Cipher) /\ Digit(Cipher[d + 1]) = d
  <2> HIDE DEF d
  <2> QED
    BY <1>1, DigitIs
<1>3. /\ v \in Numerals /\ Len(v) = Len(w) + 1 /\ v[1] = Cipher[d + 1]
      /\ \A i \in 1..Len(w) : v[i + 1] = w[i]
  <2> HIDE DEF d
  <2> QED
    BY <1>2, Prepended DEF Numerals, d
<1>4. Len(w) \in Nat
  BY DEF Numerals
<1>5. ASSUME NEW text \in Numerals, NEW k \in Nat, Shows(text, k, v)
      PROVE  ReadUpTo(text)[k + Len(v)] = (10 * e) * ReadUpTo(text)[k] + n
  <2> DEFINE r == ReadUpTo(text)[k]
  <2>1. Len(text) \in Nat
    BY DEF Numerals
  <2>2. k + 1 \in 1..Len(text) /\ text[k + 1] = Cipher[d + 1]
    BY <1>3, <1>4, <1>5, <2>1 DEF Shows
  <2>3. r \in Nat
    BY <2>1, <2>2, ReadUpToIs
  <2>4. ReadUpTo(text)[k + 1] = 10 * r + d
    BY <1>2, <2>2, ReadUpToIs
  <2>5. Shows(text, k + 1, w)
    <3>1. k + 1 + Len(w) <= Len(text)
      BY <1>3, <1>4, <1>5 DEF Shows
    <3>2. ASSUME NEW i \in 1..Len(w) PROVE text[k + 1 + i] = w[i]
      <4>1. i + 1 \in 1..Len(v) /\ k + (i + 1) = k + 1 + i
        BY <1>3, <1>4
      <4>2. text[k + (i + 1)] = v[i + 1]
        BY <1>5, <4>1 DEF Shows
      <4> QED
        BY <1>3, <4>1, <4>2
    <3> QED
      BY <3>1, <3>2 DEF Shows
  <2>6. ReadUpTo(text)[k + 1 + Len(w)] = e * (10 * r + d) + (n % e)
    BY <2>4, <2>5 DEF Reads
  <2>7. k + 1 + Len(w) = k + Len(v)
    BY <1>3, <1>4
  <2>8. e * (10 * r + d) = (10 * e) * r + e * d
    <3> HIDE DEF r, d
    <3> QED
      BY <1>1, <2>3
  <2> HIDE DEF r, d
  <2>9. e * (10 * r + d) + (n % e) = (10 * e) * r + n
    <3>1. e * d \in Int /\ (10 * e) * r \in Int
      BY <1>1, <2>3
    <3> QED
      BY <1>1, <2>8, <3>1
  <2> QED
    BY <2>6, <2>7, <2>9 DEF r
<1> QED
  BY <1>3, <1>5 DEF Reads

LEMMA CiphersWritten ==
  ASSUME NEW c \in Nat, 10 * c <= MaxInt
  PROVE  WritesFrom(c)
<1> DEFINE S == {k \in Nat : 10 * k <= MaxInt => WritesFrom(k)}
<1>1. ASSUME NEW k \in Nat, \A j \in Nat : j < k => j \in S, 10 * k <= MaxInt,
             NEW n \in Nat, n < 10 * Measured[k].nExp
      PROVE  LET w == CiphersFrom[Measured[k].nExp][n] IN
             /\ w \in Numerals /\ Len(w) = Measured[k].nDigits
             /\ w[1] = Cipher[(n \div Measured[k].nExp) + 1]
             /\ Reads(w, 10 * Measured[k].nExp, n)
  <2> DEFINE e == Measured[k].nExp
             w == CiphersFrom[e \div 10][n % e]
  <2>1. Fits(k)
    BY <1>1, MeasuredFits
  <2>2. MaxInt \in Nat
    BY IntAssumption
  <2>3. e \in Nat /\ e # 0 /\ Measured[k].nDigits \in Nat
    BY <2>1, <2>2 DEF Fits
  <2>4. n % e \in Nat /\ n % e < e
    <3> HIDE DEF e
    <3>1. n % e \in 0..(e - 1)
      BY <2>3, DivMod
    <3> QED
      BY <2>3, <3>1
  <2>5. CiphersFrom[e][n] = <<Cipher[(n \div e) + 1]>> \o w
    BY <2>3, CiphersFromIs
  <2>6. w \in Numerals /\ Len(w) = Measured[k].nDigits - 1 /\ Reads(w, e, n % e)
    <3>1. CASE k = 0
      <4>1. e = 1 /\ Measured[k].nDigits = 1
        BY <2>1, <3>1 DEF Fits
      <4>2. n % e = 0 /\ e \div 10 = 0
        BY <4>1
      <4>3. w = <<>>
        BY <4>2, CiphersFromIs
      <4>4. Reads(<<>>, 1, 0)
        <5>1. ASSUME NEW text \in Numerals, NEW i \in Nat, Shows(text, i, <<>>)
              PROVE  ReadUpTo(text)[i + Len(<<>>)] = 1 * ReadUpTo(text)[i] + 0
          <6>1. i \in 0..Len(text)
            BY <5>1 DEF Shows
          <6>2. ReadUpTo(text)[i] \in Nat
            BY <6>1, ReadUpToIs
          <6> QED
            BY <6>2
        <5> QED
          BY <5>1 DEF Reads
      <4> QED
        BY <4>1, <4>2, <4>3, <4>4 DEF Numerals
    <3>2. CASE k # 0
      <4> DEFINE j == k \div 10
      <4>1. j \in Nat /\ j < k /\ 10 * j <= MaxInt
        BY <1>1, <2>2, <3>2
      <4>2. WritesFrom(j)
        BY <1>1, <4>1
      <4>3. Fits(j)
        BY <4>1, MeasuredFits
      <4>4. e = 10 * Measured[j].nExp /\ Measured[k].nDigits = Measured[j].nDigits + 1
        BY <2>1, <3>2 DEF Fits
      <4>5. Measured[j].nExp \in Nat /\ Measured[j].nDigits \in Nat
        BY <2>2, <4>3 DEF Fits
      <4>6. e \div 10 = Measured[j].nExp
        BY <4>4, <4>5
      <4> HIDE DEF e, j
      <4>7. n % e < 10 * Measured[j].nExp
        BY <2>4, <4>4
      <4>8. LET u == CiphersFrom[Measured[j].nExp][n % e] IN
            u \in Numerals /\ Len(u) = Measured[j].nDigits
              /\ Reads(u, 10 * Measured[j].nExp, n % e)
        BY <2>4, <4>2, <4>7 DEF WritesFrom
      <4>9. Measured[j].nDigits = Measured[k].nDigits - 1
        BY <4>4, <4>5
      <4> QED
        BY <4>4, <4>6, <4>8, <4>9
    <3> QED
      BY <3>1, <3>2
  <2> HIDE DEF w
  <2>7. /\ CiphersFrom[e][n] \in Numerals /\ Len(CiphersFrom[e][n]) = Len(w) + 1
        /\ CiphersFrom[e][n][1] = Cipher[(n \div e) + 1]
        /\ Reads(CiphersFrom[e][n], 10 * e, n)
    <3> HIDE DEF e
    <3>1. n < 10 * e
      BY <1>1 DEF e
    <3> QED
      BY <2>3, <2>5, <2>6, <3>1, OneCipher
  <2>8. Len(w) + 1 = Measured[k].nDigits
    BY <2>3, <2>6
  <2> QED
    BY <2>7, <2>8
<1>2. S = Nat
  <2>1. S \in SUBSET Nat
    OBVIOUS
  <2>2. ASSUME NEW k \in Nat, \A j \in Nat : j < k => j \in S PROVE k \in S
    <3>1. 10 * k <= MaxInt => WritesFrom(k)
      <4> HIDE DEF S
      <4> QED
        BY <1>1, <2>2 DEF WritesFrom
    <3> QED
      BY <3>1
  <2> HIDE DEF S
  <2> QED
    BY <2>1, <2>2, StrongInduction
<1> QED
  BY <1>2

LEMMA ZerosIs ==
  ASSUME NEW z \in Int
  PROVE  /\ Zeros(z) \in Numerals /\ Len(Zeros(z)) = IF z > 0 THEN z ELSE 0
         /\ \A i \in 1..Len(Zeros(z)) : Zeros(z)[i] = "0"
<1>1. "0" \in ToSet(Cipher)
  BY DigitIs
<1>2. CASE z > 0
  BY <1>1, <1>2 DEF Zeros, Numerals
<1>3. CASE ~(z > 0)
  <2>1. Zeros(z) = <<>>
    BY <1>3 DEF Zeros
  <2> QED
    BY <1>3, <2>1 DEF Numerals
<1> QED
  BY <1>2, <1>3

LEMMA ZerosRead ==
  ASSUME NEW text \in Numerals, NEW z \in 0..Len(text),
         \A i \in 1..z : text[i] = "0"
  PROVE  ReadUpTo(text)[z] = 0
<1> DEFINE S == {n \in Nat : n <= z => ReadUpTo(text)[n] = 0}
<1>1. Len(text) \in Nat /\ z \in Nat
  BY DEF Numerals
<1>2. Digit("0") = 0
  BY DigitIs
<1>3. 0 \in S
  BY ReadUpToIs
<1>4. ASSUME NEW n \in S PROVE n + 1 \in S
  <2>1. ASSUME n + 1 <= z PROVE ReadUpTo(text)[n + 1] = 0
    <3>1. n + 1 \in 1..Len(text) /\ n + 1 \in 1..z
      BY <1>1, <2>1
    <3>2. ReadUpTo(text)[n + 1] = 10 * ReadUpTo(text)[(n + 1) - 1] + Digit("0")
      BY <3>1, ReadUpToIs
    <3>3. ReadUpTo(text)[n] = 0
      BY <1>1, <2>1
    <3> QED
      BY <1>2, <3>2, <3>3
  <2> QED
    BY <2>1
<1>5. S = Nat
  <2>1. S \in SUBSET Nat
    OBVIOUS
  <2> HIDE DEF S
  <2> QED
    BY <1>3, <1>4, <2>1, SetInduction
<1> QED
  BY <1>1, <1>5

LEMMA Joined ==
  ASSUME NEW C, NEW a \in Seq(C), NEW b \in Seq(C)
  PROVE  /\ a \o b \in Seq(C) /\ Len(a \o b) = Len(a) + Len(b)
         /\ \A i \in 1..Len(a) : (a \o b)[i] = a[i]
         /\ \A i \in 1..Len(b) : (a \o b)[Len(a) + i] = b[i]
  OBVIOUS

\* The digits of a positive number, behind the zeros that fill the field.
LEMMA DigitsWritten ==
  ASSUME NEW n \in 1..MaxInt, NEW nMinCiphers \in Nat,
         NEW text, text = Padding(Measure(n).nDigits, nMinCiphers)
                            \o Ciphers(n, Measure(n).nExp)
  PROVE  /\ text \in Numerals
         /\ Len(text) = IF Measure(n).nDigits < nMinCiphers THEN nMinCiphers
                        ELSE Measure(n).nDigits
         /\ Number(text) = n
         /\ Len(text) > nMinCiphers => text[1] # "0"
<1> DEFINE c == n \div 10
           e == Measured[c].nExp
           zeros == Zeros(nMinCiphers - Measured[c].nDigits)
           w == CiphersFrom[e][n]
<1>1. MaxInt \in Nat /\ c \in Nat /\ 10 * c <= MaxInt /\ 10 * c <= n /\ n <= 10 * c + 9
  <2>1. MaxInt \in Nat
    BY IntAssumption
  <2> QED
    BY <2>1
<1>2. Fits(c) /\ WritesFrom(c)
  <2> HIDE DEF c
  <2> QED
    BY <1>1, MeasuredFits, CiphersWritten
<1>3. text = zeros \o w
  BY DEF Padding, Measure, Ciphers
<1> HIDE DEF c
<1>4. e \in Nat /\ e # 0 /\ Measured[c].nDigits \in Nat \ {0}
  BY <1>1, <1>2 DEF Fits
<1>5. e <= n /\ n < 10 * e
  <2>1. CASE c = 0
    BY <1>1, <1>2, <2>1 DEF Fits
  <2>2. CASE c # 0
    BY <1>1, <1>2, <1>4, <2>2, SMTT(60) DEF Fits
  <2> QED
    BY <2>1, <2>2
<1>6. /\ w \in Numerals /\ Len(w) = Measured[c].nDigits
      /\ w[1] = Cipher[(n \div e) + 1] /\ Reads(w, 10 * e, n)
  <2>1. n \in Nat
    BY <1>1
  <2> QED
    BY <1>2, <1>5, <2>1 DEF WritesFrom
<1>7. /\ zeros \in Numerals
      /\ Len(zeros) = IF Measured[c].nDigits < nMinCiphers
                      THEN nMinCiphers - Measured[c].nDigits ELSE 0
      /\ \A i \in 1..Len(zeros) : zeros[i] = "0"
  <2>1. nMinCiphers - Measured[c].nDigits \in Int
    BY <1>4
  <2> QED
    BY <1>4, <2>1, ZerosIs
<1> HIDE DEF zeros, w, e
<1>8. /\ text \in Numerals /\ Len(text) = Len(zeros) + Len(w)
      /\ \A i \in 1..Len(zeros) : text[i] = zeros[i]
      /\ \A i \in 1..Len(w) : text[Len(zeros) + i] = w[i]
  <2>1. zeros \in Seq(ToSet(Cipher)) /\ w \in Seq(ToSet(Cipher))
    BY <1>6, <1>7 DEF Numerals
  <2>2. /\ zeros \o w \in Seq(ToSet(Cipher))
        /\ Len(zeros \o w) = Len(zeros) + Len(w)
        /\ \A i \in 1..Len(zeros) : (zeros \o w)[i] = zeros[i]
        /\ \A i \in 1..Len(w) : (zeros \o w)[Len(zeros) + i] = w[i]
    BY <2>1, Joined
  <2> QED
    BY <1>3, <2>2 DEF Numerals
<1>9. Len(zeros) \in Nat /\ Len(w) \in Nat /\ Len(zeros) \in 0..Len(text)
  <2>1. Len(zeros) \in Nat /\ Len(w) \in Nat
    BY <1>6, <1>7 DEF Numerals
  <2> QED
    BY <1>8, <2>1
<1>10. ReadUpTo(text)[Len(zeros)] = 0
  BY <1>7, <1>8, <1>9, ZerosRead, ZenonT(60)
<1>11. Number(text) = n
  <2>1. Shows(text, Len(zeros), w)
    BY <1>8, <1>9 DEF Shows
  <2>2. ReadUpTo(text)[Len(zeros) + Len(w)] = (10 * e) * ReadUpTo(text)[Len(zeros)] + n
    BY <1>6, <1>8, <1>9, <2>1 DEF Reads
  <2> QED
    BY <1>4, <1>8, <1>10, <2>2 DEF Number
<1>12. ASSUME Len(text) > nMinCiphers PROVE text[1] # "0"
  <2>1. Len(zeros) = 0 /\ Len(w) # 0
    BY <1>4, <1>6, <1>7, <1>8, <1>12
  <2>2. text[1] = w[1]
    BY <1>8, <1>9, <2>1
  <2>3. n \div e \in 0..9 /\ n \div e # 0
    <3>1. n \in Nat
      BY <1>1
    <3> QED
      BY <1>4, <1>5, <3>1, DivMod
  <2>4. Digit(Cipher[(n \div e) + 1]) # 0 /\ Digit("0") = 0
    BY <2>3, DigitIs
  <2> QED
    BY <1>6, <2>2, <2>4
<1> QED
  BY <1>4, <1>6, <1>7, <1>8, <1>11, <1>12 DEF c, Measure

\* What the invariant says of an integer, of any text.
IsNumeralOf(text, n, nMinCiphers) ==
  LET digits == IF n < 0 THEN Tail(text) ELSE text IN
  /\ n < 0 => Head(text) = "-"
  /\ digits \in Numerals
  /\ Len(digits) >= nMinCiphers
  /\ Number(digits) = IF n < 0 THEN -n ELSE n
  /\ Len(digits) > nMinCiphers /\ Len(digits) > 1 => Head(digits) # "0"

LEMMA PositiveWritten ==
  ASSUME NEW n \in Nat, n # 0, NEW k \in Nat
  PROVE  writeInteger(n, k) =
           <<>> \o (Padding(Measure(n).nDigits, k) \o Ciphers(n, Measure(n).nExp))
<1>1. ~(n < 0)
  OBVIOUS
<1> QED
  BY <1>1, Zenon DEF writeInteger

LEMMA IntegerWritten ==
  ASSUME NEW n \in (-MaxInt)..MaxInt, NEW nMinCiphers \in Nat
  PROVE  IsNumeralOf(writeInteger(n, nMinCiphers), n, nMinCiphers)
<1>0. MaxInt \in Nat
  BY IntAssumption
<1>1. CASE n = 0
  <2> DEFINE zeros == Zeros(nMinCiphers - 1)
             text == zeros \o <<"0">>
  <2>1. /\ zeros \in Numerals
        /\ Len(zeros) = IF nMinCiphers > 1 THEN nMinCiphers - 1 ELSE 0
        /\ \A i \in 1..Len(zeros) : zeros[i] = "0"
    <3>1. nMinCiphers - 1 \in Int
      OBVIOUS
    <3> QED
      BY <3>1, ZerosIs
  <2> HIDE DEF zeros
  <2>2. <<"0">> \in Numerals /\ Len(<<"0">>) = 1 /\ <<"0">>[1] = "0"
    BY DigitIs DEF Numerals
  <2>3. /\ text \in Numerals /\ Len(text) = Len(zeros) + 1
        /\ \A i \in 1..Len(zeros) : text[i] = zeros[i]
        /\ \A i \in 1..1 : text[Len(zeros) + i] = "0"
    <3>1. zeros \in Seq(ToSet(Cipher)) /\ <<"0">> \in Seq(ToSet(Cipher))
      BY <2>1, <2>2 DEF Numerals
    <3> QED
      BY <2>2, <3>1, Joined DEF Numerals
  <2> HIDE DEF text
  <2>4. Len(zeros) \in Nat
    BY <2>1 DEF Numerals
  <2>5. \A i \in 1..Len(text) : text[i] = "0"
    <3> TAKE i \in 1..Len(text)
    <3>1. CASE i = Len(zeros) + 1
      BY <2>3, <2>4, <3>1
    <3>2. CASE i \in 1..Len(zeros)
      BY <2>1, <2>3, <3>2
    <3> QED
      BY <2>3, <2>4, <3>1, <3>2
  <2>6. Number(text) = 0
    <3>1. Len(text) \in 0..Len(text)
      BY <2>3, <2>4
    <3> QED
      BY <2>3, <2>5, <3>1, ZerosRead DEF Number
  <2>7. writeInteger(n, nMinCiphers) = text
    BY <1>1 DEF writeInteger, text, zeros
  <2>8. Len(text) >= nMinCiphers /\ ~(Len(text) > nMinCiphers /\ Len(text) > 1)
    BY <2>1, <2>3
  <2> QED
    BY <1>1, <2>3, <2>6, <2>7, <2>8 DEF IsNumeralOf
<1>2. CASE n > 0
  <2> DEFINE text == Padding(Measure(n).nDigits, nMinCiphers) \o Ciphers(n, Measure(n).nExp)
  <2>1. n \in 1..MaxInt
    BY <1>0, <1>2
  <2>2. writeInteger(n, nMinCiphers) = <<>> \o text
    <3>1. n \in Nat /\ n # 0
      BY <1>0, <1>2
    <3> QED
      BY <3>1, PositiveWritten
  <2>3. /\ text \in Numerals /\ Number(text) = n
        /\ Len(text) = IF Measure(n).nDigits < nMinCiphers THEN nMinCiphers
                       ELSE Measure(n).nDigits
        /\ Len(text) > nMinCiphers => text[1] # "0"
    BY <2>1, DigitsWritten
  <2>4. Len(text) \in Nat
    BY <2>3 DEF Numerals
  <2>5. Len(text) >= nMinCiphers
    <3>1. Measure(n).nDigits \in Int
      BY <2>1, <1>0, MeasuredIs DEF Measure
    <3> HIDE DEF text
    <3> QED
      BY <2>3, <3>1
  <2> HIDE DEF text
  <2>6. <<>> \o text = text /\ Head(text) = text[1]
    BY <2>3 DEF Numerals
  <2> QED
    BY <1>2, <2>2, <2>3, <2>4, <2>5, <2>6 DEF IsNumeralOf
<1>3. CASE n < 0
  <2>1. PICK k \in 1..MaxInt : k = -n
    BY <1>0, <1>3
  <2> DEFINE text == Padding(Measure(k).nDigits, nMinCiphers) \o Ciphers(k, Measure(k).nExp)
  <2>2. writeInteger(n, nMinCiphers) = <<"-">> \o text
    <3>1. AsInt(-n) = k
      BY <1>0, <2>1, AsIntIs
    <3> QED
      BY <1>3, <3>1 DEF writeInteger
  <2>3. /\ text \in Numerals /\ Number(text) = k
        /\ Len(text) = IF Measure(k).nDigits < nMinCiphers THEN nMinCiphers
                       ELSE Measure(k).nDigits
        /\ Len(text) > nMinCiphers => text[1] # "0"
    BY <2>1, DigitsWritten
  <2>4. Len(text) \in Nat
    BY <2>3 DEF Numerals
  <2>5. Len(text) >= nMinCiphers
    <3>1. Measure(k).nDigits \in Int
      BY <2>1, <1>0, MeasuredIs DEF Measure
    <3> HIDE DEF text
    <3> QED
      BY <2>3, <3>1
  <2> HIDE DEF text
  <2>6. Head(<<"-">> \o text) = "-" /\ Tail(<<"-">> \o text) = text /\ Head(text) = text[1]
    BY <2>3 DEF Numerals
  <2> QED
    BY <1>3, <2>1, <2>2, <2>3, <2>4, <2>5, <2>6 DEF IsNumeralOf
<1> QED
  BY <1>0, <1>1, <1>2, <1>3

-----------------------------------------------------------------------------
(* The fields of a stamp                                                   *)

\* A field of a stamp has its width and reads as its number.
IsField(text, n, width) ==
  text \in Numerals /\ Len(text) = width /\ Number(text) = n

LEMMA FieldIs ==
  ASSUME NEW width \in Nat, width # 0, NEW n \in 0..MaxInt,
         n # 0 => Measure(n).nDigits <= width
  PROVE  IsField(writeInteger(n, width), n, width)
<1>0. MaxInt \in Nat
  BY IntAssumption
<1>1. CASE n = 0
  <2> DEFINE zeros == Zeros(width - 1)
  <2>1. writeInteger(n, width) = zeros \o <<"0">>
    BY <1>1 DEF writeInteger
  <2>2. zeros \in Numerals /\ Len(zeros) = width - 1
    BY ZerosIs
  <2>3. Len(zeros \o <<"0">>) = width
    <3> HIDE DEF zeros
    <3>1. Len(<<"0">>) = 1 /\ <<"0">> \in Numerals
      BY DigitIs DEF Numerals
    <3> QED
      BY <2>2, <3>1, Joined DEF Numerals
  <2>4. IsNumeralOf(writeInteger(n, width), n, width)
    <3>1. n \in (-MaxInt)..MaxInt
      BY <1>0
    <3> QED
      BY <3>1, IntegerWritten
  <2> QED
    BY <1>1, <2>1, <2>3, <2>4 DEF IsField, IsNumeralOf
<1>2. CASE n # 0
  <2> DEFINE text == Padding(Measure(n).nDigits, width) \o Ciphers(n, Measure(n).nExp)
  <2>1. n \in Nat /\ n \in 1..MaxInt
    BY <1>0, <1>2
  <2>2. writeInteger(n, width) = <<>> \o text
    BY <1>2, <2>1, PositiveWritten
  <2>3. /\ text \in Numerals /\ Number(text) = n
        /\ Len(text) = IF Measure(n).nDigits < width THEN width ELSE Measure(n).nDigits
    BY <2>1, DigitsWritten
  <2>4. Measure(n).nDigits <= width /\ Measure(n).nDigits \in Nat
    <3>1. n \div 10 \in Nat
      BY <2>1
    <3> QED
      BY <1>2, <3>1, MeasuredIs DEF Measure
  <2> HIDE DEF text
  <2>5. <<>> \o text = text /\ Len(text) = width
    BY <2>3, <2>4 DEF Numerals
  <2> QED
    BY <2>2, <2>3, <2>5 DEF IsField
<1> QED
  BY <1>1, <1>2

LEMMA DigitsAtMost ==
  /\ \A c \in Nat : c <= 9 => Measured[c].nDigits <= 2
  /\ \A c \in Nat : c <= 99 => Measured[c].nDigits <= 3
  /\ \A c \in Nat : c <= 999 => Measured[c].nDigits <= 4
<1>1. MaxInt \in Nat /\ 9999 <= MaxInt
  BY IntAssumption, SMT
<1>2. ASSUME NEW c \in Nat, c <= 999 PROVE Fits(c)
  <2>1. 10 * c <= MaxInt
    BY <1>1, <1>2
  <2> QED
    BY <2>1, MeasuredFits
<1>3. ASSUME NEW c \in Nat, c <= 9 PROVE Measured[c].nDigits <= 2
  <2>1. Fits(c) /\ Fits(0)
    BY <1>2, <1>3
  <2>2. c # 0 => c \div 10 = 0
    BY <1>3
  <2> QED
    BY <2>1, <2>2 DEF Fits
<1>4. ASSUME NEW c \in Nat, c <= 99 PROVE Measured[c].nDigits <= 3
  <2>1. Fits(c)
    BY <1>2, <1>4
  <2>2. c \div 10 \in Nat /\ c \div 10 <= 9
    BY <1>4
  <2>3. Measured[c \div 10].nDigits <= 2 /\ Measured[c \div 10].nDigits \in Nat
    BY <1>3, <2>2, MeasuredIs
  <2> QED
    BY <2>1, <2>3 DEF Fits
<1>5. ASSUME NEW c \in Nat, c <= 999 PROVE Measured[c].nDigits <= 4
  <2>1. Fits(c)
    BY <1>2, <1>5
  <2>2. c \div 10 \in Nat /\ c \div 10 <= 99
    BY <1>5
  <2>3. Measured[c \div 10].nDigits <= 3 /\ Measured[c \div 10].nDigits \in Nat
    BY <1>4, <2>2, MeasuredIs
  <2> QED
    BY <2>1, <2>3 DEF Fits
<1> QED
  BY <1>3, <1>4, <1>5

LEMMA Field2 ==
  ASSUME NEW n \in Nat, n <= 99
  PROVE  IsField(writeInteger(n, 2), n, 2)
<1>1. n \in 0..MaxInt
  BY IntAssumption, SMT
<1>2. n \div 10 \in Nat /\ n \div 10 <= 9
  BY SMT
<1>3. Measure(n).nDigits <= 2
  BY <1>2, DigitsAtMost DEF Measure
<1> QED
  BY <1>1, <1>3, FieldIs

LEMMA Field3 ==
  ASSUME NEW n \in Nat, n <= 999
  PROVE  IsField(writeInteger(n, 3), n, 3)
<1>1. n \in 0..MaxInt
  BY IntAssumption, SMT
<1>2. n \div 10 \in Nat /\ n \div 10 <= 99
  BY SMT
<1>3. Measure(n).nDigits <= 3
  BY <1>2, DigitsAtMost DEF Measure
<1> QED
  BY <1>1, <1>3, FieldIs

LEMMA Field4 ==
  ASSUME NEW n \in Nat, n <= 9999
  PROVE  IsField(writeInteger(n, 4), n, 4)
<1>1. n \in 0..MaxInt
  BY IntAssumption, SMT
<1>2. n \div 10 \in Nat /\ n \div 10 <= 999
  BY SMT
<1>3. Measure(n).nDigits <= 4
  BY <1>2, DigitsAtMost DEF Measure
<1> QED
  BY <1>1, <1>3, FieldIs

-----------------------------------------------------------------------------
(* The calendar                                                            *)

\* The year of its 400 a day is in, and the day of that year; the last day
\* of a year is the leap day.
LEMMA YearOfEra ==
  ASSUME NEW doe \in Int, 0 <= doe, doe <= 146096,
         NEW yoe \in Int,
         yoe = (doe - (doe \div 1460) + (doe \div 36524) - (doe \div 146096)) \div 365,
         NEW doy \in Int,
         doy = doe - ((365 * yoe) + (yoe \div 4) - (yoe \div 100))
  PROVE  /\ 0 <= yoe /\ yoe <= 399 /\ 0 <= doy /\ doy <= 365
         /\ doy = 365 => /\ (yoe + 1) % 4 = 0
                         /\ (yoe + 1) % 100 # 0 \/ (yoe + 1) % 400 = 0
  BY SMT

\* The month, counted from March, and the day of the month.
LEMMA MonthOfYear ==
  ASSUME NEW doy \in Int, 0 <= doy, doy <= 365,
         NEW mp \in Int, mp = (5 * doy + 2) \div 153,
         NEW d \in Int, d = doy - ((153 * mp + 2) \div 5) + 1
  PROVE  /\ 0 <= mp /\ mp <= 11 /\ 1 <= d /\ d <= 31
         /\ mp \in {1, 3, 6, 8} => d <= 30
         /\ mp = 11 => d <= 29 /\ (d = 29 => doy = 365)
  BY SMT

\* The leap days before the year after Y.
LEMMA LeapsIs ==
  ASSUME NEW era \in Int, NEW yoe \in Int, 0 <= yoe, yoe <= 399,
         NEW Y \in Int, Y = yoe + 400 * era
  PROVE  /\ LeapsBefore(Y + 1) = 97 * era + (yoe \div 4) - (yoe \div 100)
         /\ LeapsBefore(Y) + (IF Leap(Y) THEN 1 ELSE 0) = LeapsBefore(Y + 1)
  BY SMT DEF LeapsBefore, Leap

LEMMA MonthsBefore ==
  ASSUME NEW mp \in Int, 0 <= mp, mp <= 11
  PROVE  /\ mp < 10 => DaysBefore[mp + 3] = 59 + ((153 * mp + 2) \div 5)
         /\ ~(mp < 10) => DaysBefore[mp - 9] = ((153 * mp + 2) \div 5) - 306
<1>1. mp \in {0, 1, 2, 3, 4, 5, 6, 7, 8, 9, 10, 11}
  BY SMT
<1> QED
  BY <1>1, SMT DEF DaysBefore

\* The days of a month, and the dates there are.
DaysIn(year, month) ==
  IF month = 2 THEN (IF Leap(year) THEN 29 ELSE 28)
  ELSE IF month \in {4, 6, 9, 11} THEN 30 ELSE 31

IsDate(year, month, day) ==
  year \in Int /\ month \in 1..12 /\ day \in Int /\ 1 <= day /\ day <= DaysIn(year, month)

\* The days of the years 0 to 9999.
InCalendar(day) == day \in Int /\ -719528 <= day /\ day <= 2932896

LEMMA DateNamesDay ==
  ASSUME NEW day, InCalendar(day)
  PROVE  LET date == year_month_day(day) IN
         /\ date.year \in Nat /\ date.year <= 9999
         /\ date.month \in 1..12 /\ date.day \in 1..31
         /\ IsDate(date.year, date.month, date.day)
         /\ DayNumber(date.year, date.month, date.day) = day
<1> DEFINE z == day + 719468
           doe == z % 146097
           era == z \div 146097
           yoe == (doe - (doe \div 1460) + (doe \div 36524) - (doe \div 146096)) \div 365
           doy == doe - ((365 * yoe) + (yoe \div 4) - (yoe \div 100))
           mp == (5 * doy + 2) \div 153
           d == doy - ((153 * mp + 2) \div 5) + 1
           month == IF mp < 10 THEN mp + 3 ELSE mp - 9
           Y == yoe + 400 * era
           year == Y + (IF month <= 2 THEN 1 ELSE 0)
<1>1. year_month_day(day) = [year |-> year, month |-> month, day |-> d]
  BY SMT DEF year_month_day
<1>2. /\ z = 146097 * era + doe /\ doe \in Int /\ era \in Int
      /\ 0 <= doe /\ doe <= 146096 /\ -1 <= era /\ era <= 24
  BY SMT DEF InCalendar
<1> HIDE DEF doe, era
<1>3. yoe \in Int /\ doy \in Int
  BY <1>2, SMT
<1>4. /\ 0 <= yoe /\ yoe <= 399 /\ 0 <= doy /\ doy <= 365
      /\ doy = 365 => /\ (yoe + 1) % 4 = 0
                      /\ (yoe + 1) % 100 # 0 \/ (yoe + 1) % 400 = 0
  <2> HIDE DEF yoe, doy
  <2> QED
    BY <1>2, <1>3, YearOfEra, SMT DEF yoe, doy
<1>5. doe = doy + 365 * yoe + (yoe \div 4) - (yoe \div 100)
  <2> HIDE DEF yoe
  <2> QED
    BY <1>2, <1>3, SMT DEF doy
<1> HIDE DEF yoe, doy
<1>6. mp \in Int /\ d \in Int
  BY <1>3, SMT
<1>7. /\ 0 <= mp /\ mp <= 11 /\ 1 <= d /\ d <= 31
      /\ mp \in {1, 3, 6, 8} => d <= 30
      /\ mp = 11 => d <= 29 /\ (d = 29 => doy = 365)
  BY <1>3, <1>4, <1>6, MonthOfYear, SMT
<1>8. doy = d - 1 + ((153 * mp + 2) \div 5)
  BY <1>3, <1>6, SMT
<1> HIDE DEF mp, d
<1>9. /\ LeapsBefore(Y + 1) = 97 * era + (yoe \div 4) - (yoe \div 100)
      /\ LeapsBefore(Y) + (IF Leap(Y) THEN 1 ELSE 0) = LeapsBefore(Y + 1)
  BY <1>2, <1>3, <1>4, LeapsIs, SMT
<1>10. /\ mp < 10 => DaysBefore[mp + 3] = 59 + ((153 * mp + 2) \div 5)
       /\ ~(mp < 10) => DaysBefore[mp - 9] = ((153 * mp + 2) \div 5) - 306
  BY <1>6, <1>7, MonthsBefore
<1>11. LeapsBefore(1970) = 477
  BY SMT DEF LeapsBefore
<1>12. /\ Y \in Int /\ LeapsBefore(Y) \in Int /\ LeapsBefore(Y + 1) \in Int
       /\ yoe \div 4 \in Int /\ yoe \div 100 \in Int /\ (153 * mp + 2) \div 5 \in Int
  BY <1>2, <1>3, <1>6, SMT DEF LeapsBefore
<1>13. CASE mp < 10
  <2>1. month = mp + 3 /\ month > 2 /\ year = Y
    BY <1>6, <1>7, <1>12, <1>13, SMT
  <2>2. DayNumber(year, month, d) = day
    BY <1>2, <1>3, <1>5, <1>6, <1>8, <1>9, <1>10, <1>11, <1>12, <1>13, <2>1, SMT DEF DayNumber, InCalendar
  <2>3. doy <= 305
    BY <1>3, <1>13, SMT DEF mp
  <2>4. 0 <= year /\ year <= 9999
    BY <1>2, <1>3, <1>4, <1>5, <2>1, <2>3, SMT DEF InCalendar
  <2>5. d <= DaysIn(year, month)
    <3> HIDE DEF year
    <3> QED
      BY <1>6, <1>7, <1>13, <2>1, SMT DEF DaysIn
  <2>6. year \in Int /\ month \in 1..12 /\ d \in 1..31
    BY <1>6, <1>7, <1>12, <1>13, <2>1, SMT
  <2>7. IsDate(year, month, d)
    BY <1>7, <2>5, <2>6, SMT DEF IsDate
  <2> HIDE DEF year, month
  <2> QED
    BY <1>1, <2>2, <2>4, <2>6, <2>7
<1>14. CASE ~(mp < 10)
  <2>1. month = mp - 9 /\ ~(month > 2) /\ year = Y + 1
    BY <1>6, <1>7, <1>12, <1>14, SMT
  <2>2. DayNumber(year, month, d) = day
    BY <1>2, <1>3, <1>5, <1>6, <1>8, <1>9, <1>10, <1>11, <1>12, <1>14, <2>1, SMT DEF DayNumber, InCalendar
  <2>3. doy >= 306
    BY <1>6, <1>7, <1>8, <1>14, SMT
  <2>4. 0 <= year /\ year <= 9999
    BY <1>2, <1>3, <1>4, <1>5, <2>1, <2>3, SMT DEF InCalendar
  <2>5. month = 2 => mp = 11
    BY <1>6, <2>1, SMT
  <2>6. d = 29 /\ mp = 11 => Leap(Y + 1)
    <3> SUFFICES ASSUME d = 29, mp = 11 PROVE Leap(Y + 1)
      OBVIOUS
    <3>1. /\ (yoe + 1) % 4 = 0
          /\ (yoe + 1) % 100 # 0 \/ (yoe + 1) % 400 = 0
      BY <1>4, <1>7
    <3> QED
      BY <1>2, <1>3, <3>1, SMT DEF Leap
  <2>7. d <= DaysIn(year, month)
    <3>1. month \in {1, 2}
      BY <1>6, <1>7, <1>14, <2>1, SMT
    <3> HIDE DEF year, month, Y
    <3> QED
      BY <1>6, <1>7, <2>1, <2>5, <2>6, <3>1 DEF DaysIn
  <2>8. year \in Int /\ month \in 1..12 /\ d \in 1..31
    BY <1>6, <1>7, <1>12, <1>14, <2>1, SMT
  <2>9. IsDate(year, month, d)
    BY <1>7, <2>7, <2>8, SMT DEF IsDate
  <2> HIDE DEF year, month
  <2> QED
    BY <1>1, <2>2, <2>4, <2>8, <2>9
<1> QED
  BY <1>13, <1>14

\* The days of the year before a date.
DayOfYear(year, month, day) ==
  DaysBefore[month] + (IF month > 2 /\ Leap(year) THEN 1 ELSE 0) + day - 1

\* The days of a year, and that they follow the dates.
LEMMA InYear ==
  ASSUME NEW year, NEW month, NEW day, IsDate(year, month, day)
  PROVE  /\ DayOfYear(year, month, day) \in Int
         /\ 0 <= DayOfYear(year, month, day)
         /\ DayOfYear(year, month, day) <= 364 + (IF Leap(year) THEN 1 ELSE 0)
<1>1. month \in {1, 2, 3, 4, 5, 6, 7, 8, 9, 10, 11, 12}
  BY DEF IsDate
<1>2. Leap(year) \in BOOLEAN
  BY DEF Leap
<1> HIDE DEF Leap
<1> QED
  BY <1>1, <1>2, SMT DEF IsDate, DayOfYear, DaysBefore, DaysIn

LEMMA MonthsGrow ==
  ASSUME NEW year, NEW month, NEW day, IsDate(year, month, day),
         NEW month2, NEW day2, IsDate(year, month2, day2), month < month2
  PROVE  DayOfYear(year, month, day) < DayOfYear(year, month2, day2)
<1>1. /\ month \in {1, 2, 3, 4, 5, 6, 7, 8, 9, 10, 11, 12}
      /\ month2 \in {1, 2, 3, 4, 5, 6, 7, 8, 9, 10, 11, 12}
  BY DEF IsDate
<1> QED
  BY <1>1, SMT DEF IsDate, DayOfYear, DaysBefore, DaysIn

LEMMA LeapYear ==
  ASSUME NEW year \in Int
  PROVE  LeapsBefore(year + 1) = LeapsBefore(year) + (IF Leap(year) THEN 1 ELSE 0)
  BY SMT DEF LeapsBefore, Leap

LEMMA YearsGrow ==
  ASSUME NEW year \in Int, NEW year2 \in Int, year < year2
  PROVE  365 * year2 + LeapsBefore(year2) >= 365 * (year + 1) + LeapsBefore(year + 1)
  BY SMT DEF LeapsBefore

LEMMA DayNumberIs ==
  ASSUME NEW year, NEW month, NEW day, IsDate(year, month, day)
  PROVE  /\ year \in Int /\ DaysBefore[month] \in Int /\ day \in Int
         /\ LeapsBefore(year) \in Int /\ LeapsBefore(1970) \in Int
         /\ DayNumber(year, month, day)
              = 365 * (year - 1970) + LeapsBefore(year) - LeapsBefore(1970)
                  + DayOfYear(year, month, day)
<1>1. DaysBefore[month] \in Int
  BY SMT DEF DaysBefore, IsDate
<1>2. year \in Int /\ day \in Int
  BY DEF IsDate
<1>3. LeapsBefore(year) \in Int /\ LeapsBefore(1970) \in Int
  BY <1>2, SMT DEF LeapsBefore
<1>4. Leap(year) \in BOOLEAN
  BY DEF Leap
<1> QED
  BY <1>1, <1>2, <1>3, <1>4, SMT DEF DayNumber, DayOfYear

\* The later date has the later day.
LEMMA DaysGrow ==
  ASSUME NEW year, NEW month, NEW day, IsDate(year, month, day),
         NEW year2, NEW month2, NEW day2, IsDate(year2, month2, day2),
         \/ year < year2
         \/ year = year2 /\ month < month2
         \/ year = year2 /\ month = month2 /\ day < day2
  PROVE  DayNumber(year, month, day) < DayNumber(year2, month2, day2)
<1> DEFINE N == DayOfYear(year, month, day)
           N2 == DayOfYear(year2, month2, day2)
<1>1. /\ year \in Int /\ LeapsBefore(year) \in Int /\ LeapsBefore(1970) \in Int
      /\ DayNumber(year, month, day)
           = 365 * (year - 1970) + LeapsBefore(year) - LeapsBefore(1970) + N
  BY DayNumberIs
<1>2. /\ N \in Int /\ 0 <= N /\ N <= 364 + (IF Leap(year) THEN 1 ELSE 0)
      /\ N2 \in Int /\ 0 <= N2
  BY InYear
<1>3. /\ year2 \in Int /\ LeapsBefore(year2) \in Int
      /\ DayNumber(year2, month2, day2)
           = 365 * (year2 - 1970) + LeapsBefore(year2) - LeapsBefore(1970) + N2
  BY DayNumberIs
<1>4. CASE year < year2
  <2>1. LeapsBefore(year + 1) = LeapsBefore(year) + (IF Leap(year) THEN 1 ELSE 0)
    BY <1>1, LeapYear
  <2>2. 365 * year2 + LeapsBefore(year2) >= 365 * (year + 1) + LeapsBefore(year + 1)
    BY <1>1, <1>3, <1>4, YearsGrow
  <2> HIDE DEF N, N2
  <2> QED
    BY <1>1, <1>2, <1>3, <2>1, <2>2, SMT
<1>5. CASE year = year2 /\ month < month2
  <2>1. N < N2
    BY <1>5, MonthsGrow
  <2> HIDE DEF N, N2
  <2> QED
    BY <1>1, <1>2, <1>3, <1>5, <2>1, SMT
<1>6. CASE year = year2 /\ month = month2 /\ day < day2
  <2>1. N < N2
    <3>1. DaysBefore[month] \in Int /\ day \in Int /\ day2 \in Int
      BY DayNumberIs
    <3> QED
      BY <1>6, <3>1, SMT DEF DayOfYear
  <2> HIDE DEF N, N2
  <2> QED
    BY <1>1, <1>2, <1>3, <1>6, <2>1, SMT
<1> QED
  BY <1>4, <1>5, <1>6

-----------------------------------------------------------------------------
(* The pieces of a stamp                                                   *)

Signs == {"-", " ", ":", ".", "+", "Z"}
Text == Seq(ToSet(Cipher) \cup Signs)

LEMMA PiecesAreText ==
  /\ \A w \in Numerals : w \in Text
  /\ \A c \in Signs : <<c>> \in Text /\ Len(<<c>>) = 1 /\ <<c>>[1] = c
<1>1. ASSUME NEW w \in Numerals PROVE w \in Text
  <2> DEFINE C == ToSet(Cipher)
  <2>1. w \in Seq(C)
    BY DEF Numerals
  <2> HIDE DEF C
  <2>2. w \in Seq(C \cup Signs)
    BY <2>1
  <2> QED
    BY <2>2 DEF Text, C
<1>2. ASSUME NEW c \in Signs PROVE <<c>> \in Text /\ Len(<<c>>) = 1 /\ <<c>>[1] = c
  BY DEF Text
<1> QED
  BY <1>1, <1>2

\* What a text shows it shows with anything behind it or in front of it.
LEMMA Extended ==
  ASSUME NEW a \in Text, NEW b \in Text
  PROVE  /\ a \o b \in Text /\ Len(a \o b) = Len(a) + Len(b)
         /\ Shows(a \o b, Len(a), b)
         /\ \A k \in Nat, w \in Text : Shows(a, k, w) => Shows(a \o b, k, w)
         /\ \A k \in Nat, w \in Text : Shows(b, k, w) => Shows(a \o b, Len(a) + k, w)
<1>1. /\ a \o b \in Text /\ Len(a \o b) = Len(a) + Len(b)
      /\ \A i \in 1..Len(a) : (a \o b)[i] = a[i]
      /\ \A i \in 1..Len(b) : (a \o b)[Len(a) + i] = b[i]
  BY Joined DEF Text
<1>2. Len(a) \in Nat /\ Len(b) \in Nat
  BY DEF Text
<1> DEFINE t == a \o b
<1> HIDE DEF t
<1>3. Shows(t, Len(a), b)
  BY <1>1, <1>2 DEF Shows, t
<1>4. ASSUME NEW k \in Nat, NEW w \in Text, Shows(a, k, w) PROVE Shows(t, k, w)
  <2>1. Len(w) \in Nat
    BY DEF Text
  <2>2. \A i \in 1..Len(w) : k + i \in 1..Len(a)
    BY <1>2, <1>4, <2>1 DEF Shows
  <2> QED
    BY <1>1, <1>2, <1>4, <2>1, <2>2 DEF Shows, t
<1>5. ASSUME NEW k \in Nat, NEW w \in Text, Shows(b, k, w) PROVE Shows(t, Len(a) + k, w)
  <2>1. Len(w) \in Nat
    BY DEF Text
  <2>2. \A i \in 1..Len(w) : k + i \in 1..Len(b) /\ (Len(a) + k) + i = Len(a) + (k + i)
    BY <1>2, <1>5, <2>1 DEF Shows
  <2>3. Len(a) + k + Len(w) <= Len(t)
    BY <1>1, <1>2, <1>5, <2>1 DEF Shows, t
  <2>4. ASSUME NEW i \in 1..Len(w) PROVE t[(Len(a) + k) + i] = w[i]
    BY <1>1, <1>5, <2>2 DEF Shows, t
  <2> QED
    BY <2>3, <2>4 DEF Shows
<1> QED
  BY <1>1, <1>3, <1>4, <1>5 DEF t

LEMMA SameText ==
  ASSUME NEW s \in Text, NEW w \in Text, Len(s) = Len(w), \A i \in 1..Len(w) : s[i] = w[i]
  PROVE  s = w
<1>1. s = [i \in 1..Len(w) |-> s[i]] /\ w = [i \in 1..Len(w) |-> w[i]]
  BY DEF Text
<1>2. [i \in 1..Len(w) |-> s[i]] = [i \in 1..Len(w) |-> w[i]]
  OBVIOUS
<1> QED
  BY <1>1, <1>2

LEMMA ShownPart ==
  ASSUME NEW text \in Text, NEW k \in Nat, NEW w \in Text, Shows(text, k, w)
  PROVE  SubSeq(text, k + 1, k + Len(w)) = w
<1>1. Len(text) \in Nat /\ Len(w) \in Nat /\ k + Len(w) <= Len(text)
  BY DEF Text, Shows
<1> DEFINE s == SubSeq(text, k + 1, k + Len(w))
<1>2. /\ s \in Text /\ Len(s) = Len(w)
      /\ \A i \in 1..Len(w) : s[i] = text[k + i]
  BY <1>1 DEF Text
<1> HIDE DEF s
<1>3. \A i \in 1..Len(w) : s[i] = w[i]
  BY <1>2 DEF Shows
<1>4. s = w
  BY <1>2, <1>3, SameText
<1> QED
  BY <1>4 DEF s

LEMMA ThreeFields ==
  ASSUME NEW n \in Nat, NEW f1 \in Numerals, NEW f2 \in Numerals, NEW f3 \in Numerals,
         Len(f1) = n, Len(f2) = 2, Len(f3) = 2,
         NEW c1 \in Signs, NEW c2 \in Signs, NEW c3 \in Signs
  PROVE  LET t == f1 \o <<c1>> \o f2 \o <<c2>> \o f3 \o <<c3>> IN
         /\ t \in Text /\ Len(t) = n + 7
         /\ Shows(t, 0, f1) /\ Shows(t, n, <<c1>>) /\ Shows(t, n + 1, f2)
         /\ Shows(t, n + 3, <<c2>>) /\ Shows(t, n + 4, f3) /\ Shows(t, n + 6, <<c3>>)
<1> DEFINE a1 == f1 \o <<c1>>
           a2 == a1 \o f2
           a3 == a2 \o <<c2>>
           a4 == a3 \o f3
           a5 == a4 \o <<c3>>
<1>1. /\ f1 \in Text /\ f2 \in Text /\ f3 \in Text
      /\ <<c1>> \in Text /\ <<c2>> \in Text /\ <<c3>> \in Text
      /\ Len(<<c1>>) = 1 /\ Len(<<c2>>) = 1 /\ Len(<<c3>>) = 1
  BY PiecesAreText
<1>2. Shows(f1, 0, f1)
  BY <1>1 DEF Shows, Text
<1> HIDE DEF a5
<1>4. a1 \in Text /\ Len(a1) = n + 1 /\ Shows(a1, 0, f1) /\ Shows(a1, n, <<c1>>)
  BY <1>1, <1>2, Extended
<1> HIDE DEF a1
<1>5. /\ a2 \in Text /\ Len(a2) = n + 3 /\ Shows(a2, n + 1, f2)
      /\ Shows(a2, 0, f1) /\ Shows(a2, n, <<c1>>)
  <2>1. /\ a2 \in Text /\ Len(a2) = Len(a1) + Len(f2) /\ Shows(a2, Len(a1), f2)
        /\ \A k \in Nat, w \in Text : Shows(a1, k, w) => Shows(a2, k, w)
    BY <1>1, <1>4, Extended
  <2> HIDE DEF a2
  <2> QED
    BY <1>1, <1>4, <2>1
<1> HIDE DEF a2
<1>6. /\ a3 \in Text /\ Len(a3) = n + 4 /\ Shows(a3, n + 3, <<c2>>)
      /\ Shows(a3, 0, f1) /\ Shows(a3, n, <<c1>>) /\ Shows(a3, n + 1, f2)
  <2>1. /\ a3 \in Text /\ Len(a3) = Len(a2) + Len(<<c2>>) /\ Shows(a3, Len(a2), <<c2>>)
        /\ \A k \in Nat, w \in Text : Shows(a2, k, w) => Shows(a3, k, w)
    BY <1>1, <1>5, Extended
  <2> HIDE DEF a3
  <2> QED
    BY <1>1, <1>5, <2>1
<1> HIDE DEF a3
<1>7. /\ a4 \in Text /\ Len(a4) = n + 6 /\ Shows(a4, n + 4, f3)
      /\ Shows(a4, 0, f1) /\ Shows(a4, n, <<c1>>) /\ Shows(a4, n + 1, f2)
      /\ Shows(a4, n + 3, <<c2>>)
  <2>1. /\ a4 \in Text /\ Len(a4) = Len(a3) + Len(f3) /\ Shows(a4, Len(a3), f3)
        /\ \A k \in Nat, w \in Text : Shows(a3, k, w) => Shows(a4, k, w)
    BY <1>1, <1>6, Extended
  <2> HIDE DEF a4
  <2> QED
    BY <1>1, <1>6, <2>1
<1> HIDE DEF a4
<1>8. /\ a5 \in Text /\ Len(a5) = n + 7 /\ Shows(a5, n + 6, <<c3>>)
      /\ Shows(a5, 0, f1) /\ Shows(a5, n, <<c1>>) /\ Shows(a5, n + 1, f2)
      /\ Shows(a5, n + 3, <<c2>>) /\ Shows(a5, n + 4, f3)
  <2>1. /\ a5 \in Text /\ Len(a5) = Len(a4) + Len(<<c3>>) /\ Shows(a5, Len(a4), <<c3>>)
        /\ \A k \in Nat, w \in Text : Shows(a4, k, w) => Shows(a5, k, w)
    BY <1>1, <1>7, Extended DEF a5
  <2> HIDE DEF a5
  <2> QED
    BY <1>1, <1>7, <2>1
<1> QED
  BY <1>8 DEF a1, a2, a3, a4, a5

\* What a text shows behind position k is the number n in a field of its own.
ShowsField(text, k, n, width) ==
  \E f \in Numerals : IsField(f, n, width) /\ Shows(text, k, f)

ShowsDate(t, k, date) ==
  /\ ShowsField(t, k, date.year, 4) /\ Shows(t, k + 4, <<"-">>)
  /\ ShowsField(t, k + 5, date.month, 2) /\ Shows(t, k + 7, <<"-">>)
  /\ ShowsField(t, k + 8, date.day, 2) /\ Shows(t, k + 10, <<" ">>)

Hour(milli) == milli \div 3600000
Minute(milli) == (milli \div 60000) % 60
Second(milli) == (milli \div 1000) % 60
Subsecond(milli) == milli % 1000

ShowsInstant(t, k, milli) ==
  /\ ShowsField(t, k, Hour(milli), 2) /\ Shows(t, k + 2, <<":">>)
  /\ ShowsField(t, k + 3, Minute(milli), 2) /\ Shows(t, k + 5, <<":">>)
  /\ ShowsField(t, k + 6, Second(milli), 2) /\ Shows(t, k + 8, <<".">>)
  /\ ShowsField(t, k + 9, Subsecond(milli), 3)

\* The milliseconds of a day.
InDay(milli) == milli \in Int /\ 0 <= milli /\ milli <= 86399999

LEMMA DateWritten ==
  ASSUME NEW day, InCalendar(day), NEW t, t = WriteDate(day)
  PROVE  t \in Text /\ Len(t) = 11 /\ ShowsDate(t, 0, year_month_day(day))
<1> DEFINE date == year_month_day(day)
           f1 == writeInteger(date.year, 4)
           f2 == writeInteger(date.month, 2)
           f3 == writeInteger(date.day, 2)
<1>1. /\ date.year \in Nat /\ date.year <= 9999
      /\ date.month \in Nat /\ date.month <= 99
      /\ date.day \in Nat /\ date.day <= 99
  <2>1. /\ date.year \in Nat /\ date.year <= 9999
        /\ date.month \in 1..12 /\ date.day \in 1..31
    BY DateNamesDay, SMT
  <2> HIDE DEF date
  <2> QED
    BY <2>1, SMT
<1>2. t = f1 \o <<"-">> \o f2 \o <<"-">> \o f3 \o <<" ">>
  BY Zenon DEF WriteDate
<1> HIDE DEF date
<1>3. IsField(f1, date.year, 4) /\ IsField(f2, date.month, 2) /\ IsField(f3, date.day, 2)
  BY <1>1, Field2, Field4, SMT
<1> HIDE DEF f1, f2, f3
<1>4. "-" \in Signs /\ " " \in Signs
  BY DEF Signs
<1>5. /\ f1 \in Numerals /\ f2 \in Numerals /\ f3 \in Numerals
      /\ Len(f1) = 4 /\ Len(f2) = 2 /\ Len(f3) = 2
  BY <1>3 DEF IsField
<1>6. /\ t \in Text /\ Len(t) = 4 + 7
      /\ Shows(t, 0, f1) /\ Shows(t, 4, <<"-">>) /\ Shows(t, 4 + 1, f2)
      /\ Shows(t, 4 + 3, <<"-">>) /\ Shows(t, 4 + 4, f3) /\ Shows(t, 4 + 6, <<" ">>)
  <2>1. LET u == f1 \o <<"-">> \o f2 \o <<"-">> \o f3 \o <<" ">> IN
        /\ u \in Text /\ Len(u) = 4 + 7
        /\ Shows(u, 0, f1) /\ Shows(u, 4, <<"-">>) /\ Shows(u, 4 + 1, f2)
        /\ Shows(u, 4 + 3, <<"-">>) /\ Shows(u, 4 + 4, f3) /\ Shows(u, 4 + 6, <<" ">>)
    BY <1>4, <1>5, ThreeFields
  <2> QED
    BY <1>2, <2>1, Zenon
<1>7. /\ Len(t) = 11 /\ Shows(t, 0 + 4, <<"-">>) /\ Shows(t, 0 + 5, f2)
      /\ Shows(t, 0 + 7, <<"-">>) /\ Shows(t, 0 + 8, f3) /\ Shows(t, 0 + 10, <<" ">>)
  <2>1. /\ 4 = 0 + 4 /\ 4 + 1 = 0 + 5 /\ 4 + 3 = 0 + 7 /\ 4 + 4 = 0 + 8
        /\ 4 + 6 = 0 + 10 /\ 4 + 7 = 11
    OBVIOUS
  <2> QED
    BY <1>6, <2>1, Zenon
<1>8. /\ ShowsField(t, 0, date.year, 4) /\ ShowsField(t, 0 + 5, date.month, 2)
      /\ ShowsField(t, 0 + 8, date.day, 2)
  BY <1>3, <1>5, <1>6, <1>7, Zenon DEF ShowsField
<1> QED
  BY <1>6, <1>7, <1>8, Zenon DEF date, ShowsDate

LEMMA InstantWritten ==
  ASSUME NEW milli, InDay(milli), NEW t, t = WriteInstant(milli)
  PROVE  t \in Text /\ Len(t) = 12 /\ ShowsInstant(t, 0, milli)
<1> DEFINE hour == Hour(milli)
           minute == Minute(milli)
           second == Second(milli)
           subsecond == Subsecond(milli)
           f1 == writeInteger(hour, 2)
           f2 == writeInteger(minute, 2)
           f3 == writeInteger(second, 2)
           f4 == writeInteger(subsecond, 3)
           u == f1 \o <<":">> \o f2 \o <<":">> \o f3 \o <<".">>
<1>1. /\ hour \in Nat /\ hour <= 99 /\ minute \in Nat /\ minute <= 99
      /\ second \in Nat /\ second <= 99 /\ subsecond \in Nat /\ subsecond <= 999
  BY SMT DEF InDay, Hour, Minute, Second, Subsecond
<1> HIDE DEF hour, minute, second, subsecond
<1>2. t = u \o f4
  BY SMT DEF WriteInstant, hour, minute, second, subsecond,
             Hour, Minute, Second, Subsecond
<1>3. /\ IsField(f1, hour, 2) /\ IsField(f2, minute, 2) /\ IsField(f3, second, 2)
      /\ IsField(f4, subsecond, 3)
  BY <1>1, Field2, Field3, SMT
<1> HIDE DEF f1, f2, f3, f4
<1>4. ":" \in Signs /\ "." \in Signs
  BY DEF Signs
<1>5. /\ f1 \in Numerals /\ f2 \in Numerals /\ f3 \in Numerals /\ f4 \in Numerals
      /\ Len(f1) = 2 /\ Len(f2) = 2 /\ Len(f3) = 2 /\ Len(f4) = 3
  BY <1>3 DEF IsField
<1>6. /\ u \in Text /\ Len(u) = 2 + 7
      /\ Shows(u, 0, f1) /\ Shows(u, 2, <<":">>) /\ Shows(u, 2 + 1, f2)
      /\ Shows(u, 2 + 3, <<":">>) /\ Shows(u, 2 + 4, f3) /\ Shows(u, 2 + 6, <<".">>)
  BY <1>4, <1>5, ThreeFields, ZenonT(60)
<1> HIDE DEF u
<1>7. /\ Shows(u, 0 + 2, <<":">>) /\ Shows(u, 0 + 3, f2) /\ Len(u) = 0 + 9
      /\ Shows(u, 0 + 5, <<":">>) /\ Shows(u, 0 + 6, f3) /\ Shows(u, 0 + 8, <<".">>)
  <2>1. /\ 2 = 0 + 2 /\ 2 + 1 = 0 + 3 /\ 2 + 3 = 0 + 5 /\ 2 + 4 = 0 + 6
        /\ 2 + 6 = 0 + 8 /\ 2 + 7 = 0 + 9
    OBVIOUS
  <2> QED
    BY <1>6, <2>1, Zenon
<1>8. f4 \in Text /\ \A c \in Signs : <<c>> \in Text
  BY <1>5, PiecesAreText
<1>9. /\ t \in Text /\ Len(t) = Len(u) + Len(f4) /\ Shows(t, Len(u), f4)
      /\ \A k \in Nat, w \in Text : Shows(u, k, w) => Shows(t, k, w)
  <2>1. /\ u \o f4 \in Text /\ Len(u \o f4) = Len(u) + Len(f4) /\ Shows(u \o f4, Len(u), f4)
        /\ \A k \in Nat, w \in Text : Shows(u, k, w) => Shows(u \o f4, k, w)
    BY <1>6, <1>8, Extended
  <2> QED
    BY <1>2, <2>1, Zenon
<1>10. /\ Shows(t, 0, f1) /\ Shows(t, 0 + 2, <<":">>) /\ Shows(t, 0 + 3, f2)
       /\ Shows(t, 0 + 5, <<":">>) /\ Shows(t, 0 + 6, f3) /\ Shows(t, 0 + 8, <<".">>)
       /\ Shows(t, 0 + 9, f4) /\ Len(t) = 12
  <2>1. f1 \in Text /\ f2 \in Text /\ f3 \in Text /\ <<":">> \in Text /\ <<".">> \in Text
    BY <1>4, <1>5, <1>8, PiecesAreText
  <2>2. Len(t) = 12
    BY <1>5, <1>7, <1>9
  <2>3. Shows(t, 0 + 9, f4)
    BY <1>7, <1>9, Zenon
  <2>4. 0 \in Nat /\ 0 + 2 \in Nat /\ 0 + 3 \in Nat /\ 0 + 5 \in Nat /\ 0 + 6 \in Nat
          /\ 0 + 8 \in Nat
    OBVIOUS
  <2> QED
    BY <1>6, <1>7, <1>9, <2>1, <2>2, <2>3, <2>4, Zenon
<1>11. /\ ShowsField(t, 0, hour, 2) /\ ShowsField(t, 0 + 3, minute, 2)
       /\ ShowsField(t, 0 + 6, second, 2) /\ ShowsField(t, 0 + 9, subsecond, 3)
  BY <1>3, <1>5, <1>10, Zenon DEF ShowsField
<1> QED
  BY <1>9, <1>10, <1>11, Zenon DEF hour, minute, second, subsecond, ShowsInstant

LEMMA FieldExtended ==
  ASSUME NEW a \in Text, NEW b \in Text, NEW k \in Nat, NEW n, NEW width
  PROVE  /\ ShowsField(a, k, n, width) => ShowsField(a \o b, k, n, width)
         /\ ShowsField(b, k, n, width) => ShowsField(a \o b, Len(a) + k, n, width)
<1>1. /\ \A w \in Text : Shows(a, k, w) => Shows(a \o b, k, w)
      /\ \A w \in Text : Shows(b, k, w) => Shows(a \o b, Len(a) + k, w)
  BY Extended
<1> QED
  BY <1>1, PiecesAreText, Zenon DEF ShowsField

LEMMA DateExtended ==
  ASSUME NEW a \in Text, NEW b \in Text, NEW date, ShowsDate(a, 0, date)
  PROVE  ShowsDate(a \o b, 0, date)
<1>1. 0 \in Nat /\ 0 + 4 \in Nat /\ 0 + 5 \in Nat /\ 0 + 7 \in Nat /\ 0 + 8 \in Nat
        /\ 0 + 10 \in Nat
  OBVIOUS
<1>2. <<"-">> \in Text /\ <<" ">> \in Text
  BY PiecesAreText DEF Signs
<1>3. \A k \in Nat, w \in Text : Shows(a, k, w) => Shows(a \o b, k, w)
  BY Extended
<1>4. \A k \in Nat : \A n, width :
        ShowsField(a, k, n, width) => ShowsField(a \o b, k, n, width)
  BY FieldExtended
<1> QED
  BY <1>1, <1>2, <1>3, <1>4, Zenon DEF ShowsDate

LEMMA InstantExtended ==
  ASSUME NEW a \in Text, NEW b \in Text, NEW milli
  PROVE  /\ Len(a) = 11 /\ ShowsInstant(b, 0, milli) => ShowsInstant(a \o b, 11, milli)
         /\ ShowsInstant(a, 11, milli) => ShowsInstant(a \o b, 11, milli)
<1>1. <<":">> \in Text /\ <<".">> \in Text
  BY PiecesAreText DEF Signs
<1>2. \A k \in Nat, w \in Text :
        /\ Shows(a, k, w) => Shows(a \o b, k, w)
        /\ Shows(b, k, w) => Shows(a \o b, Len(a) + k, w)
  BY Extended
<1>3. \A k \in Nat : \A n, width :
        /\ ShowsField(a, k, n, width) => ShowsField(a \o b, k, n, width)
        /\ ShowsField(b, k, n, width) => ShowsField(a \o b, Len(a) + k, n, width)
  BY FieldExtended
<1>4. ASSUME Len(a) = 11, ShowsInstant(b, 0, milli) PROVE ShowsInstant(a \o b, 11, milli)
  <2>1. /\ 0 \in Nat /\ 0 + 2 \in Nat /\ 0 + 3 \in Nat /\ 0 + 5 \in Nat
        /\ 0 + 6 \in Nat /\ 0 + 8 \in Nat /\ 0 + 9 \in Nat
        /\ Len(a) + 0 = 11 /\ Len(a) + (0 + 2) = 11 + 2 /\ Len(a) + (0 + 3) = 11 + 3
        /\ Len(a) + (0 + 5) = 11 + 5 /\ Len(a) + (0 + 6) = 11 + 6
        /\ Len(a) + (0 + 8) = 11 + 8 /\ Len(a) + (0 + 9) = 11 + 9
    BY <1>4
  <2>2. /\ ShowsField(a \o b, Len(a) + 0, Hour(milli), 2)
        /\ Shows(a \o b, Len(a) + (0 + 2), <<":">>)
        /\ ShowsField(a \o b, Len(a) + (0 + 3), Minute(milli), 2)
        /\ Shows(a \o b, Len(a) + (0 + 5), <<":">>)
        /\ ShowsField(a \o b, Len(a) + (0 + 6), Second(milli), 2)
        /\ Shows(a \o b, Len(a) + (0 + 8), <<".">>)
        /\ ShowsField(a \o b, Len(a) + (0 + 9), Subsecond(milli), 3)
    BY <1>1, <1>2, <1>3, <1>4, <2>1, Zenon DEF ShowsInstant
  <2> QED
    BY <2>1, <2>2, Zenon DEF ShowsInstant
<1>5. ASSUME ShowsInstant(a, 11, milli) PROVE ShowsInstant(a \o b, 11, milli)
  <2>1. /\ 11 \in Nat /\ 11 + 2 \in Nat /\ 11 + 3 \in Nat /\ 11 + 5 \in Nat
        /\ 11 + 6 \in Nat /\ 11 + 8 \in Nat /\ 11 + 9 \in Nat
    OBVIOUS
  <2> QED
    BY <1>1, <1>2, <1>3, <1>5, <2>1, Zenon DEF ShowsInstant
<1> QED
  BY <1>4, <1>5

\* A stamp shows the date, the time of day and the zone at their places.
LEMMA StampWritten ==
  ASSUME NEW day, InCalendar(day), NEW milli, InDay(milli), NEW zone \in Text
  PROVE  LET t == WriteDate(day) \o WriteInstant(milli) \o zone IN
         /\ t \in Text /\ Len(t) = 23 + Len(zone)
         /\ ShowsDate(t, 0, year_month_day(day))
         /\ ShowsInstant(t, 11, milli) /\ Shows(t, 23, zone)
<1> DEFINE a == WriteDate(day)
           b == WriteInstant(milli)
           c == a \o b
<1>1. a \in Text /\ Len(a) = 11 /\ ShowsDate(a, 0, year_month_day(day))
  BY DateWritten
<1>2. b \in Text /\ Len(b) = 12 /\ ShowsInstant(b, 0, milli)
  BY InstantWritten
<1> HIDE DEF a, b
<1>4. c \in Text /\ Len(c) = 23
  <2>1. c \in Text /\ Len(c) = Len(a) + Len(b)
    BY <1>1, <1>2, Extended
  <2> QED
    BY <1>1, <1>2, <2>1
<1>5. ShowsDate(c, 0, year_month_day(day)) /\ ShowsInstant(c, 11, milli)
  BY <1>1, <1>2, DateExtended, InstantExtended, Zenon
<1> HIDE DEF c
<1>6. /\ c \o zone \in Text /\ Len(c \o zone) = 23 + Len(zone)
      /\ Shows(c \o zone, Len(c), zone)
  BY <1>4, Extended
<1>7. ShowsDate(c \o zone, 0, year_month_day(day)) /\ ShowsInstant(c \o zone, 11, milli)
  BY <1>4, <1>5, DateExtended, InstantExtended, Zenon
<1> QED
  BY <1>4, <1>6, <1>7, Zenon DEF a, b, c

\* Hours and minutes of an offset, and its sign.
OffsetHours(offset) == (OffsetSecs(offset) \div 60) \div 60
OffsetMinutes(offset) == (OffsetSecs(offset) \div 60) % 60
OffsetSign(offset) == IF offset >= 0 THEN "+" ELSE "-"

ShowsOffset(t, k, offset) ==
  /\ Shows(t, k, <<OffsetSign(offset)>>)
  /\ ShowsField(t, k + 1, OffsetHours(offset), 2) /\ Shows(t, k + 3, <<":">>)
  /\ ShowsField(t, k + 4, OffsetMinutes(offset), 2)

\* The offsets of the zones there are.
IsOffset(offset) == offset \in Int /\ -86399 <= offset /\ offset <= 86399 /\ offset % 60 = 0

LEMMA OffsetWritten ==
  ASSUME NEW offset, IsOffset(offset), NEW t, t = WriteOffset(offset)
  PROVE  t \in Text /\ Len(t) = 6 /\ ShowsOffset(t, 0, offset)
<1> DEFINE hours == OffsetHours(offset)
           minutes == OffsetMinutes(offset)
           sign == OffsetSign(offset)
           f1 == writeInteger(hours, 2)
           f2 == writeInteger(minutes, 2)
           a1 == <<sign>> \o f1
           a2 == a1 \o <<":">>
           a3 == a2 \o f2
<1>1. hours \in Nat /\ hours <= 99 /\ minutes \in Nat /\ minutes <= 99
  BY SMT DEF IsOffset, OffsetHours, OffsetMinutes, OffsetSecs
<1>2. t = a3
  <2>1. (IF offset >= 0 THEN <<"+">> ELSE <<"-">>) = <<sign>>
    BY DEF OffsetSign
  <2> QED
    BY <2>1, Zenon DEF WriteOffset, OffsetHours, OffsetMinutes
<1> HIDE DEF hours, minutes
<1>3. IsField(f1, hours, 2) /\ IsField(f2, minutes, 2)
  BY <1>1, Field2, SMT
<1>4. sign \in Signs /\ ":" \in Signs
  BY DEF Signs, OffsetSign
<1> HIDE DEF f1, f2, sign
<1>5. /\ f1 \in Text /\ f2 \in Text /\ Len(f1) = 2 /\ Len(f2) = 2
      /\ f1 \in Numerals /\ f2 \in Numerals
  BY <1>3, PiecesAreText DEF IsField
<1>6. /\ <<sign>> \in Text /\ Len(<<sign>>) = 1
      /\ <<":">> \in Text /\ Len(<<":">>) = 1
  BY <1>4, PiecesAreText
<1>7. Shows(<<sign>>, 0, <<sign>>)
  BY <1>6 DEF Shows
<1>8. /\ a1 \in Text /\ Len(a1) = Len(<<sign>>) + Len(f1) /\ Shows(a1, Len(<<sign>>), f1)
      /\ \A k \in Nat, w \in Text : Shows(<<sign>>, k, w) => Shows(a1, k, w)
  BY <1>5, <1>6, Extended
<1> HIDE DEF a1
<1>9. /\ a2 \in Text /\ Len(a2) = Len(a1) + Len(<<":">>) /\ Shows(a2, Len(a1), <<":">>)
      /\ \A k \in Nat, w \in Text : Shows(a1, k, w) => Shows(a2, k, w)
  BY <1>6, <1>8, Extended
<1> HIDE DEF a2
<1>10. /\ a3 \in Text /\ Len(a3) = Len(a2) + Len(f2) /\ Shows(a3, Len(a2), f2)
       /\ \A k \in Nat, w \in Text : Shows(a2, k, w) => Shows(a3, k, w)
  BY <1>5, <1>9, Extended
<1> HIDE DEF a3
<1>11. /\ Len(<<sign>>) = 0 + 1 /\ Len(a1) = 0 + 3 /\ Len(a2) = 0 + 4 /\ Len(a3) = 6
       /\ 0 \in Nat /\ 0 + 1 \in Nat /\ 0 + 3 \in Nat
  BY <1>5, <1>6, <1>8, <1>9, <1>10
<1>12. /\ Shows(a3, 0, <<sign>>) /\ Shows(a3, 0 + 1, f1) /\ Shows(a3, 0 + 3, <<":">>)
       /\ Shows(a3, 0 + 4, f2)
  <2>1. Shows(a1, 0, <<sign>>) /\ Shows(a1, 0 + 1, f1)
    BY <1>6, <1>7, <1>8, <1>11, Zenon
  <2>2. Shows(a2, 0, <<sign>>) /\ Shows(a2, 0 + 1, f1) /\ Shows(a2, 0 + 3, <<":">>)
    BY <1>5, <1>6, <1>9, <1>11, <2>1, Zenon
  <2> QED
    BY <1>5, <1>6, <1>10, <1>11, <2>2, Zenon
<1>13. ShowsField(a3, 0 + 1, hours, 2) /\ ShowsField(a3, 0 + 4, minutes, 2)
  BY <1>3, <1>5, <1>12, Zenon DEF ShowsField
<1> QED
  BY <1>2, <1>10, <1>11, <1>12, <1>13, Zenon DEF ShowsOffset, hours, minutes, sign

LEMMA OffsetExtended ==
  ASSUME NEW a \in Text, Len(a) = 23, NEW b \in Text, NEW offset,
         OffsetSign(offset) \in Signs, ShowsOffset(b, 0, offset)
  PROVE  ShowsOffset(a \o b, 23, offset)
<1>1. <<":">> \in Text /\ <<OffsetSign(offset)>> \in Text
  BY PiecesAreText DEF Signs
<1>2. \A k \in Nat, w \in Text : Shows(b, k, w) => Shows(a \o b, Len(a) + k, w)
  BY Extended
<1>3. \A k \in Nat : \A n, width :
        ShowsField(b, k, n, width) => ShowsField(a \o b, Len(a) + k, n, width)
  BY FieldExtended
<1>4. /\ 0 \in Nat /\ 0 + 1 \in Nat /\ 0 + 3 \in Nat /\ 0 + 4 \in Nat
      /\ Len(a) + 0 = 23 /\ Len(a) + (0 + 1) = 23 + 1 /\ Len(a) + (0 + 3) = 23 + 3
      /\ Len(a) + (0 + 4) = 23 + 4
  OBVIOUS
<1>5. /\ Shows(a \o b, Len(a) + 0, <<OffsetSign(offset)>>)
      /\ ShowsField(a \o b, Len(a) + (0 + 1), OffsetHours(offset), 2)
      /\ Shows(a \o b, Len(a) + (0 + 3), <<":">>)
      /\ ShowsField(a \o b, Len(a) + (0 + 4), OffsetMinutes(offset), 2)
  BY <1>1, <1>2, <1>3, <1>4, Zenon DEF ShowsOffset
<1> QED
  BY <1>4, <1>5, Zenon DEF ShowsOffset

-----------------------------------------------------------------------------
(* What a reader finds at the places of a stamp                            *)

LEMMA FieldRead ==
  ASSUME NEW text \in Text, NEW k \in Nat, NEW width \in Nat, NEW n,
         ShowsField(text, k, n, width)
  PROVE  /\ Number(SubSeq(text, k + 1, k + width)) = n
         /\ \A i \in 1..width : text[k + i] \in ToSet(Cipher)
         /\ k + width <= Len(text)
<1>1. PICK f \in Numerals : IsField(f, n, width) /\ Shows(text, k, f)
  BY Zenon DEF ShowsField
<1>2. f \in Text /\ Len(f) = width /\ Number(f) = n
  BY <1>1, PiecesAreText DEF IsField
<1>3. SubSeq(text, k + 1, k + Len(f)) = f
  BY <1>1, <1>2, ShownPart
<1>4. \A i \in 1..width : f[i] \in ToSet(Cipher)
  BY <1>2 DEF Numerals
<1>5. k + Len(f) <= Len(text) /\ \A i \in 1..Len(f) : text[k + i] = f[i]
  BY <1>1, Zenon DEF Shows
<1>6. Number(SubSeq(text, k + 1, k + width)) = n
  BY <1>2, <1>3, Zenon
<1>7. \A i \in 1..width : text[k + i] \in ToSet(Cipher)
  BY <1>2, <1>4, <1>5, Zenon
<1>8. k + width <= Len(text)
  BY <1>2, <1>5, Zenon
<1> QED
  BY <1>6, <1>7, <1>8

LEMMA CharacterRead ==
  ASSUME NEW text \in Text, NEW k \in Nat, NEW c \in Signs, Shows(text, k, <<c>>)
  PROVE  text[k + 1] = c
<1>1. Len(<<c>>) = 1 /\ <<c>>[1] = c
  BY PiecesAreText
<1> QED
  BY <1>1 DEF Shows

DateAt(text) == [year  |-> Number(SubSeq(text, 1, 4)),
                 month |-> Number(SubSeq(text, 6, 7)),
                 day   |-> Number(SubSeq(text, 9, 10))]

InstantAt(text) == [hour      |-> Number(SubSeq(text, 12, 13)),
                    minute    |-> Number(SubSeq(text, 15, 16)),
                    second    |-> Number(SubSeq(text, 18, 19)),
                    subsecond |-> Number(SubSeq(text, 21, 23))]

\* The places of the digits and of the separators of every stamp.
LEMMA PlacesRead ==
  ASSUME NEW text \in Text, NEW date, NEW milli,
         ShowsDate(text, 0, date), ShowsInstant(text, 11, milli)
  PROVE  /\ \A i \in {1, 2, 3, 4, 6, 7, 9, 10, 12, 13, 15, 16, 18, 19, 21, 22, 23} :
              text[i] \in ToSet(Cipher)
         /\ text[5] = "-" /\ text[8] = "-" /\ text[11] = " "
         /\ text[14] = ":" /\ text[17] = ":" /\ text[20] = "."
         /\ DateAt(text).year = date.year /\ DateAt(text).month = date.month
         /\ DateAt(text).day = date.day
         /\ InstantAt(text) = [hour |-> Hour(milli), minute |-> Minute(milli),
                               second |-> Second(milli), subsecond |-> Subsecond(milli)]
<1>1. /\ ShowsField(text, 0, date.year, 4) /\ ShowsField(text, 5, date.month, 2)
      /\ ShowsField(text, 8, date.day, 2)
      /\ ShowsField(text, 11, Hour(milli), 2) /\ ShowsField(text, 14, Minute(milli), 2)
      /\ ShowsField(text, 17, Second(milli), 2) /\ ShowsField(text, 20, Subsecond(milli), 3)
      /\ Shows(text, 4, <<"-">>) /\ Shows(text, 7, <<"-">>) /\ Shows(text, 10, <<" ">>)
      /\ Shows(text, 13, <<":">>) /\ Shows(text, 16, <<":">>) /\ Shows(text, 19, <<".">>)
  <2>1. /\ 0 + 4 = 4 /\ 0 + 5 = 5 /\ 0 + 7 = 7 /\ 0 + 8 = 8 /\ 0 + 10 = 10
        /\ 11 + 2 = 13 /\ 11 + 3 = 14 /\ 11 + 5 = 16 /\ 11 + 6 = 17 /\ 11 + 8 = 19
        /\ 11 + 9 = 20
    OBVIOUS
  <2> QED
    BY <2>1, Zenon DEF ShowsDate, ShowsInstant
<1>2. /\ Number(SubSeq(text, 0 + 1, 0 + 4)) = date.year
      /\ \A i \in 1..4 : text[0 + i] \in ToSet(Cipher)
  BY <1>1, FieldRead
<1>3. /\ Number(SubSeq(text, 5 + 1, 5 + 2)) = date.month
      /\ \A i \in 1..2 : text[5 + i] \in ToSet(Cipher)
  BY <1>1, FieldRead
<1>4. /\ Number(SubSeq(text, 8 + 1, 8 + 2)) = date.day
      /\ \A i \in 1..2 : text[8 + i] \in ToSet(Cipher)
  BY <1>1, FieldRead
<1>5. /\ Number(SubSeq(text, 11 + 1, 11 + 2)) = Hour(milli)
      /\ \A i \in 1..2 : text[11 + i] \in ToSet(Cipher)
  BY <1>1, FieldRead
<1>6. /\ Number(SubSeq(text, 14 + 1, 14 + 2)) = Minute(milli)
      /\ \A i \in 1..2 : text[14 + i] \in ToSet(Cipher)
  BY <1>1, FieldRead
<1>7. /\ Number(SubSeq(text, 17 + 1, 17 + 2)) = Second(milli)
      /\ \A i \in 1..2 : text[17 + i] \in ToSet(Cipher)
  BY <1>1, FieldRead
<1>8. /\ Number(SubSeq(text, 20 + 1, 20 + 3)) = Subsecond(milli)
      /\ \A i \in 1..3 : text[20 + i] \in ToSet(Cipher)
  BY <1>1, FieldRead
<1>9. \A i \in {1, 2, 3, 4, 6, 7, 9, 10, 12, 13, 15, 16, 18, 19, 21, 22, 23} :
        text[i] \in ToSet(Cipher)
  <2> DEFINE C == ToSet(Cipher)
  <2> HIDE DEF C
  <2>1. text[1] \in C /\ text[2] \in C /\ text[3] \in C /\ text[4] \in C
    <3>1. ASSUME NEW i \in 1..4 PROVE text[i] \in C
      <4>1. 0 + i = i
        OBVIOUS
      <4> QED
        BY <1>2, <4>1, Zenon DEF C
    <3>2. 1 \in 1..4 /\ 2 \in 1..4 /\ 3 \in 1..4 /\ 4 \in 1..4
      OBVIOUS
    <3> QED
      BY <3>1, <3>2, Zenon
  <2>2. text[6] \in C /\ text[7] \in C
    BY <1>3 DEF C
  <2>3. text[9] \in C /\ text[10] \in C
    BY <1>4 DEF C
  <2>4. text[12] \in C /\ text[13] \in C
    BY <1>5 DEF C
  <2>5. text[15] \in C /\ text[16] \in C
    BY <1>6 DEF C
  <2>6. text[18] \in C /\ text[19] \in C
    BY <1>7 DEF C
  <2>7. text[21] \in C /\ text[22] \in C /\ text[23] \in C
    BY <1>8 DEF C
  <2> QED
    BY <2>1, <2>2, <2>3, <2>4, <2>5, <2>6, <2>7 DEF C
<1>10. /\ text[5] = "-" /\ text[8] = "-" /\ text[11] = " "
       /\ text[14] = ":" /\ text[17] = ":" /\ text[20] = "."
  <2>1. "-" \in Signs /\ " " \in Signs /\ ":" \in Signs /\ "." \in Signs
    BY DEF Signs
  <2>2. /\ text[4 + 1] = "-" /\ text[7 + 1] = "-" /\ text[10 + 1] = " "
        /\ text[13 + 1] = ":" /\ text[16 + 1] = ":" /\ text[19 + 1] = "."
    BY <1>1, <2>1, CharacterRead
  <2>3. /\ 4 + 1 = 5 /\ 7 + 1 = 8 /\ 10 + 1 = 11
        /\ 13 + 1 = 14 /\ 16 + 1 = 17 /\ 19 + 1 = 20
    OBVIOUS
  <2> QED
    BY <2>2, <2>3, Zenon
<1>11. /\ 0 + 1 = 1 /\ 0 + 4 = 4 /\ 5 + 1 = 6 /\ 5 + 2 = 7 /\ 8 + 1 = 9 /\ 8 + 2 = 10
       /\ 11 + 1 = 12 /\ 11 + 2 = 13 /\ 14 + 1 = 15 /\ 14 + 2 = 16 /\ 17 + 1 = 18
       /\ 17 + 2 = 19 /\ 20 + 1 = 21 /\ 20 + 3 = 23
  OBVIOUS
<1>12. /\ Number(SubSeq(text, 1, 4)) = date.year /\ Number(SubSeq(text, 6, 7)) = date.month
       /\ Number(SubSeq(text, 9, 10)) = date.day
       /\ Number(SubSeq(text, 12, 13)) = Hour(milli)
       /\ Number(SubSeq(text, 15, 16)) = Minute(milli)
       /\ Number(SubSeq(text, 18, 19)) = Second(milli)
       /\ Number(SubSeq(text, 21, 23)) = Subsecond(milli)
  BY <1>2, <1>3, <1>4, <1>5, <1>6, <1>7, <1>8, <1>11, Zenon
<1>13. /\ DateAt(text).year = date.year /\ DateAt(text).month = date.month
       /\ DateAt(text).day = date.day
  BY <1>12 DEF DateAt
<1>14. InstantAt(text) = [hour |-> Hour(milli), minute |-> Minute(milli),
                          second |-> Second(milli), subsecond |-> Subsecond(milli)]
  BY <1>12, Zenon DEF InstantAt
<1> QED
  BY <1>9, <1>10, <1>13, <1>14, Zenon

\* Hours, minutes, seconds and milliseconds make the time of the day again.
LEMMA InstantParts ==
  ASSUME NEW milli, InDay(milli)
  PROVE  /\ 1000 * (3600 * Hour(milli) + 60 * Minute(milli) + Second(milli))
              + Subsecond(milli) = milli
         /\ Hour(milli) \in Nat /\ Minute(milli) \in Nat /\ Second(milli) \in Nat
         /\ Subsecond(milli) \in Nat
  BY SMT DEF InDay, Hour, Minute, Second, Subsecond

LEMMA StampNames ==
  ASSUME NEW day, InCalendar(day), NEW milli, InDay(milli), sOutput \in Text,
         ShowsDate(sOutput, 0, year_month_day(day)), ShowsInstant(sOutput, 11, milli)
  PROVE  PrintedDay = day /\ PrintedMilli = milli
<1> DEFINE date == year_month_day(day)
<1>1. DayNumber(date.year, date.month, date.day) = day
  BY DateNamesDay
<1>2. /\ DateAt(sOutput).year = date.year /\ DateAt(sOutput).month = date.month
      /\ DateAt(sOutput).day = date.day
      /\ InstantAt(sOutput) = [hour |-> Hour(milli), minute |-> Minute(milli),
                               second |-> Second(milli), subsecond |-> Subsecond(milli)]
  BY PlacesRead, ZenonT(60)
<1> HIDE DEF date
<1>3. /\ Field(1, 4) = date.year /\ Field(6, 7) = date.month /\ Field(9, 10) = date.day
      /\ Field(12, 13) = Hour(milli) /\ Field(15, 16) = Minute(milli)
      /\ Field(18, 19) = Second(milli) /\ Field(21, 23) = Subsecond(milli)
  BY <1>2 DEF DateAt, InstantAt, Field
<1>4. PrintedDay = day
  BY <1>1, <1>3, Zenon DEF PrintedDay
<1>5. PrintedMilli = milli
  BY <1>3, InstantParts, SMT DEF PrintedMilli
<1> QED
  BY <1>4, <1>5

LEMMA OffsetNames ==
  ASSUME NEW offset, IsOffset(offset), sOutput \in Text, ShowsOffset(sOutput, 23, offset)
  PROVE  PrintedOffset = offset
<1>1. /\ ShowsField(sOutput, 24, OffsetHours(offset), 2)
      /\ ShowsField(sOutput, 27, OffsetMinutes(offset), 2)
      /\ Shows(sOutput, 23, <<OffsetSign(offset)>>)
  <2>1. 23 + 1 = 24 /\ 23 + 4 = 27
    OBVIOUS
  <2> QED
    BY <2>1, Zenon DEF ShowsOffset
<1>2. OffsetSign(offset) \in Signs
  BY DEF OffsetSign, Signs
<1>3. sOutput[23 + 1] = OffsetSign(offset)
  BY <1>1, <1>2, CharacterRead
<1>4. /\ Number(SubSeq(sOutput, 24 + 1, 24 + 2)) = OffsetHours(offset)
      /\ Number(SubSeq(sOutput, 27 + 1, 27 + 2)) = OffsetMinutes(offset)
  BY <1>1, FieldRead
<1>5. /\ sOutput[24] = OffsetSign(offset) /\ Field(25, 26) = OffsetHours(offset)
      /\ Field(28, 29) = OffsetMinutes(offset)
  <2>1. /\ 23 + 1 = 24 /\ 24 + 1 = 25 /\ 24 + 2 = 26 /\ 27 + 1 = 28 /\ 27 + 2 = 29
    OBVIOUS
  <2> QED
    BY <1>3, <1>4, <2>1, Zenon DEF Field
<1>6. PrintedOffset = (IF OffsetSign(offset) = "-" THEN -1 ELSE 1)
                        * 60 * (60 * OffsetHours(offset) + OffsetMinutes(offset))
  BY <1>5, Zenon DEF PrintedOffset
<1>7. 60 * (60 * OffsetHours(offset) + OffsetMinutes(offset)) = OffsetSecs(offset)
  BY SMT DEF OffsetHours, OffsetMinutes, OffsetSecs, IsOffset
<1>8. /\ OffsetHours(offset) \in Int /\ OffsetMinutes(offset) \in Int
      /\ OffsetSecs(offset) \in Int /\ offset \in Int
  BY SMT DEF OffsetHours, OffsetMinutes, OffsetSecs, IsOffset
<1>9. CASE offset >= 0
  BY <1>6, <1>7, <1>8, <1>9, SMT DEF OffsetSign, OffsetSecs
<1>10. CASE ~(offset >= 0)
  BY <1>6, <1>7, <1>8, <1>10, SMT DEF OffsetSign, OffsetSecs
<1> QED
  BY <1>9, <1>10

-----------------------------------------------------------------------------
(* Whole stamps                                                            *)

LEMMA UtcWritten ==
  ASSUME NEW nTime, InCalendar(nTime.day), InDay(InstantMillis(nTime.tick))
  PROVE  LET t == toRfc3339Utc(nTime) IN
         /\ t \in Text /\ Len(t) = 24
         /\ ShowsDate(t, 0, year_month_day(nTime.day))
         /\ ShowsInstant(t, 11, InstantMillis(nTime.tick)) /\ t[24] = "Z"
<1> DEFINE t == toRfc3339Utc(nTime)
<1>1. "Z" \in Signs
  BY DEF Signs
<1>2. <<"Z">> \in Text /\ Len(<<"Z">>) = 1
  BY <1>1, PiecesAreText
<1>3. t = WriteDate(nTime.day) \o WriteInstant(InstantMillis(nTime.tick)) \o <<"Z">>
  BY Zenon DEF toRfc3339Utc
<1>4. /\ t \in Text /\ Len(t) = 23 + Len(<<"Z">>)
      /\ ShowsDate(t, 0, year_month_day(nTime.day))
      /\ ShowsInstant(t, 11, InstantMillis(nTime.tick)) /\ Shows(t, 23, <<"Z">>)
  <2>1. LET u == WriteDate(nTime.day) \o WriteInstant(InstantMillis(nTime.tick)) \o <<"Z">> IN
        /\ u \in Text /\ Len(u) = 23 + Len(<<"Z">>)
        /\ ShowsDate(u, 0, year_month_day(nTime.day))
        /\ ShowsInstant(u, 11, InstantMillis(nTime.tick)) /\ Shows(u, 23, <<"Z">>)
    BY <1>2, StampWritten, Zenon
  <2> QED
    BY <1>3, <2>1, Zenon
<1> HIDE DEF t
<1>5. t[23 + 1] = "Z"
  BY <1>1, <1>4, CharacterRead
<1>6. 23 + 1 = 24
  OBVIOUS
<1> QED
  BY <1>2, <1>4, <1>5, <1>6, Zenon DEF t

LEMMA LocalWritten ==
  ASSUME NEW nTime, NEW offset, IsOffset(offset),
         InCalendar(to_local(nTime, offset).day), InDay(InstantMillis(to_local(nTime, offset).tick))
  PROVE  LET t == toRfc3339Local(nTime, offset) IN
         /\ t \in Text /\ Len(t) = 29
         /\ ShowsDate(t, 0, year_month_day(to_local(nTime, offset).day))
         /\ ShowsInstant(t, 11, InstantMillis(to_local(nTime, offset).tick))
         /\ ShowsOffset(t, 23, offset)
<1> DEFINE day == to_local(nTime, offset).day
           milli == InstantMillis(to_local(nTime, offset).tick)
           a == WriteDate(day)
           b == WriteInstant(milli)
           zone == WriteOffset(offset)
           t == toRfc3339Local(nTime, offset)
<1>1. t = a \o b \o zone
  BY Zenon DEF toRfc3339Local
<1>2. zone \in Text /\ Len(zone) = 6 /\ ShowsOffset(zone, 0, offset)
  BY OffsetWritten
<1>3. a \in Text /\ Len(a) = 11 /\ b \in Text /\ Len(b) = 12
  BY DateWritten, InstantWritten
<1> HIDE DEF zone, day, milli
<1>4. /\ t \in Text /\ Len(t) = 23 + Len(zone)
      /\ ShowsDate(t, 0, year_month_day(day)) /\ ShowsInstant(t, 11, milli)
  <2>1. InCalendar(day) /\ InDay(milli)
    BY DEF day, milli
  <2>2. LET u == WriteDate(day) \o WriteInstant(milli) \o zone IN
        /\ u \in Text /\ Len(u) = 23 + Len(zone)
        /\ ShowsDate(u, 0, year_month_day(day)) /\ ShowsInstant(u, 11, milli)
    BY <1>2, <2>1, StampWritten, Zenon
  <2> QED
    BY <1>1, <2>2, Zenon
<1> HIDE DEF t, a, b
<1>5. a \o b \in Text /\ Len(a \o b) = 23
  <2>1. a \o b \in Text /\ Len(a \o b) = Len(a) + Len(b)
    BY <1>3, Extended
  <2> QED
    BY <1>3, <2>1
<1>6. OffsetSign(offset) \in Signs
  BY DEF OffsetSign, Signs
<1>7. ShowsOffset(t, 23, offset)
  BY <1>1, <1>2, <1>5, <1>6, OffsetExtended, Zenon
<1>8. 23 + 6 = 29
  OBVIOUS
<1> QED
  BY <1>2, <1>4, <1>7, <1>8, Zenon DEF t, day, milli

\* What floor<milliseconds> makes of the ticks of less than n milliseconds.
LEMMA FloorIs ==
  ASSUME NEW T \in Nat, T # 0, NEW n \in Nat, NEW tick \in Nat, tick < n * T
  PROVE  /\ tick \div T \in Nat /\ tick \div T <= n - 1
         /\ (tick \div T) * T <= tick /\ tick < ((tick \div T) + 1) * T
<1> DEFINE q == tick \div T
<1>1. q \in Nat /\ tick = T * q + (tick % T) /\ tick % T \in 0..(T - 1)
  BY DivMod
<1> HIDE DEF q
<1>2. T * q = q * T /\ (q + 1) * T = q * T + T /\ q * T \in Nat
  BY <1>1, SMT
<1>3. q * T <= tick /\ tick < (q + 1) * T
  BY <1>1, <1>2, SMT
<1>4. q < n
  <2> SUFFICES ASSUME n <= q PROVE FALSE
    BY <1>1, SMT
  <2>1. n * T <= q * T
    BY <1>1, SMT
  <2> QED
    BY <1>2, <1>3, <2>1, SMT
<1>5. q <= n - 1
  BY <1>1, <1>4, SMT
<1> QED
  BY <1>1, <1>3, <1>5, Zenon DEF q

\* A time of the day, in milliseconds.
LEMMA TickIsTime ==
  ASSUME NEW tick \in Nat, tick < TicksPerDay
  PROVE  /\ InDay(InstantMillis(tick))
         /\ InstantMillis(tick) * TicksPerMilli <= tick
         /\ tick < (InstantMillis(tick) + 1) * TicksPerMilli
<1>1. TicksPerMilli \in Nat /\ TicksPerMilli # 0
  BY TimesAssumption
<1> DEFINE n == 86400000
           m == tick \div TicksPerMilli
<1>2. n \in Nat /\ tick < n * TicksPerMilli
  BY SMT DEF TicksPerDay
<1>3. InDay(m) <=> m \in Int /\ 0 <= m /\ m <= n - 1
  BY SMT DEF InDay
<1>4. InstantMillis(tick) = m
  BY Zenon DEF InstantMillis
<1> HIDE DEF n, m
<1>5. /\ m \in Nat /\ m <= n - 1
      /\ m * TicksPerMilli <= tick /\ tick < (m + 1) * TicksPerMilli
  BY <1>1, <1>2, FloorIs, Zenon DEF m
<1>6. InDay(m)
  BY <1>3, <1>5, SMT
<1> QED
  BY <1>4, <1>5, <1>6, Zenon

\* The time points that are printed.
LEMMA PointIsTime ==
  ASSUME NEW nTime, nTime.day \in Days, nTime.tick \in Ticks
  PROVE  /\ InCalendar(nTime.day) /\ InDay(InstantMillis(nTime.tick))
         /\ nTime.tick \in Nat /\ nTime.tick < TicksPerDay
<1>1. /\ nTime.day \in Int /\ -719527 <= nTime.day /\ nTime.day <= 2932895
      /\ nTime.tick \in Nat /\ nTime.tick < TicksPerDay
  BY TimesAssumption, SMT
<1>2. InCalendar(nTime.day)
  BY <1>1, SMT DEF InCalendar
<1> QED
  BY <1>1, <1>2, TickIsTime

\* A shift by less than a day, whatever the length of a day.
LEMMA Shifted ==
  ASSUME NEW D \in Nat, D # 0, NEW x \in Int, -D <= x, x < 2 * D
  PROVE  /\ x \div D \in Int /\ -1 <= x \div D /\ x \div D <= 1
         /\ x % D \in Nat /\ x % D < D
<1> DEFINE q == x \div D
           r == x % D
<1>1. q \in Int /\ r \in Nat /\ r < D /\ x = D * q + r
  BY SMT
<1> HIDE DEF q, r
<1>2. q <= 1
  <2> SUFFICES ASSUME 2 <= q PROVE FALSE
    BY <1>1, SMT
  <2>1. D * 2 <= D * q
    BY <1>1, SMT
  <2> QED
    BY <1>1, <2>1, SMT
<1>3. -1 <= q
  <2> SUFFICES ASSUME q <= -2 PROVE FALSE
    BY <1>1, SMT
  <2>1. D * q <= D * (-2)
    BY <1>1, SMT
  <2> QED
    BY <1>1, <2>1, SMT
<1> QED
  BY <1>1, <1>2, <1>3 DEF q, r

\* Local time stays on a day of the calendar.
LEMMA LocalIsTime ==
  ASSUME NEW nTime, nTime.day \in Days, nTime.tick \in Ticks, NEW offset \in Offsets
  PROVE  /\ IsOffset(offset)
         /\ InCalendar(to_local(nTime, offset).day)
         /\ InDay(InstantMillis(to_local(nTime, offset).tick))
         /\ to_local(nTime, offset).tick \in Nat
         /\ to_local(nTime, offset).tick < TicksPerDay
<1>1. /\ nTime.day \in Int /\ -719527 <= nTime.day /\ nTime.day <= 2932895
      /\ nTime.tick \in Nat /\ nTime.tick < TicksPerDay /\ IsOffset(offset)
  <2>1. IsOffset(offset)
    BY TimesAssumption, SMT DEF IsOffset
  <2> QED
    BY <2>1, TimesAssumption, SMT
<1> DEFINE D == TicksPerDay
           x == nTime.tick + (1000 * TicksPerMilli) * offset
<1>2. D \in Nat /\ D # 0 /\ x \in Int /\ -D <= x /\ x < 2 * D
  <2> DEFINE T == TicksPerMilli
             o == T * offset
  <2>1. T \in Nat /\ T # 0
    BY TimesAssumption
  <2>2. offset \in Int /\ -86399 <= offset /\ offset <= 86399
    BY <1>1, SMT DEF IsOffset
  <2> HIDE DEF T
  <2>3. o \in Int /\ T * (-86399) <= o /\ o <= T * 86399
    BY <2>1, <2>2, SMT
  <2>4. (1000 * T) * offset = 1000 * o
    BY <2>1, <2>2, SMT
  <2> HIDE DEF o
  <2>5. D = 86400000 * T /\ x = nTime.tick + 1000 * o
    BY <2>4 DEF TicksPerDay, T
  <2> HIDE DEF D, x
  <2>6. nTime.tick \in Nat /\ nTime.tick < D
    BY <1>1 DEF D
  <2> QED
    BY <2>1, <2>3, <2>5, <2>6, SMT
<1>3. /\ to_local(nTime, offset).day = nTime.day + (x \div D)
      /\ to_local(nTime, offset).tick = x % D
  BY DEF to_local
<1> HIDE DEF x, D
<1>4. /\ x \div D \in Int /\ -1 <= x \div D /\ x \div D <= 1
      /\ x % D \in Nat /\ x % D < D
  BY <1>2, Shifted, Zenon
<1>5. InCalendar(to_local(nTime, offset).day)
  BY <1>1, <1>3, <1>4, SMT DEF InCalendar
<1>6. /\ to_local(nTime, offset).tick \in Nat
      /\ to_local(nTime, offset).tick < TicksPerDay
  BY <1>3, <1>4 DEF D
<1> QED
  BY <1>1, <1>5, <1>6, TickIsTime

-----------------------------------------------------------------------------
(* The invariant                                                           *)

\* The text is the last printer's answer for the arguments it was called with.
LastCall ==
  /\ printer = "integer" =>
       /\ value.n \in Values /\ value.min \in 1..4
       /\ sOutput = writeInteger(value.n, value.min)
  /\ printer = "utc" =>
       /\ value.day \in Days /\ value.tick \in Ticks
       /\ sOutput = toRfc3339Utc(value)
  /\ printer = "local" =>
       /\ value.day \in Days /\ value.tick \in Ticks /\ nOffset \in Offsets
       /\ sOutput = toRfc3339Local(value, nOffset)

LEMMA LastCallKept == LastCall /\ [Next]_vars => LastCall'
<1> SUFFICES ASSUME LastCall, [Next]_vars PROVE LastCall'
  OBVIOUS
<1>1. ASSUME NEW n \in Values, NEW nMinCiphers \in 1..4, PrintInteger(n, nMinCiphers)
      PROVE  LastCall'
  <2>1. /\ printer' = "integer" /\ value'.n = n /\ value'.min = nMinCiphers
        /\ sOutput' = writeInteger(n, nMinCiphers)
    BY <1>1 DEF PrintInteger
  <2> QED
    BY <2>1 DEF LastCall
<1>2. ASSUME NEW nTime \in TimePoint, PrintUtc(nTime) PROVE LastCall'
  <2>1. nTime.day \in Days /\ nTime.tick \in Ticks
    BY DEF TimePoint
  <2> QED
    BY <1>2, <2>1 DEF PrintUtc, LastCall
<1>3. ASSUME NEW nTime \in TimePoint, NEW offset \in Offsets, PrintLocal(nTime, offset)
      PROVE  LastCall'
  <2>1. nTime.day \in Days /\ nTime.tick \in Ticks
    BY DEF TimePoint
  <2> QED
    BY <1>3, <2>1 DEF PrintLocal, LastCall
<1>4. CASE UNCHANGED vars
  BY <1>4 DEF LastCall, vars
<1> QED
  BY <1>1, <1>2, <1>3, <1>4 DEF Next

LEMMA ValuesAreInts == \A n \in Values : n \in (-MaxInt)..MaxInt
  BY IntAssumption

\* After every call the text is what the printer makes of its arguments; the
\* invariants of the printers rest on it.
THEOREM LastCallHolds == Spec => []LastCall
<1>1. Init => LastCall
  BY DEF Init, LastCall
<1> QED
  BY <1>1, LastCallKept, PTL DEF Spec

\* writeInteger() writes the decimal numeral of every int but the least one.
THEOREM IntegerPrintedHolds == Spec => []IntegerPrinted
<1>1. LastCall => IntegerPrinted
  <2> SUFFICES ASSUME LastCall, printer = "integer" PROVE IntegerPrinted
    BY DEF IntegerPrinted
  <2>1. /\ value.n \in (-MaxInt)..MaxInt /\ value.min \in Nat
        /\ sOutput = writeInteger(value.n, value.min)
    <3>1. /\ value.n \in Values /\ value.min \in 1..4
          /\ sOutput = writeInteger(value.n, value.min)
      BY Zenon DEF LastCall
    <3>2. value.n \in (-MaxInt)..MaxInt
      BY <3>1, ValuesAreInts, Zenon
    <3>3. value.min \in Nat
      BY <3>1
    <3> QED
      BY <3>1, <3>2, <3>3, Zenon
  <2>2. IsNumeralOf(sOutput, value.n, value.min)
    BY <2>1, IntegerWritten, Zenon
  <2> DEFINE digits == IF value.n < 0 THEN Tail(sOutput) ELSE sOutput
  <2>3. IsNumber(digits)
    <3>1. digits \in Numerals
      BY <2>2 DEF IsNumeralOf
    <3> QED
      BY <3>1 DEF IsNumber, Numerals, ToSet
  <2> QED
    BY <2>2, <2>3, Zenon DEF IsNumeralOf, IntegerPrinted
<1> QED
  BY <1>1, LastCallHolds, PTL

\* The marks a shape is made of.
Marks == {"0", "-", " ", ":", ".", "+", "Z"}

DigitPlaces == {1, 2, 3, 4, 6, 7, 9, 10, 12, 13, 15, 16, 18, 19, 21, 22, 23}
SignPlaces == {5, 8, 11, 14, 17, 20}

LEMMA Places == \A i \in 1..23 : i \in DigitPlaces \/ i \in SignPlaces
<1>1. \A i \in 1..23 : i \in {1, 2, 3, 4, 6, 7, 9, 10, 12, 13, 15, 16, 18, 19, 21, 22, 23,
                              5, 8, 11, 14, 17, 20}
  OBVIOUS
<1> QED
  BY <1>1, Zenon DEF DigitPlaces, SignPlaces

LEMMA ShapeIs ==
  /\ StampShape \in Seq(Marks) /\ Len(StampShape) = 23
  /\ \A i \in DigitPlaces : StampShape[i] = "0"
  /\ StampShape[5] = "-" /\ StampShape[8] = "-" /\ StampShape[11] = " "
  /\ StampShape[14] = ":" /\ StampShape[17] = ":" /\ StampShape[20] = "."
<1>1. StampShape \in Seq({"0", "-", " ", ":", "."})
  BY DEF StampShape
<1>2. {"0", "-", " ", ":", "."} \subseteq Marks
  BY DEF Marks
<1>3. \A S, T : S \subseteq T => Seq(S) \subseteq Seq(T)
  OBVIOUS
<1>4. Len(StampShape) = 23
  BY DEF StampShape
<1>5. \A i \in DigitPlaces : StampShape[i] = "0"
  <2>1. /\ StampShape[1] = "0" /\ StampShape[2] = "0" /\ StampShape[3] = "0"
        /\ StampShape[4] = "0" /\ StampShape[6] = "0" /\ StampShape[7] = "0"
        /\ StampShape[9] = "0" /\ StampShape[10] = "0" /\ StampShape[12] = "0"
        /\ StampShape[13] = "0" /\ StampShape[15] = "0" /\ StampShape[16] = "0"
        /\ StampShape[18] = "0" /\ StampShape[19] = "0" /\ StampShape[21] = "0"
        /\ StampShape[22] = "0" /\ StampShape[23] = "0"
    BY DEF StampShape
  <2> QED
    BY <2>1, Zenon DEF DigitPlaces
<1>6. /\ StampShape[5] = "-" /\ StampShape[8] = "-" /\ StampShape[11] = " "
      /\ StampShape[14] = ":" /\ StampShape[17] = ":" /\ StampShape[20] = "."
  BY DEF StampShape
<1>7. StampShape \in Seq(Marks)
  BY <1>1, <1>2, <1>3, Zenon
<1> QED
  BY <1>4, <1>5, <1>6, <1>7

LEMMA ShapeJoined ==
  ASSUME NEW shape \in Seq(Marks), NEW zone \in Seq(Marks)
  PROVE  Len(shape) = 23 =>
         LET t == shape \o zone IN
         /\ t \in Seq(Marks) /\ Len(t) = 23 + Len(zone) /\ DOMAIN t = 1..Len(t)
         /\ \A i \in 1..23 : t[i] = shape[i]
         /\ \A i \in 1..Len(zone) : t[23 + i] = zone[i]
<1> DEFINE t == shape \o zone
<1>1. /\ t \in Seq(Marks) /\ Len(t) = Len(shape) + Len(zone)
      /\ \A i \in 1..Len(shape) : t[i] = shape[i]
      /\ \A i \in 1..Len(zone) : t[Len(shape) + i] = zone[i]
  BY Joined
<1> HIDE DEF t
<1>2. DOMAIN t = 1..Len(t)
  BY <1>1
<1> QED
  BY <1>1, <1>2, Zenon DEF t

LEMMA ZoneIs ==
  ASSUME NEW sign \in {"+", "-"}
  PROVE  LET zone == <<sign, "0", "0", ":", "0", "0">> IN
         /\ zone \in Seq(Marks) /\ Len(zone) = 6 /\ zone[1] = sign /\ zone[4] = ":"
         /\ zone[2] = "0" /\ zone[3] = "0" /\ zone[5] = "0" /\ zone[6] = "0"
<1>1. sign \in Marks /\ "0" \in Marks /\ ":" \in Marks
  BY DEF Marks
<1> QED
  BY <1>1

LEMMA BehindTheShape ==
  ASSUME NEW n \in Nat, NEW i \in 1..(23 + n)
  PROVE  i \in 1..23 \/ (i - 23 \in 1..n /\ 23 + (i - 23) = i)
<1>1. CASE i <= 23
  BY <1>1
<1>2. CASE ~(i <= 23)
  <2>1. i \in Int /\ 24 <= i /\ i <= 23 + n
    BY <1>2
  <2> QED
    BY <2>1
<1> QED
  BY <1>1, <1>2

LEMMA ShapeKept ==
  ASSUME NEW day, InCalendar(day), NEW milli, InDay(milli), sOutput \in Text,
         ShowsDate(sOutput, 0, year_month_day(day)), ShowsInstant(sOutput, 11, milli),
         NEW zone \in Seq(Marks), Len(sOutput) = 23 + Len(zone),
         \A i \in 1..Len(zone) :
           IF zone[i] = "0" THEN sOutput[23 + i] \in ToSet(Cipher)
           ELSE sOutput[23 + i] = zone[i]
  PROVE  HasShape(StampShape \o zone)
<1> DEFINE date == year_month_day(day)
<1>1. /\ \A i \in DigitPlaces : sOutput[i] \in ToSet(Cipher)
      /\ sOutput[5] = "-" /\ sOutput[8] = "-" /\ sOutput[11] = " "
      /\ sOutput[14] = ":" /\ sOutput[17] = ":" /\ sOutput[20] = "."
  BY PlacesRead, Zenon DEF DigitPlaces
<1> DEFINE C == ToSet(Cipher)
           shape == StampShape \o zone
<1> HIDE DEF date, C
<1>2. StampShape \in Seq(Marks) /\ Len(StampShape) = 23
  BY ShapeIs
<1>3. /\ shape \in Seq(Marks) /\ Len(shape) = 23 + Len(zone) /\ DOMAIN shape = 1..Len(shape)
      /\ \A i \in 1..23 : shape[i] = StampShape[i]
      /\ \A i \in 1..Len(zone) : shape[23 + i] = zone[i]
  BY <1>2, ShapeJoined
<1> HIDE DEF shape
<1>4. ASSUME NEW i \in 1..23
      PROVE  IF StampShape[i] = "0" THEN sOutput[i] \in C ELSE sOutput[i] = StampShape[i]
  <2>1. i \in DigitPlaces \/ i \in SignPlaces
    BY Places, Zenon
  <2>2. CASE i \in DigitPlaces
    BY <1>1, <2>2, ShapeIs, Zenon DEF C
  <2>3. CASE i \in SignPlaces
    <3>1. StampShape[i] # "0" /\ sOutput[i] = StampShape[i]
      BY <1>1, <2>3, ShapeIs, ZenonT(60) DEF SignPlaces
    <3> QED
      BY <3>1, Zenon
  <2> QED
    BY <2>1, <2>2, <2>3
<1>5. ASSUME NEW i \in DOMAIN shape
      PROVE  IF shape[i] = "0" THEN sOutput[i] \in C ELSE sOutput[i] = shape[i]
  <2>1. Len(zone) \in Nat /\ i \in 1..(23 + Len(zone))
    BY <1>3
  <2>2. CASE i \in 1..23
    BY <1>3, <1>4, <2>2, Zenon
  <2>3. CASE i - 23 \in 1..Len(zone) /\ 23 + (i - 23) = i
    BY <1>3, <2>3, ZenonT(60) DEF C
  <2> QED
    BY <2>1, <2>2, <2>3, BehindTheShape, Zenon
<1> QED
  BY <1>3, <1>5, Zenon DEF HasShape, shape, C

\* Every stamp of every time point of the years 0 to 9999, in every zone of
\* whole minutes, has the one shape.
THEOREM StampsWellFormedHolds == Spec => []StampsWellFormed
<1>1. ASSUME LastCall, printer = "utc" PROVE HasShape(StampShape \o <<"Z">>)
  <2>1. /\ value.day \in Days /\ value.tick \in Ticks
        /\ sOutput = toRfc3339Utc(value)
    BY <1>1, Zenon DEF LastCall
  <2>2. InCalendar(value.day) /\ InDay(InstantMillis(value.tick))
    BY <2>1, PointIsTime
  <2>3. /\ sOutput \in Text /\ Len(sOutput) = 24
        /\ ShowsDate(sOutput, 0, year_month_day(value.day))
        /\ ShowsInstant(sOutput, 11, InstantMillis(value.tick)) /\ sOutput[24] = "Z"
    BY <2>1, <2>2, UtcWritten, Zenon
  <2> DEFINE zone == <<"Z">>
  <2>4. /\ zone \in Seq(Marks) /\ Len(sOutput) = 23 + Len(zone)
        /\ \A i \in 1..Len(zone) :
             IF zone[i] = "0" THEN sOutput[23 + i] \in ToSet(Cipher)
             ELSE sOutput[23 + i] = zone[i]
    <3>1. zone \in Seq(Marks) /\ Len(zone) = 1 /\ zone[1] = "Z"
      BY DEF Marks
    <3>2. Len(sOutput) = 23 + 1 /\ sOutput[23 + 1] = "Z"
      BY <2>3
    <3>3. \A i \in 1..1 : i = 1
      OBVIOUS
    <3>4. "Z" # "0"
      OBVIOUS
    <3> QED
      BY <3>1, <3>2, <3>3, <3>4, Zenon
  <2> HIDE DEF zone
  <2>5. HasShape(StampShape \o zone)
    BY <2>2, <2>3, <2>4, ShapeKept, Zenon
  <2> QED
    BY <2>5 DEF zone
<1>2. ASSUME LastCall, printer = "local"
      PROVE  \E sign \in {"+", "-"} :
               HasShape(StampShape \o <<sign, "0", "0", ":", "0", "0">>)
  <2>1. /\ value.day \in Days /\ value.tick \in Ticks /\ nOffset \in Offsets
        /\ sOutput = toRfc3339Local(value, nOffset)
    BY <1>2, Zenon DEF LastCall
  <2> DEFINE local == to_local(value, nOffset)
  <2>2. InCalendar(local.day) /\ InDay(InstantMillis(local.tick)) /\ IsOffset(nOffset)
    BY <2>1, LocalIsTime
  <2>3. /\ sOutput \in Text /\ Len(sOutput) = 29
        /\ ShowsDate(sOutput, 0, year_month_day(local.day))
        /\ ShowsInstant(sOutput, 11, InstantMillis(local.tick)) /\ ShowsOffset(sOutput, 23, nOffset)
    BY <2>1, <2>2, LocalWritten, Zenon
  <2> HIDE DEF local
  <2> DEFINE sign == OffsetSign(nOffset)
             zone == <<sign, "0", "0", ":", "0", "0">>
  <2>4. sign \in {"+", "-"} /\ sign \in Signs /\ ":" \in Signs
    BY DEF OffsetSign, Signs
  <2>5. /\ sOutput[24] = sign /\ sOutput[27] = ":"
        /\ sOutput[25] \in ToSet(Cipher) /\ sOutput[26] \in ToSet(Cipher)
        /\ sOutput[28] \in ToSet(Cipher) /\ sOutput[29] \in ToSet(Cipher)
    <3>1. /\ Shows(sOutput, 23, <<sign>>) /\ Shows(sOutput, 23 + 3, <<":">>)
          /\ ShowsField(sOutput, 23 + 1, OffsetHours(nOffset), 2)
          /\ ShowsField(sOutput, 23 + 4, OffsetMinutes(nOffset), 2)
      BY <2>3, Zenon DEF ShowsOffset
    <3> HIDE DEF sign
    <3>2. sOutput[23 + 1] = sign /\ sOutput[(23 + 3) + 1] = ":"
      BY <2>3, <2>4, <3>1, CharacterRead
    <3>3. /\ \A i \in 1..2 : sOutput[(23 + 1) + i] \in ToSet(Cipher)
          /\ \A i \in 1..2 : sOutput[(23 + 4) + i] \in ToSet(Cipher)
      <4>1. 23 + 1 \in Nat /\ 23 + 4 \in Nat /\ 2 \in Nat
        OBVIOUS
      <4> QED
        BY <2>3, <3>1, <4>1, FieldRead, Zenon
    <3>4. /\ 1 \in 1..2 /\ 2 \in 1..2 /\ 23 + 1 = 24 /\ (23 + 3) + 1 = 27
          /\ (23 + 1) + 1 = 25 /\ (23 + 1) + 2 = 26
          /\ (23 + 4) + 1 = 28 /\ (23 + 4) + 2 = 29
      OBVIOUS
    <3> QED
      BY <3>2, <3>3, <3>4, Zenon
  <2> HIDE DEF sign
  <2> DEFINE C == ToSet(Cipher)
  <2> HIDE DEF C
  <2>6. /\ zone \in Seq(Marks) /\ Len(sOutput) = 23 + Len(zone)
        /\ \A i \in 1..Len(zone) :
             IF zone[i] = "0" THEN sOutput[23 + i] \in C
             ELSE sOutput[23 + i] = zone[i]
    <3>1. /\ zone \in Seq(Marks) /\ Len(zone) = 6 /\ zone[1] = sign /\ zone[4] = ":"
          /\ zone[2] = "0" /\ zone[3] = "0" /\ zone[5] = "0" /\ zone[6] = "0"
      BY <2>4, ZoneIs
    <3> HIDE DEF zone
    <3>2. Len(sOutput) = 23 + Len(zone) /\ sign # "0" /\ ":" # "0"
      BY <2>3, <2>4, <3>1
    <3>3. /\ sOutput[23 + 1] = sign /\ sOutput[23 + 4] = ":"
          /\ sOutput[23 + 2] \in C /\ sOutput[23 + 3] \in C
          /\ sOutput[23 + 5] \in C /\ sOutput[23 + 6] \in C
      BY <2>5 DEF C
    <3>4. \A i \in 1..6 : i \in {1, 2, 3, 4, 5, 6}
      OBVIOUS
    <3> QED
      BY <3>1, <3>2, <3>3, <3>4, ZenonT(60)
  <2> HIDE DEF zone
  <2>7. HasShape(StampShape \o zone)
    BY <2>2, <2>3, <2>6, ShapeKept, Zenon DEF C
  <2> QED
    BY <2>4, <2>7, Zenon DEF zone
<1>3. LastCall => StampsWellFormed
  BY <1>1, <1>2 DEF StampsWellFormed
<1> QED
  BY <1>3, LastCallHolds, PTL

\* Every stamp names the millisecond of the time point it was made from, however
\* short the ticks of the clock are.
THEOREM StampsNameTheTimeHolds == Spec => []StampsNameTheTime
<1>1. ASSUME LastCall, printer = "utc"
      PROVE  Names(value)
  <2>1. /\ value.day \in Days /\ value.tick \in Ticks
        /\ sOutput = toRfc3339Utc(value)
    BY <1>1, Zenon DEF LastCall
  <2>2. InCalendar(value.day) /\ InDay(InstantMillis(value.tick))
    BY <2>1, PointIsTime
  <2>3. /\ sOutput \in Text
        /\ ShowsDate(sOutput, 0, year_month_day(value.day))
        /\ ShowsInstant(sOutput, 11, InstantMillis(value.tick))
    BY <2>1, <2>2, UtcWritten, Zenon
  <2>4. PrintedDay = value.day /\ PrintedMilli = InstantMillis(value.tick)
    BY <2>2, <2>3, StampNames, Zenon
  <2>5. value.tick \in Nat /\ value.tick < TicksPerDay
    BY <2>1, PointIsTime
  <2> QED
    BY <2>4, <2>5, TickIsTime, Zenon DEF Names
<1>2. ASSUME LastCall, printer = "local"
      PROVE  Names(to_local(value, PrintedOffset))
  <2>1. /\ value.day \in Days /\ value.tick \in Ticks /\ nOffset \in Offsets
        /\ sOutput = toRfc3339Local(value, nOffset)
    BY <1>2, Zenon DEF LastCall
  <2> DEFINE local == to_local(value, nOffset)
  <2>2. /\ InCalendar(local.day) /\ InDay(InstantMillis(local.tick)) /\ IsOffset(nOffset)
        /\ local.tick \in Nat /\ local.tick < TicksPerDay
    BY <2>1, LocalIsTime
  <2>3. /\ sOutput \in Text
        /\ ShowsDate(sOutput, 0, year_month_day(local.day))
        /\ ShowsInstant(sOutput, 11, InstantMillis(local.tick)) /\ ShowsOffset(sOutput, 23, nOffset)
    BY <2>1, <2>2, LocalWritten, Zenon
  <2> HIDE DEF local
  <2>4. PrintedDay = local.day /\ PrintedMilli = InstantMillis(local.tick)
    BY <2>2, <2>3, StampNames, Zenon
  <2>5. PrintedOffset = nOffset
    BY <2>2, <2>3, OffsetNames, Zenon
  <2>6. Names(local)
    BY <2>2, <2>4, TickIsTime, Zenon DEF Names
  <2> QED
    BY <2>5, <2>6, Zenon DEF local
<1>3. LastCall => StampsNameTheTime
  BY <1>1, <1>2 DEF StampsNameTheTime
<1> QED
  BY <1>3, LastCallHolds, PTL

-----------------------------------------------------------------------------
(* The order of the stamps                                                 *)

\* The first character in which s and t differ is a digit, and s has the
\* smaller one.
SmallerAt(s, t, i) ==
  /\ \A j \in 1..(i - 1) : s[j] = t[j]
  /\ s[i] \in ToSet(Cipher) /\ t[i] \in ToSet(Cipher) /\ Digit(s[i]) < Digit(t[i])

LEMMA NextDigit ==
  ASSUME NEW x \in Nat, NEW y \in Nat, NEW d \in 0..9, NEW e \in 0..9
  PROVE  /\ x = y /\ d < e => 10 * x + d < 10 * y + e
         /\ x < y => 10 * x + d < 10 * y + e
  OBVIOUS

\* Of two numerals of one length the smaller at the first difference is the
\* smaller number.
LEMMA NumbersGrow ==
  ASSUME NEW f \in Numerals, NEW g \in Numerals, Len(f) = Len(g),
         NEW k \in 1..Len(f), SmallerAt(f, g, k)
  PROVE  Number(f) < Number(g)
<1> DEFINE F == ReadUpTo(f)
           H == ReadUpTo(g)
           S == {n \in Nat : n <= Len(f) => IF n < k THEN F[n] = H[n] ELSE F[n] < H[n]}
<1>1. Len(f) \in Nat /\ k \in Nat /\ 1 <= k /\ k <= Len(f)
  BY DEF Numerals
<1>2. /\ F[0] = 0 /\ H[0] = 0
      /\ \A i \in 0..Len(f) : F[i] \in Nat /\ H[i] \in Nat
      /\ \A i \in 1..Len(f) : F[i] = 10 * F[i - 1] + Digit(f[i])
      /\ \A i \in 1..Len(f) : H[i] = 10 * H[i - 1] + Digit(g[i])
  <2>1. /\ F[0] = 0 /\ \A i \in 0..Len(f) : F[i] \in Nat
        /\ \A i \in 1..Len(f) : F[i] = 10 * F[i - 1] + Digit(f[i])
    BY ReadUpToIs, Zenon
  <2>2. /\ H[0] = 0 /\ \A i \in 0..Len(g) : H[i] \in Nat
        /\ \A i \in 1..Len(g) : H[i] = 10 * H[i - 1] + Digit(g[i])
    BY ReadUpToIs, Zenon
  <2> HIDE DEF F, H
  <2> QED
    BY <2>1, <2>2
<1>3. \A i \in 1..Len(f) : Digit(f[i]) \in 0..9 /\ Digit(g[i]) \in 0..9
  <2>1. \A i \in 1..Len(f) : f[i] \in ToSet(Cipher) /\ g[i] \in ToSet(Cipher)
    BY DEF Numerals
  <2> QED
    BY <2>1, DigitIs, Zenon
<1>4. /\ \A j \in 1..(k - 1) : f[j] = g[j]
      /\ Digit(f[k]) < Digit(g[k])
  BY Zenon DEF SmallerAt
<1> HIDE DEF F, H
<1>5. 0 \in S
  BY <1>1, <1>2
<1>6. ASSUME NEW n \in S PROVE n + 1 \in S
  <2>1. n \in Nat
    OBVIOUS
  <2>2. ASSUME n + 1 <= Len(f)
        PROVE  IF n + 1 < k THEN F[n + 1] = H[n + 1] ELSE F[n + 1] < H[n + 1]
    <3>1. /\ n + 1 \in 1..Len(f) /\ n \in 0..Len(f) /\ n <= Len(f) /\ (n + 1) - 1 = n
      BY <1>1, <2>1, <2>2
    <3>2. /\ F[n + 1] = 10 * F[n] + Digit(f[n + 1])
          /\ H[n + 1] = 10 * H[n] + Digit(g[n + 1])
          /\ F[n] \in Nat /\ H[n] \in Nat
          /\ Digit(f[n + 1]) \in 0..9 /\ Digit(g[n + 1]) \in 0..9
      BY <1>2, <1>3, <3>1, Zenon
    <3>3. IF n < k THEN F[n] = H[n] ELSE F[n] < H[n]
      BY <3>1
    <3> HIDE DEF S
    <3>4. CASE n + 1 < k
      <4>1. n + 1 \in 1..(k - 1) /\ n < k
        BY <1>1, <2>1, <3>4
      <4>2. F[n] = H[n] /\ f[n + 1] = g[n + 1]
        BY <1>4, <3>3, <4>1, Zenon
      <4>3. F[n + 1] = H[n + 1]
        BY <3>2, <4>2, Zenon
      <4> QED
        BY <3>4, <4>3, Zenon
    <3>5. CASE n + 1 = k
      <4>1. n < k /\ ~(n + 1 < k)
        BY <1>1, <2>1, <3>5
      <4>2. F[n] = H[n] /\ Digit(f[n + 1]) < Digit(g[n + 1])
        BY <1>4, <3>3, <3>5, <4>1, Zenon
      <4>3. F[n + 1] < H[n + 1]
        BY <3>2, <4>2, NextDigit, Zenon
      <4> QED
        BY <4>1, <4>3, Zenon
    <3>6. CASE n >= k
      <4>1. ~(n < k) /\ ~(n + 1 < k)
        BY <1>1, <2>1, <3>6
      <4>2. F[n + 1] < H[n + 1]
        BY <3>2, <3>3, <4>1, NextDigit, Zenon
      <4> QED
        BY <4>1, <4>2, Zenon
    <3> QED
      BY <1>1, <2>1, <3>4, <3>5, <3>6
  <2> QED
    BY <2>1, <2>2
<1>7. S = Nat
  <2>1. S \in SUBSET Nat
    OBVIOUS
  <2> HIDE DEF S
  <2> QED
    BY <1>5, <1>6, <2>1, SetInduction
<1>8. F[Len(f)] < H[Len(f)]
  BY <1>1, <1>7
<1> QED
  BY <1>8, Zenon DEF Number, F, H

\* The fields before the first difference are the same, and the field it is
\* in shows the smaller number.
LEMMA FieldOrder ==
  ASSUME NEW s \in Text, NEW t \in Text, NEW a \in Nat, NEW b \in Nat,
         1 <= a, a <= b, b <= Len(s), b <= Len(t),
         \A j \in a..b : s[j] \in ToSet(Cipher) /\ t[j] \in ToSet(Cipher),
         NEW i \in Nat, SmallerAt(s, t, i)
  PROVE  /\ b < i => Number(SubSeq(s, a, b)) = Number(SubSeq(t, a, b))
         /\ a <= i /\ i <= b => Number(SubSeq(s, a, b)) < Number(SubSeq(t, a, b))
<1> DEFINE n == b - a + 1
           f == SubSeq(s, a, b)
           g == SubSeq(t, a, b)
<1>1. n \in Nat /\ Len(s) \in Nat /\ Len(t) \in Nat
  BY DEF Text
<1>2. /\ Len(f) = n /\ f \in Text /\ \A j \in 1..n : f[j] = s[a + j - 1]
      /\ Len(g) = n /\ g \in Text /\ \A j \in 1..n : g[j] = t[a + j - 1]
  BY <1>1 DEF Text
<1> HIDE DEF f, g
<1>3. \A j \in 1..n : a + j - 1 \in a..b
  BY <1>1
<1>4. f \in Numerals /\ g \in Numerals
  <2>1. \A j \in 1..n : f[j] \in ToSet(Cipher) /\ g[j] \in ToSet(Cipher)
    BY <1>2, <1>3, Zenon
  <2>2. \A C, D : \A h \in Seq(C) : (\A j \in 1..Len(h) : h[j] \in D) => h \in Seq(D)
    OBVIOUS
  <2> QED
    BY <1>2, <2>1, <2>2, Zenon DEF Text, Numerals
<1>5. ASSUME b < i PROVE Number(f) = Number(g)
  <2>1. \A j \in 1..n : a + j - 1 \in 1..(i - 1)
    BY <1>1, <1>5
  <2>2. \A j \in 1..n : f[j] = g[j]
    BY <1>2, <2>1, Zenon DEF SmallerAt
  <2>3. f = g
    BY <1>2, <2>2, SameText, Zenon
  <2> QED
    BY <2>3, Zenon
<1>6. ASSUME a <= i, i <= b PROVE Number(f) < Number(g)
  <2> DEFINE k == i - a + 1
  <2>1. k \in 1..n /\ a + k - 1 = i
    BY <1>1, <1>6
  <2>2. \A j \in 1..(k - 1) : j \in 1..n /\ a + j - 1 \in 1..(i - 1)
    BY <1>1, <1>6
  <2> HIDE DEF k
  <2>3. \A j \in 1..(k - 1) : f[j] = g[j]
    BY <1>2, <2>2, Zenon DEF SmallerAt
  <2>4. f[k] = s[i] /\ g[k] = t[i]
    BY <1>2, <2>1, Zenon
  <2>5. SmallerAt(f, g, k)
    BY <2>3, <2>4, Zenon DEF SmallerAt
  <2> QED
    BY <1>2, <1>4, <2>1, <2>5, NumbersGrow, Zenon
<1> QED
  BY <1>5, <1>6 DEF f, g

\* The stamp in UTC of a day and a millisecond.
IsStamp(text, day, milli) ==
  /\ InCalendar(day) /\ InDay(milli)
  /\ text \in Text /\ Len(text) = 24 /\ text[24] = "Z"
  /\ ShowsDate(text, 0, year_month_day(day)) /\ ShowsInstant(text, 11, milli)

LEMMA StampIs ==
  ASSUME NEW text, NEW day, NEW milli, IsStamp(text, day, milli)
  PROVE  /\ text \in Text /\ Len(text) = 24 /\ text[24] = "Z"
         /\ \A i \in DigitPlaces : text[i] \in ToSet(Cipher)
         /\ text[5] = "-" /\ text[8] = "-" /\ text[11] = " "
         /\ text[14] = ":" /\ text[17] = ":" /\ text[20] = "."
         /\ IsDate(DateAt(text).year, DateAt(text).month, DateAt(text).day)
         /\ DayNumber(DateAt(text).year, DateAt(text).month, DateAt(text).day) = day
         /\ InstantAt(text).hour = Hour(milli) /\ InstantAt(text).minute = Minute(milli)
         /\ InstantAt(text).second = Second(milli)
         /\ InstantAt(text).subsecond = Subsecond(milli)
<1> DEFINE date == year_month_day(day)
<1>1. /\ InCalendar(day) /\ InDay(milli)
      /\ text \in Text /\ Len(text) = 24 /\ text[24] = "Z"
      /\ ShowsDate(text, 0, date) /\ ShowsInstant(text, 11, milli)
  BY Zenon DEF IsStamp
<1>2. /\ IsDate(date.year, date.month, date.day)
      /\ DayNumber(date.year, date.month, date.day) = day
  BY <1>1, DateNamesDay
<1> HIDE DEF date
<1>3. /\ \A i \in DigitPlaces : text[i] \in ToSet(Cipher)
      /\ text[5] = "-" /\ text[8] = "-" /\ text[11] = " "
      /\ text[14] = ":" /\ text[17] = ":" /\ text[20] = "."
      /\ DateAt(text).year = date.year /\ DateAt(text).month = date.month
      /\ DateAt(text).day = date.day
      /\ InstantAt(text) = [hour |-> Hour(milli), minute |-> Minute(milli),
                            second |-> Second(milli), subsecond |-> Subsecond(milli)]
  BY <1>1, PlacesRead, ZenonT(60) DEF DigitPlaces
<1>4. /\ InstantAt(text).hour = Hour(milli) /\ InstantAt(text).minute = Minute(milli)
      /\ InstantAt(text).second = Second(milli)
      /\ InstantAt(text).subsecond = Subsecond(milli)
  <2>1. InstantAt(text) = [hour |-> Hour(milli), minute |-> Minute(milli),
                           second |-> Second(milli), subsecond |-> Subsecond(milli)]
    BY <1>3, Zenon
  <2> QED
    BY <2>1
<1> QED
  BY <1>1, <1>2, <1>3, <1>4, Zenon

\* Of two times of the day the one with the smaller first different part is
\* the earlier.
LEMMA InstantsGrow ==
  ASSUME NEW milli, InDay(milli), NEW milli2, InDay(milli2),
         \/ Hour(milli) < Hour(milli2)
         \/ Hour(milli) = Hour(milli2) /\ Minute(milli) < Minute(milli2)
         \/ /\ Hour(milli) = Hour(milli2) /\ Minute(milli) = Minute(milli2)
            /\ Second(milli) < Second(milli2)
         \/ /\ Hour(milli) = Hour(milli2) /\ Minute(milli) = Minute(milli2)
            /\ Second(milli) = Second(milli2) /\ Subsecond(milli) < Subsecond(milli2)
  PROVE  milli < milli2
<1>1. ASSUME NEW m, InDay(m)
      PROVE  /\ 1000 * (3600 * Hour(m) + 60 * Minute(m) + Second(m)) + Subsecond(m) = m
             /\ Hour(m) \in Nat /\ Minute(m) \in Nat /\ Second(m) \in Nat
             /\ Subsecond(m) \in Nat
             /\ Minute(m) <= 59 /\ Second(m) <= 59 /\ Subsecond(m) <= 999
  <2>1. Minute(m) <= 59 /\ Second(m) <= 59 /\ Subsecond(m) <= 999
    BY <1>1, SMT DEF InDay, Minute, Second, Subsecond
  <2> QED
    BY <1>1, <2>1, InstantParts
<1>2. /\ 1000 * (3600 * Hour(milli) + 60 * Minute(milli) + Second(milli))
           + Subsecond(milli) = milli
      /\ Hour(milli) \in Nat /\ Minute(milli) \in Nat /\ Second(milli) \in Nat
      /\ Subsecond(milli) \in Nat
      /\ Minute(milli) <= 59 /\ Second(milli) <= 59 /\ Subsecond(milli) <= 999
  BY <1>1
<1>3. /\ 1000 * (3600 * Hour(milli2) + 60 * Minute(milli2) + Second(milli2))
           + Subsecond(milli2) = milli2
      /\ Hour(milli2) \in Nat /\ Minute(milli2) \in Nat /\ Second(milli2) \in Nat
      /\ Subsecond(milli2) \in Nat
      /\ Minute(milli2) <= 59 /\ Second(milli2) <= 59 /\ Subsecond(milli2) <= 999
  BY <1>1
<1> QED
  BY <1>2, <1>3, SMT

\* Of two stamps the one with the smaller first different digit is of the
\* earlier time.
LEMMA StampsGrow ==
  ASSUME NEW s, NEW day, NEW milli, IsStamp(s, day, milli),
         NEW t, NEW day2, NEW milli2, IsStamp(t, day2, milli2),
         NEW i \in DigitPlaces, SmallerAt(s, t, i)
  PROVE  day < day2 \/ (day = day2 /\ milli < milli2)
<1> DEFINE Same(a, b) == Number(SubSeq(s, a, b)) = Number(SubSeq(t, a, b))
           Less(a, b) == Number(SubSeq(s, a, b)) < Number(SubSeq(t, a, b))
<1>1. ASSUME NEW a \in DigitPlaces, NEW b \in DigitPlaces, a <= b, a..b \subseteq DigitPlaces
      PROVE  (b < i => Same(a, b)) /\ (a <= i /\ i <= b => Less(a, b))
  <2>1. /\ s \in Text /\ t \in Text /\ Len(s) = 24 /\ Len(t) = 24
        /\ \A j \in a..b : s[j] \in ToSet(Cipher) /\ t[j] \in ToSet(Cipher)
    BY <1>1, StampIs, ZenonT(60)
  <2>2. a \in Nat /\ b \in Nat /\ 1 <= a /\ b <= 24 /\ i \in Nat
    BY DEF DigitPlaces
  <2> QED
    BY <1>1, <2>1, <2>2, FieldOrder
<1> HIDE DEF Same, Less
<1>2. /\ 4 < i => Same(1, 4)
      /\ 1 <= i /\ i <= 4 => Less(1, 4)
  BY <1>1 DEF DigitPlaces
<1>3. /\ 7 < i => Same(6, 7)
      /\ 6 <= i /\ i <= 7 => Less(6, 7)
  BY <1>1 DEF DigitPlaces
<1>4. /\ 10 < i => Same(9, 10)
      /\ 9 <= i /\ i <= 10 => Less(9, 10)
  BY <1>1 DEF DigitPlaces
<1>5. /\ 13 < i => Same(12, 13)
      /\ 12 <= i /\ i <= 13 => Less(12, 13)
  BY <1>1 DEF DigitPlaces
<1>6. /\ 16 < i => Same(15, 16)
      /\ 15 <= i /\ i <= 16 => Less(15, 16)
  BY <1>1 DEF DigitPlaces
<1>7. /\ 19 < i => Same(18, 19)
      /\ 18 <= i /\ i <= 19 => Less(18, 19)
  BY <1>1 DEF DigitPlaces
<1>8. /\ 23 < i => Same(21, 23)
      /\ 21 <= i /\ i <= 23 => Less(21, 23)
  BY <1>1 DEF DigitPlaces
<1>9. \/ Less(1, 4)
      \/ Same(1, 4) /\ Less(6, 7)
      \/ Same(1, 4) /\ Same(6, 7) /\ Less(9, 10)
      \/ /\ Same(1, 4) /\ Same(6, 7) /\ Same(9, 10)
         /\ \/ Less(12, 13)
            \/ Same(12, 13) /\ Less(15, 16)
            \/ Same(12, 13) /\ Same(15, 16) /\ Less(18, 19)
            \/ Same(12, 13) /\ Same(15, 16) /\ Same(18, 19) /\ Less(21, 23)
  <2>1. CASE i <= 4
    <3>1. 1 <= i /\ i <= 4
      BY <2>1 DEF DigitPlaces
    <3> QED
      BY <1>2, <3>1, Zenon
  <2>2. CASE 4 < i /\ i <= 7
    <3>1. 4 < i /\ 6 <= i /\ i <= 7
      BY <2>2 DEF DigitPlaces
    <3> QED
      BY <1>2, <1>3, <3>1, Zenon
  <2>3. CASE 7 < i /\ i <= 10
    <3>1. 4 < i /\ 7 < i /\ 9 <= i /\ i <= 10
      BY <2>3 DEF DigitPlaces
    <3> QED
      BY <1>2, <1>3, <1>4, <3>1, Zenon
  <2>4. CASE 10 < i /\ i <= 13
    <3>1. 4 < i /\ 7 < i /\ 10 < i /\ 12 <= i /\ i <= 13
      BY <2>4 DEF DigitPlaces
    <3> QED
      BY <1>2, <1>3, <1>4, <1>5, <3>1, Zenon
  <2>5. CASE 13 < i /\ i <= 16
    <3>1. 4 < i /\ 7 < i /\ 10 < i /\ 13 < i /\ 15 <= i /\ i <= 16
      BY <2>5 DEF DigitPlaces
    <3> QED
      BY <1>2, <1>3, <1>4, <1>5, <1>6, <3>1, Zenon
  <2>6. CASE 16 < i /\ i <= 19
    <3>1. /\ 4 < i /\ 7 < i /\ 10 < i
          /\ 13 < i /\ 16 < i /\ 18 <= i /\ i <= 19
      BY <2>6 DEF DigitPlaces
    <3> QED
      BY <1>2, <1>3, <1>4, <1>5, <1>6, <1>7, <3>1, Zenon
  <2>7. CASE 19 < i
    <3>1. /\ 4 < i /\ 7 < i /\ 10 < i /\ 13 < i
          /\ 16 < i /\ 19 < i /\ 21 <= i /\ i <= 23
      BY <2>7 DEF DigitPlaces
    <3> QED
      BY <1>2, <1>3, <1>4, <1>5, <1>6, <1>7, <1>8, <3>1, Zenon
  <2>8. i \in Nat
    BY DEF DigitPlaces
  <2> QED
    BY <2>1, <2>2, <2>3, <2>4, <2>5, <2>6, <2>7, <2>8
<1>10. /\ InDay(milli) /\ IsDate(DateAt(s).year, DateAt(s).month, DateAt(s).day)
       /\ DayNumber(DateAt(s).year, DateAt(s).month, DateAt(s).day) = day
       /\ InstantAt(s).hour = Hour(milli) /\ InstantAt(s).minute = Minute(milli)
       /\ InstantAt(s).second = Second(milli) /\ InstantAt(s).subsecond = Subsecond(milli)
  <2>1. IsStamp(s, day, milli)
    OBVIOUS
  <2>2. InDay(milli)
    BY <2>1, Zenon DEF IsStamp
  <2> QED
    BY <2>1, <2>2, StampIs, ZenonT(60)
<1>11. /\ InDay(milli2) /\ IsDate(DateAt(t).year, DateAt(t).month, DateAt(t).day)
       /\ DayNumber(DateAt(t).year, DateAt(t).month, DateAt(t).day) = day2
       /\ InstantAt(t).hour = Hour(milli2) /\ InstantAt(t).minute = Minute(milli2)
       /\ InstantAt(t).second = Second(milli2) /\ InstantAt(t).subsecond = Subsecond(milli2)
  <2>1. IsStamp(t, day2, milli2)
    OBVIOUS
  <2>2. InDay(milli2)
    BY <2>1, Zenon DEF IsStamp
  <2> QED
    BY <2>1, <2>2, StampIs, ZenonT(60)
<1>12. /\ Same(1, 4) <=> DateAt(s).year = DateAt(t).year
       /\ Less(1, 4) <=> DateAt(s).year < DateAt(t).year
       /\ Same(6, 7) <=> DateAt(s).month = DateAt(t).month
       /\ Less(6, 7) <=> DateAt(s).month < DateAt(t).month
       /\ Same(9, 10) <=> DateAt(s).day = DateAt(t).day
       /\ Less(9, 10) <=> DateAt(s).day < DateAt(t).day
  BY DEF DateAt, Same, Less
<1>13. /\ Same(12, 13) <=> InstantAt(s).hour = InstantAt(t).hour
       /\ Less(12, 13) <=> InstantAt(s).hour < InstantAt(t).hour
       /\ Same(15, 16) <=> InstantAt(s).minute = InstantAt(t).minute
       /\ Less(15, 16) <=> InstantAt(s).minute < InstantAt(t).minute
       /\ Same(18, 19) <=> InstantAt(s).second = InstantAt(t).second
       /\ Less(18, 19) <=> InstantAt(s).second < InstantAt(t).second
       /\ Less(21, 23) <=> InstantAt(s).subsecond < InstantAt(t).subsecond
  BY DEF InstantAt, Same, Less
<1>14. /\ InstantAt(s).hour = Hour(milli) /\ InstantAt(s).minute = Minute(milli)
       /\ InstantAt(s).second = Second(milli) /\ InstantAt(s).subsecond = Subsecond(milli)
       /\ InstantAt(t).hour = Hour(milli2) /\ InstantAt(t).minute = Minute(milli2)
       /\ InstantAt(t).second = Second(milli2) /\ InstantAt(t).subsecond = Subsecond(milli2)
  BY <1>10, <1>11, Zenon
<1>15. CASE \/ Less(1, 4)
            \/ Same(1, 4) /\ Less(6, 7)
            \/ Same(1, 4) /\ Same(6, 7) /\ Less(9, 10)
  <2>1. DayNumber(DateAt(s).year, DateAt(s).month, DateAt(s).day)
          < DayNumber(DateAt(t).year, DateAt(t).month, DateAt(t).day)
    BY <1>10, <1>11, <1>12, <1>15, DaysGrow, Zenon
  <2> QED
    BY <1>10, <1>11, <2>1, Zenon
<1>16. CASE /\ Same(1, 4) /\ Same(6, 7) /\ Same(9, 10)
            /\ \/ Less(12, 13)
               \/ Same(12, 13) /\ Less(15, 16)
               \/ Same(12, 13) /\ Same(15, 16) /\ Less(18, 19)
               \/ Same(12, 13) /\ Same(15, 16) /\ Same(18, 19) /\ Less(21, 23)
  <2>1. day = day2
    BY <1>10, <1>11, <1>12, <1>16, Zenon
  <2>2. milli < milli2
    BY <1>10, <1>11, <1>13, <1>14, <1>16, InstantsGrow, Zenon
  <2> QED
    BY <2>1, <2>2, Zenon
<1> QED
  BY <1>9, <1>15, <1>16

LEMMA PrefixIs ==
  ASSUME NEW s \in Text, NEW n \in Nat, n <= Len(s)
  PROVE  LET u == SubSeq(s, 1, n) IN
         u \in Text /\ Len(u) = n /\ \A j \in 1..n : u[j] = s[j]
<1>1. Len(s) \in Nat
  BY DEF Text
<1> QED
  BY <1>1 DEF Text

\* Of two stamps of different times the earlier has the smaller first
\* different digit.
LEMMA StampsInOrder ==
  ASSUME NEW s, NEW day, NEW milli, IsStamp(s, day, milli),
         NEW t, NEW day2, NEW milli2, IsStamp(t, day2, milli2),
         day < day2 \/ (day = day2 /\ milli < milli2)
  PROVE  \E i \in DOMAIN s \cap DOMAIN t :
           /\ SubSeq(s, 1, i - 1) = SubSeq(t, 1, i - 1)
           /\ {s[i], t[i]} \subseteq ToSet(Cipher)
           /\ Digit(s[i]) < Digit(t[i])
<1>1. /\ s \in Text /\ t \in Text /\ Len(s) = 24 /\ Len(t) = 24
      /\ \A i \in DigitPlaces : s[i] \in ToSet(Cipher) /\ t[i] \in ToSet(Cipher)
      /\ s[5] = t[5] /\ s[8] = t[8] /\ s[11] = t[11] /\ s[14] = t[14]
      /\ s[17] = t[17] /\ s[20] = t[20] /\ s[24] = t[24]
  <2>1. /\ s \in Text /\ Len(s) = 24 /\ s[24] = "Z"
        /\ \A i \in DigitPlaces : s[i] \in ToSet(Cipher)
        /\ s[5] = "-" /\ s[8] = "-" /\ s[11] = " "
        /\ s[14] = ":" /\ s[17] = ":" /\ s[20] = "."
    BY StampIs, ZenonT(60)
  <2>2. /\ t \in Text /\ Len(t) = 24 /\ t[24] = "Z"
        /\ \A i \in DigitPlaces : t[i] \in ToSet(Cipher)
        /\ t[5] = "-" /\ t[8] = "-" /\ t[11] = " "
        /\ t[14] = ":" /\ t[17] = ":" /\ t[20] = "."
    BY StampIs, ZenonT(60)
  <2> QED
    BY <2>1, <2>2, Zenon
<1>2. /\ day \in Int /\ day2 \in Int /\ milli \in Int /\ milli2 \in Int
      /\ InDay(milli) /\ InDay(milli2)
  BY DEF IsStamp, InCalendar, InDay
<1>3. s # t
  <2> SUFFICES ASSUME s = t PROVE FALSE
    OBVIOUS
  <2>1. /\ DayNumber(DateAt(s).year, DateAt(s).month, DateAt(s).day) = day
        /\ DayNumber(DateAt(s).year, DateAt(s).month, DateAt(s).day) = day2
        /\ Hour(milli) = Hour(milli2) /\ Minute(milli) = Minute(milli2)
        /\ Second(milli) = Second(milli2) /\ Subsecond(milli) = Subsecond(milli2)
    <3>1. IsStamp(s, day2, milli2)
      BY Zenon
    <3>2. /\ DayNumber(DateAt(s).year, DateAt(s).month, DateAt(s).day) = day
          /\ InstantAt(s).hour = Hour(milli) /\ InstantAt(s).minute = Minute(milli)
          /\ InstantAt(s).second = Second(milli)
          /\ InstantAt(s).subsecond = Subsecond(milli)
      BY StampIs, ZenonT(60)
    <3>3. /\ DayNumber(DateAt(s).year, DateAt(s).month, DateAt(s).day) = day2
          /\ InstantAt(s).hour = Hour(milli2) /\ InstantAt(s).minute = Minute(milli2)
          /\ InstantAt(s).second = Second(milli2)
          /\ InstantAt(s).subsecond = Subsecond(milli2)
      BY <3>1, StampIs, ZenonT(60)
    <3> QED
      BY <3>2, <3>3, Zenon
  <2>2. /\ 1000 * (3600 * Hour(milli) + 60 * Minute(milli) + Second(milli))
             + Subsecond(milli) = milli
        /\ 1000 * (3600 * Hour(milli2) + 60 * Minute(milli2) + Second(milli2))
             + Subsecond(milli2) = milli2
    BY <1>2, InstantParts
  <2>3. day = day2 /\ milli = milli2
    BY <2>1, <2>2
  <2> QED
    BY <1>2, <2>3
<1> DEFINE D == {i \in Nat : i \in 1..24 /\ s[i] # t[i]}
<1>4. D # {}
  <2>1. D = {} => \A i \in 1..Len(t) : s[i] = t[i]
    BY <1>1
  <2> HIDE DEF D
  <2> QED
    BY <1>1, <1>3, <2>1, SameText, ZenonT(60)
<1>5. PICK i \in D : \A k \in D : i <= k
  <2>1. D \in SUBSET Nat
    OBVIOUS
  <2> HIDE DEF D
  <2> QED
    BY <1>4, <2>1, Smallest
<1>6. i \in 1..24 /\ i \in Nat /\ s[i] # t[i]
  BY <1>5
<1>7. \A j \in 1..(i - 1) : s[j] = t[j]
  <2> SUFFICES ASSUME NEW j \in 1..(i - 1), s[j] # t[j] PROVE FALSE
    OBVIOUS
  <2>1. j \in Nat /\ j \in 1..24 /\ ~(i <= j)
    BY <1>6
  <2> QED
    BY <1>5, <2>1
<1> HIDE DEF D
<1>8. i \in DigitPlaces
  <2>1. i \in 1..23 \/ i = 24
    BY <1>6
  <2>2. i \in DigitPlaces \/ i \in SignPlaces
    BY <1>1, <1>6, <2>1, Places, Zenon
  <2> QED
    BY <1>1, <1>6, <2>2, Zenon DEF SignPlaces
<1>9. /\ s[i] \in ToSet(Cipher) /\ t[i] \in ToSet(Cipher)
      /\ Digit(s[i]) \in 0..9 /\ Digit(t[i]) \in 0..9
      /\ Digit(s[i]) # Digit(t[i])
  <2>1. s[i] \in ToSet(Cipher) /\ t[i] \in ToSet(Cipher)
    BY <1>1, <1>8, Zenon
  <2>2. /\ Digit(s[i]) \in 0..9 /\ Cipher[Digit(s[i]) + 1] = s[i]
        /\ Digit(t[i]) \in 0..9 /\ Cipher[Digit(t[i]) + 1] = t[i]
    BY <2>1, DigitIs, Zenon
  <2> QED
    BY <1>6, <2>1, <2>2, Zenon
<1>10. ~(Digit(t[i]) < Digit(s[i]))
  <2> SUFFICES ASSUME Digit(t[i]) < Digit(s[i]) PROVE FALSE
    OBVIOUS
  <2>1. SmallerAt(t, s, i)
    BY <1>7, <1>9, Zenon DEF SmallerAt
  <2>2. day2 < day \/ (day2 = day /\ milli2 < milli)
    BY <1>8, <2>1, StampsGrow, Zenon
  <2> QED
    BY <1>2, <2>2
<1>11. Digit(s[i]) < Digit(t[i])
  BY <1>9, <1>10
<1>12. SubSeq(s, 1, i - 1) = SubSeq(t, 1, i - 1)
  <2> DEFINE u == SubSeq(s, 1, i - 1)
             v == SubSeq(t, 1, i - 1)
  <2>1. /\ u \in Text /\ Len(u) = i - 1 /\ \A j \in 1..(i - 1) : u[j] = s[j]
        /\ v \in Text /\ Len(v) = i - 1 /\ \A j \in 1..(i - 1) : v[j] = t[j]
    <3>1. i - 1 \in Nat /\ i - 1 <= Len(s) /\ i - 1 <= Len(t)
      BY <1>1, <1>6
    <3> QED
      BY <1>1, <3>1, PrefixIs
  <2> HIDE DEF u, v
  <2>2. u = v
    BY <1>7, <2>1, SameText, Zenon
  <2> QED
    BY <2>2 DEF u, v
<1>13. i \in DOMAIN s \cap DOMAIN t
  BY <1>1, <1>6 DEF Text
<1> QED
  BY <1>9, <1>11, <1>12, <1>13, Zenon

\* Of two stamps in UTC the earlier is smaller as text, whatever the dates, unless
\* both times lie in one millisecond.
THEOREM StampsSortHolds == Spec => StampsSort
<1> DEFINE Ordered ==
      printer = "utc" /\ printer' = "utc"
        /\ Earlier(value, value')
      => \/ \E i \in DOMAIN sOutput \cap DOMAIN sOutput' :
              /\ SubSeq(sOutput, 1, i - 1) = SubSeq(sOutput', 1, i - 1)
              /\ {sOutput[i], sOutput'[i]} \subseteq ToSet(Cipher)
              /\ Digit(sOutput[i]) < Digit(sOutput'[i])
         \/ /\ sOutput = sOutput'
            /\ value.day = value'.day
            /\ value'.tick - value.tick < TicksPerMilli
<1>1. LastCall /\ printer = "utc" => IsStamp(sOutput, value.day, InstantMillis(value.tick))
  <2> SUFFICES ASSUME LastCall, printer = "utc"
               PROVE  IsStamp(sOutput, value.day, InstantMillis(value.tick))
    OBVIOUS
  <2>1. /\ value.day \in Days /\ value.tick \in Ticks
        /\ sOutput = toRfc3339Utc(value)
    BY Zenon DEF LastCall
  <2>2. InCalendar(value.day) /\ InDay(InstantMillis(value.tick))
    BY <2>1, PointIsTime
  <2> QED
    BY <2>1, <2>2, UtcWritten, Zenon DEF IsStamp
<1>2. LastCall' /\ printer' = "utc" => IsStamp(sOutput', value'.day, InstantMillis(value'.tick))
  <2> SUFFICES ASSUME LastCall', printer' = "utc"
               PROVE  IsStamp(sOutput', value'.day, InstantMillis(value'.tick))
    OBVIOUS
  <2>1. /\ value'.day \in Days /\ value'.tick \in Ticks
        /\ sOutput' = toRfc3339Utc(value')
    BY Zenon DEF LastCall
  <2>2. InCalendar(value'.day) /\ InDay(InstantMillis(value'.tick))
    BY <2>1, PointIsTime
  <2> QED
    BY <2>1, <2>2, UtcWritten, Zenon DEF IsStamp
<1>3. LastCall /\ LastCall' => Ordered
  <2> SUFFICES ASSUME LastCall, LastCall', printer = "utc", printer' = "utc",
                      Earlier(value, value')
               PROVE  Ordered
    OBVIOUS
  <2>1. /\ value.day \in Days /\ value.tick \in Ticks /\ sOutput = toRfc3339Utc(value)
        /\ value'.day \in Days /\ value'.tick \in Ticks
        /\ sOutput' = toRfc3339Utc(value')
    BY Zenon DEF LastCall
  <2> DEFINE milli == InstantMillis(value.tick)
             milli2 == InstantMillis(value'.tick)
  <2>2. /\ value.day \in Int /\ value'.day \in Int
        /\ value.tick \in Nat /\ milli \in Int /\ milli * TicksPerMilli <= value.tick
        /\ value.tick < (milli + 1) * TicksPerMilli
        /\ value'.tick \in Nat /\ milli2 \in Int /\ milli2 * TicksPerMilli <= value'.tick
        /\ value'.tick < (milli2 + 1) * TicksPerMilli
    <3>1. /\ InCalendar(value.day) /\ value.tick \in Nat /\ value.tick < TicksPerDay
          /\ InCalendar(value'.day) /\ value'.tick \in Nat /\ value'.tick < TicksPerDay
      BY <2>1, PointIsTime
    <3>2. /\ InDay(milli) /\ milli * TicksPerMilli <= value.tick
          /\ value.tick < (milli + 1) * TicksPerMilli
          /\ InDay(milli2) /\ milli2 * TicksPerMilli <= value'.tick
          /\ value'.tick < (milli2 + 1) * TicksPerMilli
      BY <3>1, TickIsTime
    <3> HIDE DEF milli, milli2
    <3> QED
      BY <3>1, <3>2 DEF InDay, InCalendar
  <2>3. TicksPerMilli \in Nat /\ TicksPerMilli # 0
    BY TimesAssumption
  <2>4. \/ value.day < value'.day \/ (value.day = value'.day /\ milli < milli2)
        \/ value.day = value'.day /\ milli = milli2
             /\ value'.tick - value.tick < TicksPerMilli
    <3> HIDE DEF milli, milli2
    <3>1. CASE value.day < value'.day
      BY <3>1
    <3>2. CASE value.day = value'.day /\ value.tick < value'.tick
      <4>1. milli <= milli2
        <5> SUFFICES ASSUME milli2 + 1 <= milli PROVE FALSE
          BY <2>2, SMT
        <5>1. (milli2 + 1) * TicksPerMilli <= milli * TicksPerMilli
          BY <2>2, <2>3, SMT
        <5> QED
          BY <2>2, <2>3, <3>2, <5>1, SMT
      <4>2. (milli + 1) * TicksPerMilli = milli * TicksPerMilli + TicksPerMilli
        BY <2>2, <2>3, SMT
      <4>3. milli = milli2 => value'.tick - value.tick < TicksPerMilli
        BY <2>2, <2>3, <4>2, SMT
      <4> QED
        BY <2>2, <3>2, <4>1, <4>3, SMT
    <3> QED
      BY <3>1, <3>2 DEF Earlier
  <2>5. CASE value.day < value'.day \/ (value.day = value'.day /\ milli < milli2)
    BY <1>1, <1>2, <2>5, StampsInOrder, Zenon
  <2>6. CASE /\ value.day = value'.day /\ milli = milli2
             /\ value'.tick - value.tick < TicksPerMilli
    <3>1. sOutput = sOutput'
      BY <2>1, <2>6, Zenon DEF toRfc3339Utc
    <3> QED
      BY <2>6, <3>1
  <2> QED
    BY <2>4, <2>5, <2>6
<1>4. LastCall /\ [Next]_vars => LastCall'
  BY LastCallKept
<1>5. Spec => []LastCall
  BY LastCallHolds
<1> QED
  BY <1>3, <1>4, <1>5, PTL DEF Spec, StampsSort
=============================================================================
