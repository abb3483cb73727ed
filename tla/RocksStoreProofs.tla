-------------------------- MODULE RocksStoreProofs --------------------------
(***************************************************************************)
(* Proofs about RocksStore: what SerializeValues writes DeSerializeValues  *)
(* reads back, for every width of a byte and of an integer; the store      *)
(* therefore always decodes; and its clients see the blob contract.        *)
(***************************************************************************)
EXTENDS RocksStore, FiniteSetTheorems, SequenceTheorems, WellFoundedInduction, TLAPS

(***************************************************************************)
(* Induction and recursion over the naturals, on sets and functions.       *)
(***************************************************************************)

\* A non-empty set of naturals has a least member.
LEMMA LeastNat ==
  ASSUME NEW T \in SUBSET Nat, T # {}
  PROVE  \E x \in T : \A y \in T : x <= y
  <1> DEFINE R == OpToRel(<, Nat)
  <1>1. R = {ss \in Nat \X Nat : ss[1] < ss[2]}
    BY DEF OpToRel
  <1>2. IsWellFoundedOn(R, Nat)
    BY NatLessThanWellFounded
  <1> HIDE DEF R
  <1>3. PICK x \in T : \A y \in T : ~(<<y, x>> \in R)
    BY <1>2, WFMin
  <1>4. \A y \in T : <<y, x>> \in R <=> y < x
    BY <1>1
  <1>5. x \in Nat /\ \A y \in T : y \in Nat /\ ~(y < x)
    BY <1>3, <1>4
  <1> QED BY <1>5

\* A set with 0 and with the successors of its members has every natural.
LEMMA SetInduction ==
  ASSUME NEW S, 0 \in S, \A n \in Nat : n \in S => n + 1 \in S
  PROVE  Nat \subseteq S
  <1> SUFFICES ASSUME Nat \ S # {} PROVE FALSE
    OBVIOUS
  <1>1. PICK x \in Nat \ S : \A y \in Nat \ S : x <= y
    BY LeastNat
  <1>2. x # 0 /\ x - 1 \in Nat
    BY <1>1
  <1>3. x - 1 \in S
    BY <1>1, <1>2
  <1> QED BY <1>1, <1>2, <1>3

\* f is defined on 0..n by a first value and a step function.
Recurs(f, n, a, h) == f = [i \in 0..n |-> IF i = 0 THEN a ELSE h[<<i, f[i - 1]>>]]

\* There is a function defined by recursion.
LEMMA RecursionExists ==
  ASSUME NEW N \in Nat, NEW T, NEW a \in T, NEW h \in [(1..N) \X T -> T]
  PROVE  \E f : Recurs(f, N, a, h) /\ f \in [0..N -> T]
  <1> DEFINE S == {n \in Nat : n <= N => \E f : Recurs(f, n, a, h) /\ f \in [0..n -> T]}
  <1>1. 0 \in S
    <2> DEFINE f == [i \in 0..0 |-> a]
    <2>1. f = [i \in 0..0 |-> IF i = 0 THEN a ELSE h[<<i, f[i - 1]>>]]
      OBVIOUS
    <2>2. f \in [0..0 -> T]
      OBVIOUS
    <2> HIDE DEF f
    <2>3. \E g : Recurs(g, 0, a, h) /\ g \in [0..0 -> T]
      BY <2>1, <2>2 DEF Recurs
    <2> QED BY <2>3
  <1>2. ASSUME NEW n \in Nat, n \in S PROVE n + 1 \in S
    <2> SUFFICES ASSUME n + 1 <= N
                 PROVE  \E f : Recurs(f, n + 1, a, h) /\ f \in [0..(n + 1) -> T]
      OBVIOUS
    <2>1. PICK f : Recurs(f, n, a, h) /\ f \in [0..n -> T]
      BY <1>2
    <2> DEFINE g == [i \in 0..(n + 1) |-> IF i = n + 1 THEN h[<<n + 1, f[n]>>] ELSE f[i]]
    <2>2. h[<<n + 1, f[n]>>] \in T
      BY <2>1
    <2>3. g \in [0..(n + 1) -> T]
      BY <2>1, <2>2
    <2>4. ASSUME NEW i \in 0..(n + 1)
          PROVE  g[i] = IF i = 0 THEN a ELSE h[<<i, g[i - 1]>>]
      <3>1. CASE i = n + 1
        <4>1. n + 1 \in 0..(n + 1) /\ n \in 0..(n + 1) /\ n # n + 1 /\ n + 1 # 0
              /\ (n + 1) - 1 = n
          OBVIOUS
        <4>2. g[n + 1] = h[<<n + 1, f[n]>>] /\ g[n] = f[n]
          BY <4>1
        <4> HIDE DEF g
        <4> QED BY <3>1, <4>1, <4>2
      <3>2. CASE i \in 0..n
        <4>1. f[i] = IF i = 0 THEN a ELSE h[<<i, f[i - 1]>>]
          BY <2>1, <3>2 DEF Recurs
        <4>2. g[i] = f[i] /\ (i # 0 => g[i - 1] = f[i - 1])
          BY <3>2
        <4> QED BY <4>1, <4>2
      <3>3. i = n + 1 \/ i \in 0..n
        OBVIOUS
      <3> HIDE DEF g
      <3> QED BY <3>1, <3>2, <3>3
    <2>5. g = [i \in 0..(n + 1) |-> IF i = 0 THEN a ELSE h[<<i, g[i - 1]>>]]
      BY <2>4
    <2> HIDE DEF g
    <2> QED BY <2>3, <2>5 DEF Recurs
  <1>3. Nat \subseteq S
    <2> HIDE DEF S
    <2> QED BY <1>1, <1>2, SetInduction
  <1>4. N \in S
    BY <1>3
  <1> QED BY <1>4

-----------------------------------------------------------------------------
(* Fixed-width integers *)

\* The weights of the bytes are the powers of Base.
LEMMA Weights ==
  /\ Weight \in [0..Width -> Nat \ {0}]
  /\ Weight[0] = 1
  /\ \A i \in 1..Width : Weight[i] = Base * Weight[i - 1]
  <1> DEFINE T == Nat \ {0}
             h == [x \in (1..Width) \X T |-> Base * x[2]]
             W == CHOOSE f : f = [i \in 0..Width |-> IF i = 0 THEN 1 ELSE Base * f[i - 1]]
  <1>0. Width \in Nat /\ Base \in Nat /\ Base >= 2
    BY RocksAssumption
  <1>1. h \in [(1..Width) \X T -> T] /\ 1 \in T
    BY <1>0
  <1>2. PICK f : Recurs(f, Width, 1, h) /\ f \in [0..Width -> T]
    <2> HIDE DEF h, T
    <2> QED BY <1>0, <1>1, RecursionExists
  <1>3. ASSUME NEW i \in 0..Width
        PROVE  f[i] = IF i = 0 THEN 1 ELSE Base * f[i - 1]
    <2>1. f[i] = IF i = 0 THEN 1 ELSE h[<<i, f[i - 1]>>]
      <3> HIDE DEF h
      <3> QED BY <1>2 DEF Recurs
    <2>2. i # 0 => <<i, f[i - 1]>> \in (1..Width) \X T
      BY <1>0, <1>2
    <2> QED BY <2>1, <2>2
  <1>4. \E g : g = [i \in 0..Width |-> IF i = 0 THEN 1 ELSE Base * g[i - 1]]
    <2>1. f = [i \in 0..Width |-> IF i = 0 THEN 1 ELSE Base * f[i - 1]]
      BY <1>2, <1>3
    <2> QED BY <2>1, Zenon
  <1>5. W = [i \in 0..Width |-> IF i = 0 THEN 1 ELSE Base * W[i - 1]]
    BY <1>4, Zenon
  <1>6. Weight = W
    BY Zenon DEF Weight
  <1> HIDE DEF W
  <1> DEFINE S == {n \in Nat : n <= Width => W[n] \in T}
  <1>7. 0 \in S
    BY <1>0, <1>5
  <1>8. ASSUME NEW n \in Nat, n \in S PROVE n + 1 \in S
    BY <1>0, <1>5, <1>8
  <1>9. Nat \subseteq S
    <2> HIDE DEF S
    <2> QED BY <1>7, <1>8, SetInduction
  <1>10. \A i \in 0..Width : W[i] \in T
    BY <1>0, <1>9
  <1> QED BY <1>0, <1>5, <1>6, <1>10

\* A quotient and a remainder are the only ones.
LEMMA Division ==
  ASSUME NEW n \in Nat, NEW p \in Nat, NEW q \in Nat, NEW r \in Nat,
         r < p, n = p * q + r
  PROVE  n \div p = q /\ n % p = r
  OBVIOUS

LEMMA DivMod ==
  ASSUME NEW n \in Nat, NEW p \in Nat, p > 0
  PROVE  /\ n \div p \in Nat
         /\ n % p \in Nat /\ n % p < p
         /\ n = p * (n \div p) + (n % p)
  OBVIOUS

\* The next byte of n, in the place of its weight p.
LEMMA OneByte ==
  ASSUME NEW n \in Nat, NEW p \in Nat, p > 0
  PROVE  n % (Base * p) = (n % p) + ((n \div p) % Base) * p
  <1> DEFINE q == n \div p
             r == n % p
             u == q \div Base
             b == q % Base
  <1>0. Base \in Nat /\ Base >= 2
    BY RocksAssumption
  <1>1. q \in Nat /\ r \in Nat /\ r < p /\ n = p * q + r
    BY DivMod
  <1> HIDE DEF q, r
  <1>2. u \in Nat /\ b \in Nat /\ b < Base /\ q = Base * u + b
    BY <1>0, <1>1, DivMod
  <1> HIDE DEF u, b
  <1>3. b * p \in Nat /\ Base * p \in Nat
    BY <1>0, <1>2
  <1>4. p * q = (Base * p) * u + b * p
    BY <1>0, <1>2, <1>3
  <1>5. (b + 1) * p <= Base * p /\ (b + 1) * p = b * p + p
    BY <1>0, <1>2, <1>3
  <1>6. r + b * p < Base * p /\ r + b * p \in Nat
    BY <1>1, <1>3, <1>5
  <1>7. n = (Base * p) * u + (r + b * p)
    <2>1. (Base * p) * u \in Nat
      BY <1>2, <1>3
    <2> QED BY <1>1, <1>3, <1>4, <2>1
  <1>8. n % (Base * p) = r + b * p
    <2> DEFINE bp == Base * p
               rr == r + b * p
    <2>1. bp \in Nat /\ rr \in Nat /\ rr < bp /\ n = bp * u + rr
      BY <1>3, <1>6, <1>7
    <2> HIDE DEF bp, rr
    <2>2. n % bp = rr
      BY <1>2, <2>1, Division
    <2> QED BY <2>2 DEF bp, rr
  <1> QED BY <1>8 DEF q, r, b

\* An integer is written as Width bytes.
LEMMA EncodedBytes ==
  ASSUME NEW n \in Nat
  PROVE  EncodeFixed64(n) \in Seq(Byte) /\ Len(EncodeFixed64(n)) = Width
  <1>1. Width \in Nat /\ Base \in Nat /\ Base >= 2
    BY RocksAssumption
  <1>2. ASSUME NEW i \in 1..Width PROVE (n \div Weight[i - 1]) % Base \in Byte
    <2>1. Weight[i - 1] \in Nat /\ Weight[i - 1] > 0
      BY <1>1, Weights
    <2>2. n \div Weight[i - 1] \in Nat
      BY <2>1, DivMod
    <2>3. (n \div Weight[i - 1]) % Base \in Nat /\ (n \div Weight[i - 1]) % Base < Base
      BY <1>1, <2>2, DivMod
    <2> QED BY <1>1, <2>3 DEF Byte
  <1>3. EncodeFixed64(n) \in [1..Width -> Byte]
    BY <1>2 DEF EncodeFixed64
  <1> QED BY <1>1, <1>3

\* The bytes from an offset on are those of n.
Holds(s, off, n) == \A i \in 1..Width : At(s, off + i - 1) = EncodeFixed64(n)[i]

\* What was encoded is decoded: the sum of the bytes up to i is n % Weight[i].
LEMMA DecodedInteger ==
  ASSUME NEW s, NEW off \in Nat, NEW n \in Nat, n < Weight[Width], Holds(s, off, n)
  PROVE  DecodeFixed64(s, off) = n
  <1> DEFINE F == CHOOSE f : f = [i \in 0..Width |->
                     IF i = 0 THEN 0 ELSE f[i - 1] + At(s, off + i - 1) * Weight[i - 1]]
             D == [i \in 0..Width |-> n % Weight[i]]
  <1>0. Width \in Nat /\ Base \in Nat /\ Base >= 2
    BY RocksAssumption
  <1>1. ASSUME NEW i \in 1..Width
        PROVE  n % Weight[i] = (n % Weight[i - 1]) + At(s, off + i - 1) * Weight[i - 1]
    <2>1. Weight[i - 1] \in Nat /\ Weight[i - 1] > 0
      BY <1>0, Weights
    <2>2. Weight[i] = Base * Weight[i - 1]
      BY Weights
    <2>3. At(s, off + i - 1) = (n \div Weight[i - 1]) % Base
      BY DEF Holds, EncodeFixed64
    <2> DEFINE p == Weight[i - 1]
    <2>4. n % (Base * p) = (n % p) + ((n \div p) % Base) * p
      <3> HIDE DEF p
      <3>1. p \in Nat /\ p > 0
        BY <2>1 DEF p
      <3> QED BY <3>1, OneByte
    <2> QED BY <2>2, <2>3, <2>4
  <1>2. n % Weight[0] = 0
    BY Weights
  <1>3. D = [i \in 0..Width |->
               IF i = 0 THEN 0 ELSE D[i - 1] + At(s, off + i - 1) * Weight[i - 1]]
    <2>1. ASSUME NEW i \in 0..Width
          PROVE  D[i] = IF i = 0 THEN 0 ELSE D[i - 1] + At(s, off + i - 1) * Weight[i - 1]
      <3>1. CASE i = 0
        BY <1>0, <1>2, <3>1
      <3>2. CASE i # 0
        <4>1. i \in 1..Width /\ i - 1 \in 0..Width
          BY <1>0, <3>2
        <4>2. D[i] = n % Weight[i] /\ D[i - 1] = n % Weight[i - 1]
          BY <4>1
        <4> HIDE DEF D
        <4> QED BY <1>1, <3>2, <4>1, <4>2
      <3> QED BY <3>1, <3>2
    <2>2. \E d : d = D
      OBVIOUS
    <2>3. DOMAIN D = 0..Width /\ D = [i \in 0..Width |-> D[i]]
      OBVIOUS
    <2> HIDE DEF D
    <2> QED BY <2>1, <2>3
  <1>4. F = [i \in 0..Width |->
               IF i = 0 THEN 0 ELSE F[i - 1] + At(s, off + i - 1) * Weight[i - 1]]
    <2> HIDE DEF D
    <2> QED BY <1>3, Zenon
  <1>5. DecodeFixed64(s, off) = F[Width]
    BY DEF DecodeFixed64
  <1> HIDE DEF F, D
  <1> DEFINE S == {k \in Nat : k <= Width => F[k] = D[k]}
  <1>6. 0 \in S
    BY <1>0, <1>3, <1>4
  <1>7. ASSUME NEW k \in Nat, k \in S PROVE k + 1 \in S
    <2> SUFFICES ASSUME k + 1 <= Width PROVE F[k + 1] = D[k + 1]
      OBVIOUS
    <2>1. k + 1 \in 0..Width /\ k + 1 # 0 /\ (k + 1) - 1 = k
      BY <1>0
    <2>2. F[k + 1] = F[k] + At(s, off + (k + 1) - 1) * Weight[k]
      BY <1>4, <2>1
    <2>3. D[k + 1] = D[k] + At(s, off + (k + 1) - 1) * Weight[k]
      BY <1>3, <2>1
    <2>4. F[k] = D[k]
      BY <1>0, <1>7
    <2> QED BY <2>2, <2>3, <2>4, Zenon
  <1>8. Nat \subseteq S
    <2> HIDE DEF S
    <2> QED BY <1>6, <1>7, SetInduction
  <1>9. F[Width] = D[Width]
    BY <1>0, <1>8
  <1>10. D[Width] = n
    <2>1. D[Width] = n % Weight[Width]
      BY <1>0 DEF D
    <2>2. Weight[Width] \in Nat
      BY <1>0, Weights
    <2>3. n % Weight[Width] = n
      <3> DEFINE p == Weight[Width]
      <3>1. p \in Nat /\ n < p
        BY <2>2
      <3> HIDE DEF p
      <3>2. n = p * 0 + n
        BY <3>1
      <3>3. n % p = n
        BY <3>1, <3>2, Division
      <3> QED BY <3>3 DEF p
    <2> QED BY <2>1, <2>3
  <1> QED BY <1>5, <1>9, <1>10

-----------------------------------------------------------------------------
(* Strings after their lengths *)

\* s begins with u.
Begins(s, u) == Len(u) <= Len(s) /\ \A i \in 1..Len(u) : s[i] = u[i]

LEMMA BeginsItself ==
  ASSUME NEW s
  PROVE  Len(s) \in Nat => Begins(s, s)
  BY DEF Begins

LEMMA BeginsWithLess ==
  ASSUME NEW X, NEW s \in Seq(X), NEW u \in Seq(X), NEW v \in Seq(X), Begins(s, u \o v)
  PROVE  Begins(s, u)
  <1>1. Len(u \o v) = Len(u) + Len(v) /\ Len(u) \in Nat /\ Len(v) \in Nat /\ Len(s) \in Nat
    BY ConcatProperties
  <1>2. \A i \in 1..Len(u) : (u \o v)[i] = u[i]
    BY ConcatProperties
  <1> QED BY <1>1, <1>2 DEF Begins

\* The second part of a concatenation.
LEMMA ConcatSecond ==
  ASSUME NEW X, NEW u \in Seq(X), NEW v \in Seq(X), NEW i \in 1..Len(v)
  PROVE  (u \o v)[Len(u) + i] = v[i]
  <1>1. Len(u) \in Nat /\ Len(v) \in Nat /\ i \in Nat
    OBVIOUS
  <1>2. Len(u) + i \in 1..(Len(u) + Len(v)) /\ ~(Len(u) + i <= Len(u))
        /\ (Len(u) + i) - Len(u) = i
    BY <1>1
  <1> QED BY <1>2, ConcatProperties

\* An integer that s holds after its first bytes u.
LEMMA IntegerAfter ==
  ASSUME NEW s \in Seq(Byte), NEW u \in Seq(Byte), NEW n \in Nat, n < Weight[Width],
         Begins(s, u \o EncodeFixed64(n))
  PROVE  DecodeFixed64(s, Len(u)) = n
  <1> DEFINE e == EncodeFixed64(n)
  <1>0. Width \in Nat
    BY RocksAssumption
  <1>1. e \in Seq(Byte) /\ Len(e) = Width
    BY EncodedBytes
  <1> HIDE DEF e
  <1>2. /\ Len(u \o e) = Len(u) + Width
        /\ Len(u) \in Nat /\ Len(s) \in Nat
        /\ \A i \in 1..Width : (u \o e)[Len(u) + i] = e[i]
    <2>1. Len(u \o e) = Len(u) + Len(e)
      BY <1>1, ConcatProperties
    <2>2. \A i \in 1..Len(e) : (u \o e)[Len(u) + i] = e[i]
      BY <1>1, ConcatSecond
    <2> QED BY <1>0, <1>1, <2>1, <2>2
  <1>3. ASSUME NEW i \in 1..Width PROVE At(s, Len(u) + i - 1) = e[i]
    <2>1. Len(u) + i \in 1..(Len(u) + Width) /\ Len(u) + i - 1 < Len(s)
          /\ (Len(u) + i - 1) + 1 = Len(u) + i
      BY <1>0, <1>2 DEF Begins, e
    <2>2. s[Len(u) + i] = e[i]
      BY <1>2, <2>1 DEF Begins, e
    <2> QED BY <2>1, <2>2 DEF At
  <1>4. Holds(s, Len(u), n)
    BY <1>3 DEF Holds, e
  <1> QED BY <1>2, <1>4, DecodedInteger

LEMMA PutStringBytes ==
  ASSUME NEW w \in Seq(Byte)
  PROVE  PutString(w) \in Seq(Byte) /\ Len(PutString(w)) = Width + Len(w)
  <1>1. EncodeFixed64(Len(w)) \in Seq(Byte) /\ Len(EncodeFixed64(Len(w))) = Width
    BY EncodedBytes
  <1> QED BY <1>1, ConcatProperties DEF PutString

\* A string that s holds, after its length, after its first bytes u.
LEMMA StringAfter ==
  ASSUME NEW s \in Seq(Byte), NEW u \in Seq(Byte), NEW w \in Seq(Byte),
         Len(w) < Weight[Width], Begins(s, u \o PutString(w))
  PROVE  /\ EndOf(s, Len(u)) = Len(u \o PutString(w))
         /\ StringAt(s, Len(u)) = w
  <1> DEFINE e == EncodeFixed64(Len(w))
  <1>0. Width \in Nat /\ Len(w) \in Nat /\ Len(u) \in Nat /\ Len(s) \in Nat
    BY RocksAssumption
  <1>1. e \in Seq(Byte) /\ Len(e) = Width
    BY <1>0, EncodedBytes
  <1>2. u \o PutString(w) = (u \o e) \o w
    <2> HIDE DEF e
    <2>1. u \o (e \o w) = (u \o e) \o w
      BY <1>1, ConcatAssociative, SMTT(30)
    <2> QED BY <2>1 DEF PutString, e
  <1> HIDE DEF e
  <1>3. /\ u \o e \in Seq(Byte) /\ Len(u \o e) = Len(u) + Width
        /\ Len((u \o e) \o w) = Len(u) + Width + Len(w)
        /\ \A i \in 1..Len(w) : ((u \o e) \o w)[Len(u) + Width + i] = w[i]
    <2>1. u \o e \in Seq(Byte) /\ Len(u \o e) = Len(u) + Width
      BY <1>0, <1>1, ConcatProperties
    <2> DEFINE ue == u \o e
    <2> HIDE DEF ue
    <2>2. Len(ue \o w) = Len(ue) + Len(w)
      BY <2>1, ConcatProperties DEF ue
    <2>3. \A i \in 1..Len(w) : (ue \o w)[Len(ue) + i] = w[i]
      BY <2>1, ConcatSecond DEF ue
    <2> QED BY <2>1, <2>2, <2>3 DEF ue
  <1>4. Begins(s, (u \o e) \o w)
    BY <1>2
  <1>5. Begins(s, u \o e)
    BY <1>3, <1>4, BeginsWithLess
  <1>6. DecodeFixed64(s, Len(u)) = Len(w)
    BY <1>0, <1>5, IntegerAfter DEF e
  <1>7. EndOf(s, Len(u)) = Len(u) + Width + Len(w)
    BY <1>6 DEF EndOf
  <1>8. Len(u) + Width + Len(w) <= Len(s)
        /\ \A i \in 1..Len(w) : s[Len(u) + Width + i] = w[i]
    <2> DEFINE all == (u \o e) \o w
    <2>1. Len(all) <= Len(s) /\ \A i \in 1..Len(all) : s[i] = all[i]
      BY <1>4 DEF Begins
    <2>2. /\ Len(all) = Len(u) + Width + Len(w)
          /\ \A i \in 1..Len(w) : all[Len(u) + Width + i] = w[i]
      BY <1>3
    <2> HIDE DEF all
    <2>3. \A i \in 1..Len(w) : Len(u) + Width + i \in 1..(Len(u) + Width + Len(w))
      BY <1>0
    <2> QED BY <2>1, <2>2, <2>3
  <1>9. SubSeq(s, Len(u) + Width + 1, Len(u) + Width + Len(w)) = w
    <2> DEFINE m == Len(u) + Width + 1
               n == Len(u) + Width + Len(w)
               v == SubSeq(s, m, n)
    <2>1. m \in 1..(Len(s) + 1) /\ n \in (m - 1)..Len(s)
      BY <1>0, <1>8
    <2>2. m \in Int /\ n \in Int /\ n - m + 1 = Len(w)
      BY <1>0
    <2>3. v \in Seq(Byte) /\ Len(v) = Len(w) /\ \A i \in 1..Len(w) : v[i] = s[m + i - 1]
      <3> HIDE DEF m, n
      <3>1. \A i \in m..n : s[i] \in Byte
        BY <1>0, <2>1, <2>2
      <3> QED BY <1>0, <2>1, <2>2, <3>1, SubSeqProperties
    <2>4. \A i \in 1..Len(w) : v[i] = w[i]
      <3> HIDE DEF v
      <3>1. \A i \in 1..Len(w) : m + i - 1 = Len(u) + Width + i
        BY <1>0
      <3> HIDE DEF m
      <3> QED BY <1>8, <2>3, <3>1
    <2> HIDE DEF v
    <2>5. v = w
      BY <2>3, <2>4, SeqEqual
    <2> QED BY <2>5 DEF v
  <1> QED BY <1>2, <1>3, <1>7, <1>9 DEF StringAt

-----------------------------------------------------------------------------
(* Vectors of pairs *)

\* The bytes of the first i pairs, for every i.
Writes(value, kvs) ==
  value = [i \in 0..Len(kvs) |->
             IF i = 0 THEN EncodeFixed64(Len(kvs))
             ELSE value[i - 1] \o PutString(kvs[i][1]) \o PutString(kvs[i][2])]

\* What the calls pass: strings whose lengths fit, and not too many of them.
LEMMA VectorsFit ==
  ASSUME NEW kvs \in Vectors
  PROVE  /\ kvs \in Seq(Seq(Byte) \X Seq(Byte))
         /\ Len(kvs) \in Nat /\ Len(kvs) < Weight[Width]
         /\ \A i \in 1..Len(kvs) :
              /\ kvs[i] = <<kvs[i][1], kvs[i][2]>>
              /\ kvs[i][1] \in Seq(Byte) /\ Len(kvs[i][1]) < Weight[Width]
              /\ kvs[i][2] \in Seq(Byte) /\ Len(kvs[i][2]) < Weight[Width]
  <1>1. kvs \in Seq(Fields \X Values) /\ Len(kvs) < Weight[Width]
    BY RocksAssumption
  <1>2. \A s \in Fields \cup Values : s \in Seq(Byte) /\ Len(s) < Weight[Width]
    BY RocksAssumption
  <1>3. ASSUME NEW i \in 1..Len(kvs)
        PROVE  /\ kvs[i] = <<kvs[i][1], kvs[i][2]>>
               /\ kvs[i][1] \in Seq(Byte) /\ Len(kvs[i][1]) < Weight[Width]
               /\ kvs[i][2] \in Seq(Byte) /\ Len(kvs[i][2]) < Weight[Width]
               /\ kvs[i] \in Seq(Byte) \X Seq(Byte)
    <2>1. kvs[i] \in Fields \X Values
      BY <1>1
    <2> QED BY <1>2, <2>1
  <1>4. Len(kvs) \in Nat /\ kvs \in [1..Len(kvs) -> Seq(Byte) \X Seq(Byte)]
    BY <1>1, <1>3
  <1> QED BY <1>1, <1>3, <1>4

LEMMA Serialized ==
  ASSUME NEW kvs \in Vectors
  PROVE  \E value : /\ Writes(value, kvs) /\ value \in [0..Len(kvs) -> Seq(Byte)]
                    /\ SerializeValues(kvs) = value[Len(kvs)]
  <1> DEFINE n == Len(kvs)
             a == EncodeFixed64(n)
             h == [x \in (1..n) \X Seq(Byte) |->
                     x[2] \o PutString(kvs[x[1]][1]) \o PutString(kvs[x[1]][2])]
             V == CHOOSE f : f = [i \in 0..Len(kvs) |->
                    IF i = 0 THEN EncodeFixed64(Len(kvs))
                    ELSE f[i - 1] \o PutString(kvs[i][1]) \o PutString(kvs[i][2])]
  <1>1. n \in Nat /\ a \in Seq(Byte)
    BY VectorsFit, EncodedBytes
  <1>2. ASSUME NEW i \in 1..n, NEW u \in Seq(Byte)
        PROVE  u \o PutString(kvs[i][1]) \o PutString(kvs[i][2]) \in Seq(Byte)
    <2>1. PutString(kvs[i][1]) \in Seq(Byte) /\ PutString(kvs[i][2]) \in Seq(Byte)
      BY VectorsFit, PutStringBytes
    <2>2. u \o PutString(kvs[i][1]) \in Seq(Byte)
      BY <2>1, ConcatProperties
    <2> QED BY <2>1, <2>2, ConcatProperties
  <1>3. h \in [(1..n) \X Seq(Byte) -> Seq(Byte)]
    BY <1>2
  <1>4. PICK f : Recurs(f, n, a, h) /\ f \in [0..n -> Seq(Byte)]
    <2> HIDE DEF n, a, h
    <2> QED BY <1>1, <1>3, RecursionExists
  <1>5. Writes(f, kvs)
    <2>1. ASSUME NEW i \in 0..n
          PROVE  f[i] = IF i = 0 THEN EncodeFixed64(Len(kvs))
                        ELSE f[i - 1] \o PutString(kvs[i][1]) \o PutString(kvs[i][2])
      <3>1. f[i] = IF i = 0 THEN a ELSE h[<<i, f[i - 1]>>]
        <4> HIDE DEF n, a, h
        <4> QED BY <1>4 DEF Recurs
      <3>2. i # 0 => i \in 1..n /\ f[i - 1] \in Seq(Byte)
        <4> HIDE DEF n
        <4>1. i # 0 => i \in 1..n /\ i - 1 \in 0..n
          BY <1>1
        <4> QED BY <1>4, <4>1
      <3> QED BY <3>1, <3>2
    <2>2. f = [i \in 0..n |-> f[i]]
      BY <1>4
    <2> HIDE DEF n
    <2>3. f = [i \in 0..n |-> IF i = 0 THEN EncodeFixed64(Len(kvs))
                        ELSE f[i - 1] \o PutString(kvs[i][1]) \o PutString(kvs[i][2])]
      BY <2>1, <2>2
    <2> QED BY <2>3 DEF Writes, n
  <1>6. Writes(V, kvs)
    BY <1>5, Zenon DEF Writes
  <1>7. SerializeValues(kvs) = V[Len(kvs)]
    BY DEF SerializeValues
  <1>8. V \in [0..n -> Seq(Byte)]
    <2> HIDE DEF V, n
    <2> DEFINE S == {k \in Nat : k <= n => V[k] \in Seq(Byte)}
    <2>1. 0 \in S
      BY <1>1, <1>6 DEF Writes, n
    <2>2. ASSUME NEW k \in Nat, k \in S PROVE k + 1 \in S
      <3> SUFFICES ASSUME k + 1 <= n PROVE V[k + 1] \in Seq(Byte)
        OBVIOUS
      <3>1. k + 1 \in 1..n /\ (k + 1) - 1 = k /\ k + 1 # 0 /\ k + 1 \in 0..n
        BY <1>1
      <3>2. V[k + 1] = V[k] \o PutString(kvs[k + 1][1]) \o PutString(kvs[k + 1][2])
        BY <1>6, <3>1 DEF Writes, n
      <3>3. V[k] \in Seq(Byte)
        BY <1>1, <2>2
      <3> QED BY <1>2, <3>1, <3>2, <3>3
    <2>3. Nat \subseteq S
      <3> HIDE DEF S
      <3> QED BY <2>1, <2>2, SetInduction
    <2>4. \A i \in 0..n : V[i] \in Seq(Byte)
      BY <1>1, <2>3
    <2>5. V = [i \in 0..n |-> V[i]]
      BY <1>6 DEF Writes, n
    <2> QED BY <2>4, <2>5
  <1> HIDE DEF V
  <1> QED BY <1>6, <1>7, <1>8

\* The bytes written so far are the first of all that will be written.
LEMMA WritesOn ==
  ASSUME NEW kvs \in Vectors, NEW value \in [0..Len(kvs) -> Seq(Byte)], Writes(value, kvs),
         NEW i \in 0..Len(kvs)
  PROVE  Begins(value[Len(kvs)], value[i])
  <1> DEFINE n == Len(kvs)
             s == value[n]
             S == {k \in Nat : k <= n => Begins(s, value[n - k])}
  <1>0. n \in Nat /\ s \in Seq(Byte)
    BY VectorsFit
  <1> HIDE DEF n
  <1>1. 0 \in S
    <2>1. n - 0 = n /\ Len(s) \in Nat
      BY <1>0
    <2> HIDE DEF s
    <2>2. Begins(s, s)
      BY <2>1, BeginsItself
    <2> QED BY <2>1, <2>2 DEF s
  <1>2. ASSUME NEW k \in Nat, k \in S PROVE k + 1 \in S
    <2> SUFFICES ASSUME k + 1 <= n PROVE Begins(s, value[n - (k + 1)])
      OBVIOUS
    <2> DEFINE j == n - (k + 1)
    <2>1. j \in 0..n /\ n - k \in 1..n /\ (n - k) - 1 = j /\ n - k # 0 /\ n - k \in 0..n
      BY <1>0
    <2>2. Begins(s, value[n - k])
      BY <1>0, <1>2
    <2> HIDE DEF j, s
    <2> DEFINE a == PutString(kvs[n - k][1])
               b == PutString(kvs[n - k][2])
    <2>3. value[n - k] = (value[j] \o a) \o b
      BY <2>1 DEF Writes, n
    <2>4. a \in Seq(Byte) /\ b \in Seq(Byte)
      BY <2>1, VectorsFit, PutStringBytes DEF n
    <2>5. value[j] \in Seq(Byte)
      BY <2>1 DEF n
    <2> HIDE DEF a, b
    <2>6. value[j] \o a \in Seq(Byte)
      BY <2>4, <2>5, ConcatProperties
    <2>7. Begins(s, value[j] \o a)
      BY <1>0, <2>2, <2>3, <2>4, <2>6, BeginsWithLess DEF s
    <2>8. Begins(s, value[j])
      BY <1>0, <2>4, <2>5, <2>7, BeginsWithLess DEF s
    <2> QED BY <2>8 DEF j
  <1>3. Nat \subseteq S
    <2> HIDE DEF S
    <2> QED BY <1>1, <1>2, SetInduction
  <1>4. n - i \in Nat /\ n - i <= n /\ n - (n - i) = i
    BY <1>0 DEF n
  <1> QED BY <1>3, <1>4 DEF n

\* One more of the first pairs of a vector.
LEMMA OnePairMore ==
  ASSUME NEW X, NEW kvs \in Seq(X), NEW i \in 1..Len(kvs)
  PROVE  Append(SubSeq(kvs, 1, i - 1), kvs[i]) = SubSeq(kvs, 1, i)
  OBVIOUS

\* The loop of DeSerializeValues over n pairs.
Reads(dec, s, n) ==
  dec = [i \in 0..n |->
           IF i = 0 THEN [kvs |-> << >>, offset |-> Width]
           ELSE [kvs    |-> Append(dec[i - 1].kvs,
                                   <<StringAt(s, dec[i - 1].offset),
                                     StringAt(s, EndOf(s, dec[i - 1].offset))>>),
                 offset |-> EndOf(s, EndOf(s, dec[i - 1].offset))]]

\* It has one result.
LEMMA ReadsUnique ==
  ASSUME NEW s, NEW n \in Nat, NEW d, NEW e, Reads(d, s, n), Reads(e, s, n)
  PROVE  d[n] = e[n]
  <1> DEFINE S == {k \in Nat : k <= n => d[k] = e[k]}
  <1>1. 0 \in S
    BY DEF Reads
  <1>2. ASSUME NEW k \in Nat, k \in S PROVE k + 1 \in S
    <2> SUFFICES ASSUME k + 1 <= n PROVE d[k + 1] = e[k + 1]
      OBVIOUS
    <2>1. k + 1 \in 0..n /\ k + 1 # 0 /\ (k + 1) - 1 = k
      BY SMTT(30)
    <2> DEFINE R(r) == [kvs    |-> Append(r.kvs, <<StringAt(s, r.offset),
                                                  StringAt(s, EndOf(s, r.offset))>>),
                        offset |-> EndOf(s, EndOf(s, r.offset))]
    <2>2. d[k + 1] = R(d[k])
      BY <2>1, ZenonT(40) DEF Reads
    <2>3. e[k + 1] = R(e[k])
      BY <2>1 DEF Reads
    <2>4. d[k] = e[k]
      BY <1>2
    <2> HIDE DEF R
    <2> QED BY <2>2, <2>3, <2>4, Zenon
  <1>3. Nat \subseteq S
    <2> HIDE DEF S
    <2> QED BY <1>1, <1>2, SetInduction
  <1> QED BY <1>3

(***************************************************************************)
(* DeSerializeValues inverts SerializeValues, for every Base and Width:    *)
(* the pairs come back in their order and the offset ends at the last      *)
(* byte, provided the lengths fit an integer of Width bytes.  No byte is   *)
(* looked at that was not written.                                         *)
(***************************************************************************)
THEOREM RoundTrip ==
  ASSUME NEW kvs \in Vectors
  PROVE  /\ SerializeValues(kvs) \in Seq(Byte)
         /\ DeSerializeValues(SerializeValues(kvs))
              = [kvs |-> kvs, offset |-> Len(SerializeValues(kvs))]
  <1> DEFINE n == Len(kvs)
             s == SerializeValues(kvs)
  <1>0. /\ n \in Nat /\ n < Weight[Width] /\ Width \in Nat
        /\ kvs \in Seq(Seq(Byte) \X Seq(Byte))
    BY VectorsFit, RocksAssumption
  <1>1. PICK value : /\ Writes(value, kvs) /\ value \in [0..n -> Seq(Byte)]
                     /\ s = value[n]
    BY Serialized
  <1> HIDE DEF n, s
  <1>2. s \in Seq(Byte)
    BY <1>0, <1>1
  <1>3. \A i \in 0..n : Begins(s, value[i])
    BY <1>1, WritesOn DEF n
  <1>4. value[0] = EncodeFixed64(n) /\ Len(value[0]) = Width
    <2>1. value[0] = EncodeFixed64(n)
      BY <1>0, <1>1 DEF Writes, n
    <2> QED BY <1>0, <2>1, EncodedBytes
  <1>5. DecodeFixed64(s, 0) = n
    <2>1. << >> \o value[0] = value[0] /\ << >> \in Seq(Byte) /\ Len(<< >>) = 0
      BY <1>0, <1>1
    <2>2. Begins(s, << >> \o EncodeFixed64(n))
      BY <1>0, <1>3, <1>4, <2>1
    <2>3. DecodeFixed64(s, Len(<< >>)) = n
      BY <1>0, <1>2, <2>1, <2>2, IntegerAfter
    <2> QED BY <2>1, <2>3
  <1> DEFINE D == [i \in 0..n |-> [kvs |-> SubSeq(kvs, 1, i), offset |-> Len(value[i])]]
             E == CHOOSE f : f = [i \in 0..DecodeFixed64(s, 0) |->
                    IF i = 0 THEN [kvs |-> << >>, offset |-> Width]
                    ELSE [kvs    |-> Append(f[i - 1].kvs,
                                        <<StringAt(s, f[i - 1].offset),
                                          StringAt(s, EndOf(s, f[i - 1].offset))>>),
                          offset |-> EndOf(s, EndOf(s, f[i - 1].offset))]]
  <1>6. ASSUME NEW i \in 1..n
        PROVE  /\ StringAt(s, Len(value[i - 1])) = kvs[i][1]
               /\ StringAt(s, EndOf(s, Len(value[i - 1]))) = kvs[i][2]
               /\ EndOf(s, EndOf(s, Len(value[i - 1]))) = Len(value[i])
    <2> DEFINE u == value[i - 1]
               a == kvs[i][1]
               b == kvs[i][2]
               w == u \o PutString(a)
    <2>1. i \in 0..n /\ i - 1 \in 0..n /\ i # 0
      BY <1>0
    <2>2. u \in Seq(Byte)
      BY <1>1, <2>1
    <2>3. /\ a \in Seq(Byte) /\ Len(a) < Weight[Width]
          /\ b \in Seq(Byte) /\ Len(b) < Weight[Width]
      BY VectorsFit DEF n
    <2>4. value[i] = (u \o PutString(a)) \o PutString(b)
      BY <1>1, <2>1 DEF Writes, n
    <2> HIDE DEF u, a, b
    <2>5. PutString(a) \in Seq(Byte) /\ PutString(b) \in Seq(Byte)
      BY <2>3, PutStringBytes
    <2>6. w \in Seq(Byte)
      BY <2>2, <2>5, ConcatProperties
    <2>7. Begins(s, w \o PutString(b))
      BY <1>3, <2>1, <2>4
    <2>8. Begins(s, w)
      <3> HIDE DEF w
      <3> QED BY <1>2, <2>5, <2>6, <2>7, BeginsWithLess
    <2>9. EndOf(s, Len(u)) = Len(w) /\ StringAt(s, Len(u)) = a
      BY <1>2, <2>2, <2>3, <2>8, StringAfter
    <2>10. EndOf(s, Len(w)) = Len(w \o PutString(b)) /\ StringAt(s, Len(w)) = b
      <3> HIDE DEF w
      <3> QED BY <1>2, <2>3, <2>6, <2>7, StringAfter
    <2> QED BY <2>4, <2>9, <2>10 DEF u, a, b
  <1>7. Reads(D, s, n)
    <2>1. ASSUME NEW i \in 0..n
          PROVE  D[i] = IF i = 0 THEN [kvs |-> << >>, offset |-> Width]
                        ELSE [kvs    |-> Append(D[i - 1].kvs,
                                          <<StringAt(s, D[i - 1].offset),
                                            StringAt(s, EndOf(s, D[i - 1].offset))>>),
                              offset |-> EndOf(s, EndOf(s, D[i - 1].offset))]
      <3>1. CASE i = 0
        <4>1. SubSeq(kvs, 1, 0) = << >>
          BY <1>0
        <4>2. D[0] = [kvs |-> SubSeq(kvs, 1, 0), offset |-> Len(value[0])]
          BY <1>0
        <4> HIDE DEF D
        <4> QED BY <1>4, <3>1, <4>1, <4>2
      <3>2. CASE i # 0
        <4>1. i \in 1..n /\ i - 1 \in 0..n
          BY <1>0, <3>2
        <4>2. D[i - 1] = [kvs |-> SubSeq(kvs, 1, i - 1), offset |-> Len(value[i - 1])]
          BY <4>1
        <4>3. D[i] = [kvs |-> SubSeq(kvs, 1, i), offset |-> Len(value[i])]
          OBVIOUS
        <4> HIDE DEF D
        <4>4. D[i - 1].kvs = SubSeq(kvs, 1, i - 1) /\ D[i - 1].offset = Len(value[i - 1])
          BY <4>2
        <4>5. Append(SubSeq(kvs, 1, i - 1), kvs[i]) = SubSeq(kvs, 1, i)
          BY <1>0, <4>1, OnePairMore DEF n
        <4>6. kvs[i] = <<kvs[i][1], kvs[i][2]>>
          BY <4>1, VectorsFit DEF n
        <4>7. <<StringAt(s, Len(value[i - 1])), StringAt(s, EndOf(s, Len(value[i - 1])))>> = kvs[i]
          BY <1>6, <4>1, <4>6, Zenon
        <4>8. EndOf(s, EndOf(s, Len(value[i - 1]))) = Len(value[i])
          BY <1>6, <4>1
        <4> QED BY <3>2, <4>3, <4>4, <4>5, <4>7, <4>8, Zenon
      <3> QED BY <3>1, <3>2, Zenon
    <2>2. D = [i \in 0..n |-> D[i]]
      OBVIOUS
    <2> HIDE DEF D
    <2> QED BY <2>1, <2>2, Zenon DEF Reads
  <1> HIDE DEF D
  <1>8. Reads(E, s, n)
    BY <1>5, <1>7, Zenon DEF Reads
  <1>9. DeSerializeValues(s) = E[n]
    BY <1>5, Zenon DEF DeSerializeValues
  <1> HIDE DEF E
  <1>10. E[n] = D[n]
    BY <1>0, <1>7, <1>8, ReadsUnique
  <1>11. D[n] = [kvs |-> SubSeq(kvs, 1, n), offset |-> Len(value[n])]
    BY <1>0 DEF D
  <1>12. SubSeq(kvs, 1, n) = kvs
    BY <1>0 DEF n
  <1>13. DeSerializeValues(s) = [kvs |-> kvs, offset |-> Len(s)]
    BY <1>1, <1>9, <1>10, <1>11, <1>12, Zenon
  <1> QED BY <1>2, <1>13 DEF s

-----------------------------------------------------------------------------
(* The state *)

\* The answers are one per client, and none is an error.
AnswersInv == ans = [c \in Clients |-> ans[c]] /\ \A c \in Clients : ans[c].code = 0

\* A client inside a call has its arguments.
ClientInv(c) ==
  \/ cl[c] = Idle
  \/ /\ cl[c].pc \in {"called", "count"}
     /\ cl[c].pc = "count" => cl[c].call.op = "Read"
     /\ cl[c].call.op \in Ops /\ cl[c].call.key \in Keys
     /\ cl[c].call = [op |-> cl[c].call.op, key |-> cl[c].call.key, fields |-> {},
                      values |-> AsRecord(cl[c].kvs), len |-> 0]
     /\ cl[c] = [pc |-> cl[c].pc, call |-> cl[c].call, kvs |-> cl[c].kvs, reg |-> cl[c].reg]
     /\ cl[c].kvs \in IF cl[c].call.op \in {"Insert", "Update"} THEN Vectors ELSE {<< >>}
     /\ cl[c].reg \in Nat

ClientsInv == cl = [c \in Clients |-> cl[c]] /\ \A c \in Clients : ClientInv(c)

\* The bytes of a key are those of the pairs that were put.
StoreInv ==
  /\ store = [k \in DOMAIN put |-> SerializeValues(put[k])]
  /\ put = [k \in DOMAIN put |-> put[k]]
  /\ \A k \in DOMAIN put : put[k] \in Vectors

ProcInv ==
  /\ proc \in {"new", "open", "exited", "returned"}
  /\ calls \in 0..MaxCalls
  /\ lives \in 1..MaxLives

\* noResult, and what a client has read of it, leave room for every call that
\* is still under way.
Active == {c \in Clients : cl[c].pc # "idle"}

CountInv ==
  /\ noResult \in Nat
  /\ noResult + Cardinality(Active) <= calls
  /\ \A c \in Clients : cl[c].pc = "count" => cl[c].reg + Cardinality(Active) <= calls

RocksInv == AnswersInv /\ ClientsInv /\ StoreInv /\ ProcInv /\ CountInv

LEMMA ActiveFinite ==
  /\ IsFiniteSet(Active) /\ Cardinality(Active) \in Nat
  /\ \A c \in Active : Cardinality(Active \ {c}) = Cardinality(Active) - 1
  /\ \A c : c \notin Active => Cardinality(Active \cup {c}) = Cardinality(Active) + 1
  <1>1. IsFiniteSet(Active)
    BY RocksAssumption, FS_Subset DEF Active
  <1> QED BY <1>1, FS_CardinalityType, FS_RemoveElement, FS_AddElement

LEMMA ClientTypes ==
  ASSUME ClientsInv, NEW c \in Clients
  PROVE  /\ cl[c].reg \in Nat
         /\ cl[c].pc \in {"idle", "called", "count"}
         /\ cl[c].pc # "idle" => cl[c] # Idle /\ cl[c].call.op \in Ops /\ cl[c].call.key \in Keys
         /\ cl[c].call.op \in Ops \cup {"none"}
         /\ cl[c].kvs \in Vectors \cup {<< >>}
  <1>1. CASE cl[c] = Idle
    BY <1>1 DEF Idle, NoCall
  <1>2. CASE cl[c] # Idle
    <2>1. /\ cl[c].reg \in Nat
          /\ cl[c].pc \in {"called", "count"}
          /\ cl[c].call.op \in Ops /\ cl[c].call.key \in Keys
          /\ cl[c].kvs \in IF cl[c].call.op \in {"Insert", "Update"} THEN Vectors ELSE {<< >>}
      BY <1>2, Zenon DEF ClientsInv, ClientInv
    <2> QED BY <1>2, <2>1
  <1> QED BY <1>1, <1>2

\* return DB::kOK: the client is idle, with an answer that is no error.
LEMMA AnswerStep ==
  ASSUME AnswersInv, ClientsInv, NEW c \in Clients, cl[c].pc # "idle",
         NEW rows, Answer(c, rows)
  PROVE  /\ AnswersInv' /\ ClientsInv'
         /\ cl'[c] = Idle /\ \A d \in Clients \ {c} : cl'[d] = cl[d]
         /\ c \in Active /\ Active' = Active \ {c}
  <1>1. cl'[c] = Idle /\ (\A d \in Clients \ {c} : cl'[d] = cl[d])
        /\ cl' = [d \in Clients |-> cl'[d]]
    BY DEF ClientsInv, Answer
  <1>2. ClientsInv'
    <2>1. ClientInv(c)'
      BY <1>1 DEF ClientInv
    <2>2. ASSUME NEW d \in Clients \ {c} PROVE ClientInv(d)'
      BY <1>1 DEF ClientsInv, ClientInv
    <2> QED BY <1>1, <2>1, <2>2 DEF ClientsInv
  <1>3. AnswersInv'
    BY DEF AnswersInv, Answer, Result
  <1>4. Active' = Active \ {c} /\ c \in Active
    BY <1>1 DEF Active, Idle
  <1> QED BY <1>1, <1>2, <1>3, <1>4

\* An answer leaves noResult and what was read of it their room.
LEMMA AnswerCounts ==
  ASSUME CountInv, ProcInv, NEW c \in Active, Active' = Active \ {c},
         cl'[c] = Idle, \A d \in Clients \ {c} : cl'[d] = cl[d], ClientsInv,
         UNCHANGED calls, noResult' \in {noResult, cl[c].reg + 1},
         noResult' # noResult => cl[c].pc = "count"
  PROVE  CountInv'
  <1>1. Cardinality(Active') = Cardinality(Active) - 1 /\ Cardinality(Active) \in Nat
    BY ActiveFinite
  <1>2. c \in Clients /\ calls \in Nat /\ noResult \in Nat
    BY DEF Active, ProcInv, CountInv
  <1>3. noResult' \in Nat /\ noResult' + Cardinality(Active') <= calls'
    <2>1. CASE noResult' = noResult
      BY <1>1, <1>2, <2>1 DEF CountInv
    <2>2. CASE noResult' # noResult
      <3>1. cl[c].reg \in Nat
        BY <1>2, ClientTypes
      <3>2. cl[c].reg + Cardinality(Active) <= calls
        BY <1>2, <2>2 DEF CountInv
      <3> QED BY <1>1, <1>2, <2>2, <3>1, <3>2
    <2> QED BY <2>1, <2>2
  <1>4. ASSUME NEW d \in Clients, cl'[d].pc = "count"
        PROVE  cl'[d].reg + Cardinality(Active') <= calls'
    <2>1. d # c /\ cl'[d] = cl[d]
      BY <1>4 DEF Idle
    <2>2. cl[d].reg \in Nat
      BY ClientTypes
    <2>3. cl[d].reg + Cardinality(Active) <= calls
      BY <1>4, <2>1 DEF CountInv
    <2> QED BY <1>1, <1>2, <2>1, <2>2, <2>3
  <1> QED BY <1>3, <1>4 DEF CountInv

LEMMA SameStore ==
  ASSUME StoreInv, UNCHANGED <<store, put>>
  PROVE  StoreInv'
  BY DEF StoreInv

\* What is put or deleted leaves the store the bytes of the pairs.
LEMMA PutStore ==
  ASSUME StoreInv, NEW k, NEW kvs \in Vectors,
         store' = With(store, k, SerializeValues(kvs)), put' = With(put, k, kvs)
  PROVE  StoreInv'
  BY DEF StoreInv, With

LEMMA DeleteStore ==
  ASSUME StoreInv, NEW k, store' = Restrict(store, DOMAIN store \ {k}),
         put' = Restrict(put, DOMAIN put \ {k})
  PROVE  StoreInv'
  BY DEF StoreInv, Restrict

LEMMA RocksInit == Init => RocksInv
  <1> SUFFICES ASSUME Init PROVE RocksInv
    OBVIOUS
  <1>1. AnswersInv
    BY DEF Init, AnswersInv, NoAnswer
  <1>2. ClientsInv
    BY DEF Init, ClientsInv, ClientInv
  <1>3. StoreInv
    BY DEF Init, StoreInv
  <1>4. ProcInv
    BY RocksAssumption DEF Init, ProcInv
  <1>5. CountInv
    <2>1. Active = {}
      BY DEF Init, Active, Idle
    <2>2. \A c \in Clients : cl[c].pc # "count"
      BY DEF Init, Idle
    <2>3. noResult = 0 /\ calls = 0
      BY DEF Init
    <2> QED BY <2>1, <2>2, <2>3, FS_EmptySet DEF CountInv
  <1> QED BY <1>1, <1>2, <1>3, <1>4, <1>5 DEF RocksInv

\* A client that goes on inside its call.
LEMMA GoesStep ==
  ASSUME RocksInv, NEW c \in Clients, NEW o, Goes(c, o), o.pc # "idle",
         cl[c].pc # "idle"
  PROVE  /\ AnswersInv' /\ cl'[c] = o /\ cl' = [d \in Clients |-> cl'[d]]
         /\ \A d \in Clients \ {c} : cl'[d] = cl[d]
         /\ \A d \in Clients \ {c} : ClientInv(d)'
         /\ Active' = Active
  <1>1. /\ cl'[c] = o /\ cl' = [d \in Clients |-> cl'[d]]
        /\ \A d \in Clients \ {c} : cl'[d] = cl[d]
    BY DEF RocksInv, ClientsInv, Goes
  <1>2. ASSUME NEW d \in Clients \ {c} PROVE ClientInv(d)'
    BY <1>1 DEF RocksInv, ClientsInv, ClientInv
  <1>3. AnswersInv'
    BY DEF RocksInv, AnswersInv, Goes
  <1>4. Active' = Active
    BY <1>1 DEF Active
  <1> QED BY <1>1, <1>2, <1>3, <1>4

LEMMA CallStep ==
  ASSUME RocksInv, NEW c \in Clients, Call(c)
  PROVE  RocksInv'
  <1>1. PICK op \in Ops, k \in Keys :
          \E kvs \in IF op \in {"Insert", "Update"} THEN Vectors ELSE {<< >>} :
            cl' = [cl EXCEPT ![c] =
                     [Idle EXCEPT !.pc = "called", !.kvs = kvs,
                                  !.call = [op |-> op, key |-> k, fields |-> {},
                                            values |-> AsRecord(kvs), len |-> 0]]]
    BY DEF Call
  <1>2. PICK kvs \in IF op \in {"Insert", "Update"} THEN Vectors ELSE {<< >>} :
          cl' = [cl EXCEPT ![c] =
                   [Idle EXCEPT !.pc = "called", !.kvs = kvs,
                                !.call = [op |-> op, key |-> k, fields |-> {},
                                          values |-> AsRecord(kvs), len |-> 0]]]
    BY <1>1
  <1> DEFINE call == [op |-> op, key |-> k, fields |-> {}, values |-> AsRecord(kvs), len |-> 0]
  <1>3. [Idle EXCEPT !.pc = "called", !.kvs = kvs, !.call = call]
          = [pc |-> "called", call |-> call, kvs |-> kvs, reg |-> 0]
    <2> HIDE DEF call
    <2> DEFINE o == [Idle EXCEPT !.pc = "called", !.kvs = kvs, !.call = call]
    <2>1. /\ o.pc = "called" /\ o.call = call /\ o.kvs = kvs /\ o.reg = 0
          /\ DOMAIN o = {"pc", "call", "kvs", "reg"}
      BY DEF Idle
    <2>2. o = [f \in DOMAIN o |-> o[f]]
      OBVIOUS
    <2> HIDE DEF o
    <2>3. o = [pc |-> "called", call |-> call, kvs |-> kvs, reg |-> 0]
      BY <2>1, <2>2
    <2> QED BY <2>3 DEF o
  <1>4. /\ cl'[c] = [pc |-> "called", call |-> call, kvs |-> kvs, reg |-> 0]
        /\ cl' = [d \in Clients |-> cl'[d]]
        /\ \A d \in Clients \ {c} : cl'[d] = cl[d]
    <2> HIDE DEF call
    <2>1. cl' = [cl EXCEPT ![c] = [pc |-> "called", call |-> call, kvs |-> kvs, reg |-> 0]]
      BY <1>2, <1>3 DEF call
    <2> QED BY <2>1 DEF RocksInv, ClientsInv
  <1>5. ClientsInv'
    <2>1. ClientInv(c)'
      BY <1>4 DEF ClientInv
    <2>2. ASSUME NEW d \in Clients \ {c} PROVE ClientInv(d)'
      BY <1>4 DEF RocksInv, ClientsInv, ClientInv
    <2> QED BY <1>4, <2>1, <2>2 DEF ClientsInv
  <1>6. AnswersInv'
    BY DEF RocksInv, AnswersInv, Call, NoAnswer
  <1>7. StoreInv' /\ ProcInv'
    <2> HIDE DEF call
    <2>1. UNCHANGED <<store, put, proc, lives>> /\ calls < MaxCalls /\ calls' = calls + 1
      BY DEF Call
    <2>2. StoreInv'
      BY <2>1, SameStore DEF RocksInv
    <2>3. ProcInv'
      BY <2>1, RocksAssumption DEF RocksInv, ProcInv
    <2> QED BY <2>2, <2>3
  <1>8. CountInv'
    <2>1. Active' = Active \cup {c} /\ c \notin Active
      BY <1>4 DEF Active, Call
    <2>2. Cardinality(Active') = Cardinality(Active) + 1 /\ Cardinality(Active) \in Nat
      BY <2>1, ActiveFinite
    <2>3. /\ noResult' = noResult /\ noResult \in Nat /\ calls' = calls + 1 /\ calls \in Nat
          /\ noResult + Cardinality(Active) <= calls
      BY DEF Call, RocksInv, CountInv, ProcInv
    <2>4. ASSUME NEW d \in Clients, cl'[d].pc = "count"
          PROVE  cl'[d].reg + Cardinality(Active') <= calls'
      <3>1. d # c /\ cl'[d] = cl[d]
        BY <1>4, <2>4
      <3>2. cl[d].reg \in Nat
        BY ClientTypes DEF RocksInv
      <3>3. cl[d].reg + Cardinality(Active) <= calls
        BY <2>4, <3>1 DEF RocksInv, CountInv
      <3> QED BY <2>2, <2>3, <3>1, <3>2, <3>3
    <2> QED BY <2>2, <2>3, <2>4 DEF CountInv
  <1> QED BY <1>5, <1>6, <1>7, <1>8 DEF RocksInv

\* The steps that answer: a hit, a counted miss, a scan, a put, a delete.
LEMMA AnsweringStep ==
  ASSUME RocksInv, NEW c \in Clients,
         ReadHit(c) \/ ReadCount(c) \/ Scan(c) \/ Insert(c) \/ Delete(c)
  PROVE  RocksInv'
  <1>1. PICK rows : Answer(c, rows)
    BY DEF ReadHit, ReadCount, Scan, Insert, Delete
  <1>2. cl[c].pc # "idle"
    BY DEF ReadHit, ReadCount, Scan, Insert, Delete, In
  <1>3. /\ AnswersInv' /\ ClientsInv'
        /\ cl'[c] = Idle /\ \A d \in Clients \ {c} : cl'[d] = cl[d]
        /\ c \in Active /\ Active' = Active \ {c}
    BY <1>1, <1>2, AnswerStep DEF RocksInv
  <1>4. UNCHANGED <<proc, calls, lives>>
    BY DEF ReadHit, ReadCount, Scan, Insert, Delete
  <1>5. /\ noResult' \in {noResult, cl[c].reg + 1}
        /\ noResult' # noResult => cl[c].pc = "count"
    BY DEF ReadHit, ReadCount, Scan, Insert, Delete, In
  <1>6. CountInv'
    BY <1>3, <1>4, <1>5, AnswerCounts DEF RocksInv
  <1>7. ProcInv'
    BY <1>4 DEF RocksInv, ProcInv
  <1>8. StoreInv'
    <2>1. CASE ReadHit(c) \/ ReadCount(c) \/ Scan(c)
      BY <2>1, SameStore DEF RocksInv, ReadHit, ReadCount, Scan
    <2>2. CASE Insert(c)
      <3>1. cl[c].kvs \in Vectors
        <4>1. cl[c].call.op \in {"Insert", "Update"} /\ cl[c] # Idle
          BY <2>2 DEF Insert, In, Idle, NoCall
        <4> QED BY <4>1 DEF RocksInv, ClientsInv, ClientInv
      <3> QED BY <2>2, <3>1, PutStore DEF RocksInv, Insert
    <2>3. CASE Delete(c)
      BY <2>3, DeleteStore DEF RocksInv, Delete
    <2> QED BY <2>1, <2>2, <2>3
  <1> QED BY <1>3, <1>6, <1>7, <1>8 DEF RocksInv

LEMMA ReadMissStep ==
  ASSUME RocksInv, NEW c \in Clients, ReadMiss(c)
  PROVE  RocksInv'
  <1> DEFINE o == [cl[c] EXCEPT !.pc = "count", !.reg = noResult]
  <1>1. /\ cl[c].pc = "called" /\ cl[c].call.op = "Read" /\ Goes(c, o)
        /\ UNCHANGED <<store, put, proc, noResult, calls, lives>>
    BY DEF ReadMiss, In
  <1>2. /\ cl[c] # Idle
        /\ cl[c] = [pc |-> cl[c].pc, call |-> cl[c].call, kvs |-> cl[c].kvs, reg |-> cl[c].reg]
        /\ ClientInv(c)
    <2>1. cl[c] # Idle
      BY <1>1 DEF Idle
    <2>2. ClientInv(c)
      BY DEF RocksInv, ClientsInv
    <2> QED BY <2>1, <2>2, Zenon DEF ClientInv
  <1>3. o = [pc |-> "count", call |-> cl[c].call, kvs |-> cl[c].kvs, reg |-> noResult]
    <2>1. /\ o.pc = "count" /\ o.call = cl[c].call /\ o.kvs = cl[c].kvs /\ o.reg = noResult
          /\ DOMAIN o = {"pc", "call", "kvs", "reg"}
      BY <1>2
    <2>2. o = [f \in DOMAIN o |-> o[f]]
      OBVIOUS
    <2> HIDE DEF o
    <2> QED BY <2>1, <2>2
  <1> HIDE DEF o
  <1>4. /\ AnswersInv' /\ cl'[c] = o /\ cl' = [d \in Clients |-> cl'[d]]
        /\ \A d \in Clients \ {c} : cl'[d] = cl[d]
        /\ \A d \in Clients \ {c} : ClientInv(d)'
        /\ Active' = Active
    BY <1>1, <1>3, GoesStep
  <1>5. noResult \in Nat
    BY DEF RocksInv, CountInv
  <1>6. ClientInv(c)'
    <2>1. /\ cl'[c].pc = "count" /\ cl'[c].call = cl[c].call /\ cl'[c].kvs = cl[c].kvs
          /\ cl'[c].reg = noResult
          /\ cl'[c] = [pc |-> cl'[c].pc, call |-> cl'[c].call, kvs |-> cl'[c].kvs, reg |-> cl'[c].reg]
      BY <1>3, <1>4
    <2>2. /\ cl[c].call.op \in Ops /\ cl[c].call.key \in Keys
          /\ cl[c].call = [op |-> cl[c].call.op, key |-> cl[c].call.key, fields |-> {},
                           values |-> AsRecord(cl[c].kvs), len |-> 0]
          /\ cl[c].kvs \in IF cl[c].call.op \in {"Insert", "Update"} THEN Vectors ELSE {<< >>}
      BY <1>2, Zenon DEF ClientInv
    <2>3. cl'[c].pc \in {"called", "count"} /\ cl'[c].reg \in Nat
      BY <1>5, <2>1
    <2> QED BY <1>1, <2>1, <2>2, <2>3, Zenon DEF ClientInv
  <1>7. ClientsInv'
    BY <1>4, <1>6 DEF ClientsInv
  <1>8. StoreInv' /\ ProcInv'
    BY <1>1, SameStore DEF RocksInv, ProcInv
  <1>9. CountInv'
    <2>1. ASSUME NEW d \in Clients, cl'[d].pc = "count"
          PROVE  cl'[d].reg + Cardinality(Active') <= calls'
      <3>1. CASE d = c
        BY <1>1, <1>3, <1>4, <3>1 DEF RocksInv, CountInv
      <3>2. CASE d # c
        BY <1>1, <1>4, <2>1, <3>2 DEF RocksInv, CountInv
      <3> QED BY <3>1, <3>2
    <2>2. noResult' \in Nat /\ noResult' + Cardinality(Active') <= calls'
      BY <1>1, <1>4 DEF RocksInv, CountInv
    <2> QED BY <2>1, <2>2 DEF CountInv
  <1> QED BY <1>4, <1>7, <1>8, <1>9 DEF RocksInv

LEMMA RestartStep ==
  ASSUME RocksInv, Restart
  PROVE  RocksInv'
  <1>1. \A c \in Clients : cl'[c] = Idle
    BY DEF Restart
  <1>2. ClientsInv'
    BY <1>1 DEF Restart, ClientsInv, ClientInv
  <1>3. AnswersInv'
    BY DEF Restart, AnswersInv, NoAnswer
  <1>4. StoreInv' /\ ProcInv'
    BY SameStore, RocksAssumption DEF RocksInv, ProcInv, Restart
  <1>5. CountInv'
    <2>1. Active' = {} /\ \A c \in Clients : cl'[c].pc # "count"
      BY <1>1 DEF Active, Idle
    <2>2. noResult' = 0 /\ calls' \in Nat /\ Cardinality(Active') = 0
      BY <2>1, FS_EmptySet DEF Restart, RocksInv, ProcInv
    <2> QED BY <2>1, <2>2 DEF CountInv
  <1> QED BY <1>2, <1>3, <1>4, <1>5 DEF RocksInv

LEMMA RocksStep == RocksInv /\ [Next]_vars => RocksInv'
  <1> SUFFICES ASSUME RocksInv, [Next]_vars PROVE RocksInv'
    OBVIOUS
  <1>1. CASE Construct \/ ConstructExit \/ Destroy \/ \E c \in Clients : Fails(c)
    <2>1. UNCHANGED <<store, put, cl, ans, noResult, calls, lives>>
          /\ proc' \in {"new", "open", "exited", "returned"}
      BY <1>1 DEF Construct, ConstructExit, Destroy, Fails
    <2>2. AnswersInv' /\ StoreInv' /\ ProcInv' /\ Active' = Active
      BY <2>1 DEF RocksInv, AnswersInv, StoreInv, ProcInv, Active
    <2>3. ClientsInv'
      BY <2>1 DEF RocksInv, ClientsInv, ClientInv
    <2>4. CountInv'
      BY <2>1, <2>2 DEF RocksInv, CountInv
    <2> QED BY <2>2, <2>3, <2>4 DEF RocksInv
  <1>2. CASE Restart
    BY <1>2, RestartStep
  <1>3. CASE Over \/ UNCHANGED vars
    <2>1. UNCHANGED <<store, put, proc, cl, ans, noResult, calls, lives>>
      BY <1>3 DEF Over, vars
    <2>2. Active' = Active
      BY <2>1 DEF Active
    <2> QED BY <2>1, <2>2
        DEF RocksInv, AnswersInv, ClientsInv, ClientInv, StoreInv, ProcInv, CountInv
  <1>4. ASSUME NEW c \in Clients,
               \/ Call(c) \/ ReadHit(c) \/ ReadMiss(c) \/ ReadCount(c)
               \/ Scan(c) \/ Insert(c) \/ Delete(c)
        PROVE  RocksInv'
    BY <1>4, CallStep, ReadMissStep, AnsweringStep
  <1> QED BY <1>1, <1>2, <1>3, <1>4, Zenon DEF Next

LEMMA RocksInvariant == Spec => []RocksInv
  BY RocksInit, RocksStep, PTL DEF Spec

-----------------------------------------------------------------------------
(* Theorems *)

(***************************************************************************)
(* The store holds bytes, the clients are where the code can be, and       *)
(* noResult never exceeds the calls: noResult++ is a load and a store, and *)
(* what is stored was loaded while the client's own call was under way.    *)
(***************************************************************************)
THEOREM RocksTypeCorrect == Spec => []RocksTypeOK
  <1>1. ASSUME RocksInv PROVE RocksTypeOK
    <2>1. Range(store) \subseteq Seq(Byte)
      <3>1. \A k \in DOMAIN put : SerializeValues(put[k]) \in Seq(Byte)
        BY <1>1, RoundTrip DEF RocksInv, StoreInv
      <3> QED BY <1>1, <3>1 DEF RocksInv, StoreInv, Range
    <2>2. noResult \in 0..MaxCalls
      BY <1>1, ActiveFinite, RocksAssumption DEF RocksInv, CountInv, ProcInv
    <2>3. \A c \in Clients : ans[c].code = 0
      BY <1>1 DEF RocksInv, AnswersInv
    <2> QED BY <1>1, <2>1, <2>2, <2>3, ClientTypes DEF RocksTypeOK, RocksInv, ProcInv
  <1> QED BY <1>1, RocksInvariant, PTL

(***************************************************************************)
(* Whatever is stored decodes to the pairs that were put, and the decoder, *)
(* which checks no length it finds against value.size(), ends at the last  *)
(* byte.                                                                   *)
(***************************************************************************)
THEOREM StoreDecodes == Spec => []DecodesExactly
  <1>1. ASSUME RocksInv PROVE DecodesExactly
    <2>1. DOMAIN store = DOMAIN put
      BY <1>1 DEF RocksInv, StoreInv
    <2>2. ASSUME NEW k \in DOMAIN store
          PROVE  DeSerializeValues(store[k]) = [kvs |-> put[k], offset |-> Len(store[k])]
      <3>1. store[k] = SerializeValues(put[k]) /\ put[k] \in Vectors
        BY <1>1, <2>1 DEF RocksInv, StoreInv
      <3> QED BY <3>1, RoundTrip
    <2> QED BY <2>1, <2>2 DEF DecodesExactly
  <1> QED BY <1>1, RocksInvariant, PTL

-----------------------------------------------------------------------------
(* The blob contract *)

\* The records and the answers of the refinement mapping.
Recs == [k \in DOMAIN put |-> AsRecord(put[k])]
Bar  == [c \in Clients |-> IF cl[c].pc = "count" THEN Result(c, << >>) ELSE ans[c]]

\* Client c is given the answer to a call.
Given(c, op, k, r, rows) ==
  Bar' = [Bar EXCEPT ![c] =
            [call |-> [op |-> op, key |-> k, fields |-> {}, values |-> r, len |-> 0],
             code |-> 0, rows |-> rows]]

\* What the contract says of them: at first, when nothing happens, when the
\* process is gone...
LEMMA BlobProcess ==
  /\ Recs = << >> /\ Bar = [c \in Clients |-> NoAnswer] => Blobs!Init
  /\ Recs' = Recs /\ Bar' = Bar => UNCHANGED Blobs!vars
  /\ Recs' = Recs /\ Bar' = [c \in Clients |-> NoAnswer] => Blobs!Lose
  <1>1. Recs = << >> /\ Bar = [c \in Clients |-> NoAnswer] => Blobs!Init
    BY Zenon DEF Recs, Bar, Blobs!Init, Blobs!NoAnswer, Blobs!Call, Blobs!kOK, NoAnswer, NoCall
  <1>2. Recs' = Recs /\ Bar' = Bar => UNCHANGED Blobs!vars
    BY DEF Recs, Bar, Blobs!vars
  <1>3. Recs' = Recs /\ Bar' = [c \in Clients |-> NoAnswer] => Blobs!Lose
    BY Zenon DEF Recs, Bar, Blobs!Lose, Blobs!NoAnswer, Blobs!Call, Blobs!kOK, NoAnswer, NoCall
  <1> QED BY <1>1, <1>2, <1>3

\* ...and when a client calls or is answered.
LEMMA BlobCalls ==
  ASSUME NEW c \in Clients, NEW k \in Keys
  PROVE  /\ Recs' = Recs /\ Bar' = [Bar EXCEPT ![c] = NoAnswer] => Blobs!BlobNext
         /\ /\ Recs' = Recs
            /\ Given(c, "Read", k, << >>, IF k \in DOMAIN Recs THEN <<Recs[k]>> ELSE << >>)
            => Blobs!BlobNext
         /\ Recs' = Recs /\ Given(c, "Scan", k, << >>, << >>) => Blobs!BlobNext
         /\ /\ Recs' = Restrict(Recs, DOMAIN Recs \ {k})
            /\ Given(c, "Delete", k, << >>, << >>)
            => Blobs!BlobNext
         /\ \A op \in {"Insert", "Update"}, r \in Blobs!Records :
              Recs' = With(Recs, k, r) /\ Given(c, op, k, r, << >>) => Blobs!BlobNext
  <1>1. Recs' = Recs /\ Bar' = [Bar EXCEPT ![c] = NoAnswer] => Blobs!Begin(c)
    BY Zenon DEF Recs, Bar, Blobs!Begin, Blobs!NoAnswer, Blobs!Call, Blobs!kOK, NoAnswer, NoCall
  <1>2. /\ Recs' = Recs
        /\ Given(c, "Read", k, << >>, IF k \in DOMAIN Recs THEN <<Recs[k]>> ELSE << >>)
        => Blobs!BlobRead(c, k)
    BY Zenon DEF Given, Recs, Bar, Blobs!BlobRead, Blobs!Give, Blobs!Call, Blobs!kOK
  <1>3. Recs' = Recs /\ Given(c, "Scan", k, << >>, << >>) => Blobs!BlobScan(c, k)
    BY Zenon DEF Given, Recs, Bar, Blobs!BlobScan, Blobs!Give, Blobs!Call, Blobs!kOK
  <1>4. /\ Recs' = Restrict(Recs, DOMAIN Recs \ {k})
        /\ Given(c, "Delete", k, << >>, << >>)
        => Blobs!BlobDelete(c, k)
    BY Zenon DEF Given, Recs, Bar, Restrict, Blobs!Restrict, Blobs!BlobDelete, Blobs!Give,
                 Blobs!Call, Blobs!kOK
  <1>5. ASSUME NEW op \in {"Insert", "Update"}, NEW r \in Blobs!Records,
               Recs' = With(Recs, k, r), Given(c, op, k, r, << >>)
        PROVE  Blobs!BlobWrite(c, op, k, r)
    <2>1. With(Recs, k, r) = Blobs!Over(Recs, [x \in {k} |-> r])
      BY DEF With, Blobs!Over
    <2>2. Recs' = Blobs!Over(Recs, [x \in {k} |-> r])
      BY <1>5, <2>1
    <2> QED BY <1>5, <2>2, Zenon
        DEF Given, Recs, Bar, Blobs!BlobWrite, Blobs!Write, Blobs!Give, Blobs!Call, Blobs!kOK
  <1> QED BY <1>1, <1>2, <1>3, <1>4, <1>5, Zenon DEF Blobs!BlobNext

\* A vector of pairs with distinct fields stands for a record.
LEMMA AsRecordType ==
  /\ \A kvs \in Vectors : AsRecord(kvs) \in Blobs!Records
  /\ AsRecord(<< >>) = << >>
  <1>1. ASSUME NEW kvs \in Vectors PROVE AsRecord(kvs) \in Blobs!Records
    <2> DEFINE fs == {kvs[i][1] : i \in DOMAIN kvs}
    <2>1. kvs \in Seq(Fields \X Values)
      BY RocksAssumption
    <2>2. fs \in SUBSET Fields
      BY <2>1
    <2>3. ASSUME NEW f \in fs PROVE (CHOOSE v \in Range(kvs) : v[1] = f)[2] \in Values
      <3>1. PICK i \in DOMAIN kvs : kvs[i][1] = f
        OBVIOUS
      <3>2. kvs[i] \in Range(kvs) /\ Range(kvs) \subseteq Fields \X Values
        BY <2>1, <3>1 DEF Range
      <3>3. (CHOOSE v \in Range(kvs) : v[1] = f) \in Range(kvs)
        BY <3>1, <3>2, Zenon
      <3> QED BY <3>2, <3>3
    <2>4. AsRecord(kvs) \in [fs -> Values]
      BY <2>3 DEF AsRecord
    <2> HIDE DEF fs
    <2> QED BY <2>2, <2>4 DEF Blobs!Records
  <1>2. AsRecord(<< >>) = << >>
    BY DEF AsRecord
  <1> QED BY <1>1, <1>2

\* An answer, in the mapping.
LEMMA BarAnswer ==
  ASSUME RocksInv, NEW c \in Clients, cl[c].pc # "idle", NEW rows, Answer(c, rows)
  PROVE  Given(c, cl[c].call.op, cl[c].call.key, AsRecord(cl[c].kvs), rows)
  <1>1. cl'[c] = Idle /\ \A d \in Clients \ {c} : cl'[d] = cl[d]
    BY AnswerStep DEF RocksInv
  <1>2. ans'[c] = Result(c, rows) /\ \A d \in Clients \ {c} : ans'[d] = ans[d]
    BY DEF RocksInv, AnswersInv, Answer
  <1>3. cl'[c].pc # "count" /\ cl[c] # Idle
    BY <1>1 DEF Idle
  <1>4. cl[c].call = [op |-> cl[c].call.op, key |-> cl[c].call.key, fields |-> {},
                      values |-> AsRecord(cl[c].kvs), len |-> 0]
    BY <1>3, Zenon DEF RocksInv, ClientsInv, ClientInv
  <1>5. Bar'[c] = Result(c, rows)
    BY <1>2, <1>3 DEF Bar
  <1>6. ASSUME NEW d \in Clients \ {c} PROVE Bar'[d] = Bar[d]
    BY <1>1, <1>2 DEF Bar, Result
  <1>7. Bar' = [d \in Clients |-> Bar'[d]] /\ Bar = [d \in Clients |-> Bar[d]]
    BY DEF Bar
  <1>8. Bar' = [Bar EXCEPT ![c] = Result(c, rows)]
    BY <1>5, <1>6, <1>7
  <1> QED BY <1>4, <1>8, Zenon DEF Given, Result

\* The arguments of a call that is under way.
LEMMA Arguments ==
  ASSUME RocksInv, NEW c \in Clients, cl[c].pc # "idle"
  PROVE  /\ cl[c].call.key \in Keys
         /\ cl[c].call = [op |-> cl[c].call.op, key |-> cl[c].call.key, fields |-> {},
                          values |-> AsRecord(cl[c].kvs), len |-> 0]
         /\ cl[c].call.op \in {"Insert", "Update"} => cl[c].kvs \in Vectors
         /\ cl[c].call.op \notin {"Insert", "Update"} => cl[c].kvs = << >>
         /\ cl[c].pc = "count" => cl[c].call.op = "Read"
  <1>1. cl[c] # Idle
    BY DEF Idle
  <1>2. /\ cl[c].call.key \in Keys
        /\ cl[c].call = [op |-> cl[c].call.op, key |-> cl[c].call.key, fields |-> {},
                         values |-> AsRecord(cl[c].kvs), len |-> 0]
        /\ cl[c].kvs \in IF cl[c].call.op \in {"Insert", "Update"} THEN Vectors ELSE {<< >>}
        /\ cl[c].pc = "count" => cl[c].call.op = "Read"
    BY <1>1, Zenon DEF RocksInv, ClientsInv, ClientInv
  <1> QED BY <1>2, Zenon

LEMMA BlobReads ==
  ASSUME RocksInv, NEW c \in Clients, ReadHit(c) \/ ReadMiss(c)
  PROVE  Blobs!BlobNext
  <1> DEFINE k == cl[c].call.key
  <1>1. /\ cl[c].pc = "called" /\ cl[c].call.op = "Read"
        /\ UNCHANGED put
    BY DEF ReadHit, ReadMiss, In
  <1>2. k \in Keys /\ cl[c].kvs = << >> /\ AsRecord(cl[c].kvs) = << >>
    BY <1>1, Arguments, AsRecordType
  <1>3. Recs' = Recs /\ DOMAIN Recs = DOMAIN store /\ DOMAIN put = DOMAIN store
    BY <1>1 DEF Recs, RocksInv, StoreInv
  <1>4. CASE ReadHit(c)
    <2>1. k \in DOMAIN store /\ Answer(c, <<AsRecord(DeSerializeValues(store[k]).kvs)>>)
      BY <1>4 DEF ReadHit
    <2>2. store[k] = SerializeValues(put[k]) /\ put[k] \in Vectors
      BY <1>3, <2>1 DEF RocksInv, StoreInv
    <2>3. DeSerializeValues(store[k]).kvs = put[k]
      BY <2>2, RoundTrip
    <2>4. Recs[k] = AsRecord(put[k])
      BY <1>3, <2>1 DEF Recs
    <2>5. Answer(c, IF k \in DOMAIN Recs THEN <<Recs[k]>> ELSE << >>)
      BY <1>3, <2>1, <2>3, <2>4, Zenon
    <2> DEFINE rows == IF k \in DOMAIN Recs THEN <<Recs[k]>> ELSE << >>
    <2> HIDE DEF rows
    <2>6. Given(c, "Read", k, << >>, rows)
      <3>1. Given(c, cl[c].call.op, k, AsRecord(cl[c].kvs), rows)
        BY <1>1, <2>5, BarAnswer DEF rows
      <3> QED BY <1>1, <1>2, <3>1, Zenon
    <2> QED BY <1>2, <1>3, <2>6, BlobCalls, Zenon DEF rows
  <1>5. CASE ReadMiss(c)
    <2> DEFINE o == [cl[c] EXCEPT !.pc = "count", !.reg = noResult]
    <2>1. k \notin DOMAIN Recs /\ Goes(c, o)
      BY <1>3, <1>5 DEF ReadMiss
    <2>2. cl[c] = [pc |-> cl[c].pc, call |-> cl[c].call, kvs |-> cl[c].kvs, reg |-> cl[c].reg]
      <3>1. cl[c] # Idle
        BY <1>1 DEF Idle
      <3> QED BY <3>1, Zenon DEF RocksInv, ClientsInv, ClientInv
    <2>3. o.pc = "count" /\ o.call = cl[c].call
      BY <2>2
    <2> HIDE DEF o
    <2>4. cl'[c] = o /\ \A d \in Clients \ {c} : cl'[d] = cl[d]
      BY <1>1, <2>1, <2>3, GoesStep
    <2>5. Bar'[c] = [call |-> cl[c].call, code |-> 0, rows |-> << >>]
      BY <2>3, <2>4 DEF Bar, Result
    <2>6. ASSUME NEW d \in Clients \ {c} PROVE Bar'[d] = Bar[d]
      BY <2>1, <2>4 DEF Bar, Result, Goes
    <2>7. Bar' = [d \in Clients |-> Bar'[d]] /\ Bar = [d \in Clients |-> Bar[d]]
      BY DEF Bar
    <2>8. Bar' = [Bar EXCEPT ![c] = [call |-> cl[c].call, code |-> 0, rows |-> << >>]]
      BY <2>5, <2>6, <2>7
    <2>9. cl[c].call = [op |-> "Read", key |-> k, fields |-> {}, values |-> << >>, len |-> 0]
      <3>1. cl[c].call = [op |-> cl[c].call.op, key |-> k, fields |-> {},
                          values |-> AsRecord(cl[c].kvs), len |-> 0]
        BY <1>1, Arguments
      <3> QED BY <1>1, <1>2, <3>1, Zenon
    <2>10. Given(c, "Read", k, << >>, << >>)
      BY <2>8, <2>9, Zenon DEF Given
    <2>11. (IF k \in DOMAIN Recs THEN <<Recs[k]>> ELSE << >>) = << >>
      BY <2>1
    <2>12. Given(c, "Read", k, << >>, IF k \in DOMAIN Recs THEN <<Recs[k]>> ELSE << >>)
      BY <2>10, <2>11, Zenon
    <2> QED BY <1>2, <1>3, <2>12, BlobCalls
  <1> QED BY <1>4, <1>5

LEMMA BlobWrites ==
  ASSUME RocksInv, NEW c \in Clients, Scan(c) \/ Insert(c) \/ Delete(c)
  PROVE  Blobs!BlobNext
  <1> DEFINE k == cl[c].call.key
  <1>1. cl[c].pc = "called" /\ Answer(c, << >>)
    BY DEF Scan, Insert, Delete, In
  <1>2. /\ k \in Keys
        /\ cl[c].call.op \in {"Insert", "Update"} => cl[c].kvs \in Vectors
        /\ cl[c].call.op \notin {"Insert", "Update"} => cl[c].kvs = << >>
    BY <1>1, Arguments
  <1>3. Given(c, cl[c].call.op, k, AsRecord(cl[c].kvs), << >>)
    BY <1>1, BarAnswer
  <1>4. CASE Scan(c)
    <2>1. cl[c].call.op = "Scan" /\ UNCHANGED put
      BY <1>4 DEF Scan, In
    <2>2. AsRecord(cl[c].kvs) = << >> /\ Recs' = Recs
      BY <1>2, <2>1, AsRecordType DEF Recs
    <2>3. Given(c, "Scan", k, << >>, << >>)
      BY <1>3, <2>1, <2>2, Zenon
    <2> QED BY <1>2, <2>2, <2>3, BlobCalls
  <1>5. CASE Delete(c)
    <2>1. cl[c].call.op = "Delete" /\ put' = Restrict(put, DOMAIN put \ {k})
      BY <1>5 DEF Delete, In
    <2>2. AsRecord(cl[c].kvs) = << >>
      BY <1>2, <2>1, AsRecordType
    <2>3. Recs' = Restrict(Recs, DOMAIN Recs \ {k})
      BY <2>1 DEF Recs, Restrict
    <2>4. Given(c, "Delete", k, << >>, << >>)
      BY <1>3, <2>1, <2>2, Zenon
    <2> QED BY <1>2, <2>3, <2>4, BlobCalls
  <1>6. CASE Insert(c)
    <2>1. cl[c].call.op \in {"Insert", "Update"} /\ put' = With(put, k, cl[c].kvs)
      BY <1>6 DEF Insert, In
    <2> DEFINE r == AsRecord(cl[c].kvs)
    <2>2. r \in Blobs!Records
      BY <1>2, <2>1, AsRecordType
    <2>3. Recs' = With(Recs, k, r)
      BY <2>1 DEF Recs, With
    <2> HIDE DEF r
    <2> QED BY <1>2, <1>3, <2>1, <2>2, <2>3, BlobCalls DEF r
  <1> QED BY <1>4, <1>5, <1>6

LEMMA BlobCall ==
  ASSUME RocksInv, NEW c \in Clients, Call(c)
  PROVE  Blobs!BlobNext
  <1>0. PICK k \in Keys : TRUE
    BY DEF Call
  <1>1. PICK o : o.pc = "called" /\ cl' = [cl EXCEPT ![c] = o]
    <2>1. PICK op \in Ops, j \in Keys :
            \E kvs \in IF op \in {"Insert", "Update"} THEN Vectors ELSE {<< >>} :
              cl' = [cl EXCEPT ![c] =
                       [Idle EXCEPT !.pc = "called", !.kvs = kvs,
                                    !.call = [op |-> op, key |-> j, fields |-> {},
                                              values |-> AsRecord(kvs), len |-> 0]]]
      BY DEF Call
    <2>2. PICK kvs :
            cl' = [cl EXCEPT ![c] =
                     [Idle EXCEPT !.pc = "called", !.kvs = kvs,
                                  !.call = [op |-> op, key |-> j, fields |-> {},
                                            values |-> AsRecord(kvs), len |-> 0]]]
      BY <2>1
    <2> DEFINE o == [Idle EXCEPT !.pc = "called", !.kvs = kvs,
                                 !.call = [op |-> op, key |-> j, fields |-> {},
                                           values |-> AsRecord(kvs), len |-> 0]]
    <2>3. o.pc = "called"
      BY DEF Idle
    <2>4. cl' = [cl EXCEPT ![c] = o]
      BY <2>2
    <2> HIDE DEF o
    <2> QED BY <2>3, <2>4
  <1>2. cl'[c] = o /\ \A d \in Clients \ {c} : cl'[d] = cl[d]
    BY <1>1 DEF RocksInv, ClientsInv
  <1>3. ans'[c] = NoAnswer /\ \A d \in Clients \ {c} : ans'[d] = ans[d]
    BY DEF RocksInv, AnswersInv, Call
  <1>4. Bar'[c] = NoAnswer
    BY <1>1, <1>2, <1>3 DEF Bar
  <1>5. ASSUME NEW d \in Clients \ {c} PROVE Bar'[d] = Bar[d]
    BY <1>2, <1>3 DEF Bar, Result
  <1>6. Bar' = [d \in Clients |-> Bar'[d]] /\ Bar = [d \in Clients |-> Bar[d]]
    BY DEF Bar
  <1>7. Bar' = [Bar EXCEPT ![c] = NoAnswer]
    BY <1>4, <1>5, <1>6
  <1>8. Recs' = Recs
    BY DEF Recs, Call
  <1> QED BY <1>7, <1>8, BlobCalls

\* A miss is settled when it is found, so that counting it changes nothing.
LEMMA BlobCount ==
  ASSUME RocksInv, NEW c \in Clients, ReadCount(c)
  PROVE  UNCHANGED Blobs!vars
  <1>1. cl[c].pc = "count" /\ Answer(c, << >>) /\ UNCHANGED put
    BY DEF ReadCount, In
  <1>2. cl'[c] = Idle /\ \A d \in Clients \ {c} : cl'[d] = cl[d]
    BY <1>1, AnswerStep DEF RocksInv
  <1>3. ans'[c] = Result(c, << >>) /\ \A d \in Clients \ {c} : ans'[d] = ans[d]
    BY <1>1 DEF RocksInv, AnswersInv, Answer
  <1>4. cl'[c].pc # "count"
    BY <1>2 DEF Idle
  <1>5. Bar'[c] = Bar[c]
    BY <1>1, <1>3, <1>4 DEF Bar
  <1>6. ASSUME NEW d \in Clients \ {c} PROVE Bar'[d] = Bar[d]
    BY <1>2, <1>3 DEF Bar, Result
  <1>7. Bar' = [d \in Clients |-> Bar'[d]] /\ Bar = [d \in Clients |-> Bar[d]]
    BY DEF Bar
  <1>8. Bar' = Bar
    BY <1>5, <1>6, <1>7
  <1>9. Recs' = Recs
    BY <1>1 DEF Recs
  <1> QED BY <1>8, <1>9, BlobProcess

(***************************************************************************)
(* Whatever the clients of the local RocksDB do meanwhile, each call has   *)
(* the effect and the answer of the blob contract at one instant: a write  *)
(* at Put, a hit and a miss at Get.  A process that is killed loses its    *)
(* answers and no record.                                                  *)
(***************************************************************************)
THEOREM RocksImplementsBlobs == Spec => ImplementsBlobs
  <1>1. Init => Blobs!Init
    <2> SUFFICES ASSUME Init PROVE Blobs!Init
      OBVIOUS
    <2>1. Recs = << >>
      BY DEF Init, Recs
    <2>2. Bar = [c \in Clients |-> NoAnswer]
      BY DEF Init, Bar, Idle
    <2> QED BY <2>1, <2>2, BlobProcess
  <1>2. RocksInv /\ [Next]_vars => [Blobs!BlobNext]_(Blobs!vars)
    <2> SUFFICES ASSUME RocksInv, [Next]_vars PROVE Blobs!BlobNext \/ UNCHANGED Blobs!vars
      OBVIOUS
    <2>1. CASE \/ Construct \/ ConstructExit \/ Destroy \/ Over \/ UNCHANGED vars
               \/ \E c \in Clients : Fails(c)
      <3>1. UNCHANGED <<put, cl, ans>>
        BY <2>1 DEF Construct, ConstructExit, Destroy, Over, Fails, vars
      <3>2. Recs' = Recs /\ Bar' = Bar
        BY <3>1 DEF Recs, Bar, Result
      <3> QED BY <3>2, BlobProcess
    <2>2. CASE Restart
      <3>1. Recs' = Recs
        BY <2>2 DEF Restart, Recs
      <3>2. Bar' = [c \in Clients |-> NoAnswer]
        BY <2>2 DEF Restart, Bar, Idle
      <3>3. Blobs!Lose
        BY <3>1, <3>2, BlobProcess
      <3> QED BY <3>3 DEF Blobs!BlobNext
    <2>3. ASSUME NEW c \in Clients,
                 \/ Call(c) \/ ReadHit(c) \/ ReadMiss(c) \/ ReadCount(c)
                 \/ Scan(c) \/ Insert(c) \/ Delete(c)
          PROVE  Blobs!BlobNext \/ UNCHANGED Blobs!vars
      BY <2>3, BlobCall, BlobReads, BlobCount, BlobWrites
    <2> QED BY <2>1, <2>2, <2>3, Zenon DEF Next
  <1> QED BY <1>1, <1>2, RocksInvariant, PTL DEF Spec, ImplementsBlobs, Blobs!BlobSpec
=============================================================================
