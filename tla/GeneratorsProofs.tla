-------------------------- MODULE GeneratorsProofs --------------------------
(***************************************************************************)
(* Proofs about Generators, for every number of workers and transactions,  *)
(* every mix of operations, every distribution and every hash.             *)
(***************************************************************************)
EXTENDS Generators, SequenceTheorems, NaturalsInduction, WellFoundedInduction, TLAPS

Operations == {"READ", "UPDATE", "INSERT", "SCAN", "RMW"}

\* A worker's record: it always has a call to make.
Todos == Seq(Gens) \ {<< >>}
WorkerRecord ==
  [pc : {"call", "load", "store", "unlock", "choose"}, todo : Todos,
   reg : 0..(Period - 1), u : 0..(Grain - 1), op : Operations \cup {"none"},
   key : Int, left : 0..NumOps]

(***************************************************************************)
(* The inductive invariant.  A worker first draws its operation and then   *)
(* never calls the operation chooser again; from the lock to the unlock it *)
(* holds the mutex of the generator it is in.                              *)
(***************************************************************************)
Types ==
  /\ dist \in Dists
  /\ lock \in [Gens -> Workers \cup {Free}]
  /\ engine \in [Engines -> 0..(Period - 1)]
  /\ last \in {OpWeights[i][1] : i \in DOMAIN OpWeights}
  /\ w \in [Workers -> WorkerRecord]
  /\ failed \in BOOLEAN

ChoosesFirst ==
  \A k \in Workers :
    /\ w[k].op = "none" => w[k].todo = <<"op">>
    /\ w[k].op # "none" => w[k].todo \in Seq(Gens \ {"op"}) /\ w[k].pc # "choose"

HoldsMutex ==
  \A k \in Workers : w[k].pc \in {"load", "store", "unlock"} =>
    lock[Gen(k)] = k /\ Kind(Gen(k)) # "constant"

\* What ChoiceByWeight says of the workers, and of a failed assertion.
OwnBand ==
  \A k \in Workers : w[k].op # "none" =>
    \E i \in DOMAIN OpWeights : w[k].op = OpWeights[i][1] /\ InBand(w[k].u, i)

FailsAtTop ==
  failed => \E k \in Workers :
              w[k].pc = "choose" /\ 2 * (Grain - w[k].u) <= Len(OpWeights)

GeneratorsInv ==
  Types /\ ChoosesFirst /\ HoldsMutex /\ DrawsOnce /\ OwnBand /\ KeysExist

-----------------------------------------------------------------------------
(* The operators *)

(***************************************************************************)
(* The calls that follow the choice of an operation are calls of the other *)
(* generators, and there is one at least.                                  *)
(***************************************************************************)
LEMMA CallsType ==
  ASSUME NEW op \in Operations
  PROVE  CallsOf(op) \in Seq(Gens \ {"op"}) /\ CallsOf(op) # << >>
  <1> DEFINE S == Gens \ {"op"}
  <1>1. "key" \in S /\ "field" \in S /\ "fieldlen" \in S /\ "scanlen" \in S
    BY DEF Gens
  <1>2. CASE op = "INSERT"
    <2>1. CallsOf(op) = [i \in 1..FieldCount |-> "fieldlen"]
      BY <1>2 DEF CallsOf
    <2>2. CallsOf(op) \in Seq(S) /\ Len(CallsOf(op)) = FieldCount
      BY <1>1, <2>1, GeneratorsAssumption
    <2> QED BY <2>2, GeneratorsAssumption
  <1>3. CASE op = "READ"
    BY <1>1, <1>3 DEF CallsOf
  <1>4. CASE op = "SCAN"
    BY <1>1, <1>4 DEF CallsOf
  <1>5. CASE op = "UPDATE"
    BY <1>1, <1>5 DEF CallsOf
  <1>6. CASE op = "RMW"
    BY <1>1, <1>6 DEF CallsOf
  <1> QED BY <1>2, <1>3, <1>4, <1>5, <1>6 DEF Operations

(***************************************************************************)
(* The generator a worker is about to call or is in.                       *)
(***************************************************************************)
LEMMA GenType ==
  ASSUME NEW s \in Todos
  PROVE  Head(s) \in Gens
  BY DEF Todos

(***************************************************************************)
(* The calls that are left after one of several.                           *)
(***************************************************************************)
LEMMA RestOfCalls ==
  ASSUME NEW S, NEW s \in Seq(S), Len(s) > 1
  PROVE  Tail(s) \in Seq(S) \ {<< >>} /\ \A x : s # <<x>>
  <1>1. s # << >>
    OBVIOUS
  <1>2. Tail(s) \in Seq(S) /\ Len(Tail(s)) = Len(s) - 1 /\ Len(s) \in Nat
    BY <1>1, HeadTailProperties
  <1>3. Tail(s) # << >>
    <2>1. \A q \in Seq(S) : Len(q) > 0 => q # << >>
      OBVIOUS
    <2>2. Len(Tail(s)) > 0
      BY <1>2
    <2> QED BY <1>2, <2>1, <2>2
  <1>4. ASSUME NEW x, s = <<x>> PROVE FALSE
    <2>1. Len(s) = 1
      BY <1>4
    <2> QED BY <2>1
  <1> QED BY <1>2, <1>3, <1>4

(***************************************************************************)
(* A chooser draws within its range: a key that NextTransactionKey does    *)
(* not throw back is one of the records, and not the oldest for the skewed *)
(* latest generator.                                                       *)
(***************************************************************************)
LEMMA DrawnKeyExists ==
  ASSUME dist \in Dists, NEW n \in KeyDraws, n <= Last
  PROVE  n \in Nat /\ n \in K(dist[1])!NextTransactionKey
  <1> USE GeneratorsAssumption DEF Last, K!NextTransactionKey, K!KeyNums, K!LastInserted
  <1>1. dist[1] \in {"uniform", "zipfian", "latest"}
    OBVIOUS
  <1>2. CASE dist[1] = "uniform"
    BY <1>2 DEF KeyDraws
  <1>3. CASE dist[1] = "zipfian"
    <2> DEFINE m == RecordCount + NewKeys
    <2>1. PICK v \in ZipfianNext(0, m) : n = Hash(v) % m
      BY <1>3 DEF KeyDraws
    <2>2. v \in 0..(m - 1)
      BY DEF ZipfianNext
    <2>3. Hash(v) \in Nat /\ m \in Nat \ {0}
      BY <2>2
    <2>4. n \in 0..(m - 1)
      BY <2>1, <2>3
    <2> QED BY <1>3, <2>4
  <1>4. CASE dist[1] = "latest"
    <2>1. PICK v \in ZipfianNext(0, Last) : n = Last - v
      BY <1>4 DEF KeyDraws
    <2>2. v \in 0..(Last - 1)
      BY DEF ZipfianNext
    <2> QED BY <1>4, <2>1, <2>2
  <1> QED BY <1>1, <1>2, <1>3, <1>4

-----------------------------------------------------------------------------
(***************************************************************************)
(* Induction and recursion over the naturals, on sets and functions.       *)
(***************************************************************************)

\* A non-empty set of naturals has a least member.
LEMMA LeastNat ==
  ASSUME NEW T \in SUBSET Nat, T # {}
  PROVE  \E x \in T : \A y \in T : x <= y
  <1> DEFINE R == OpToRel(<, Nat)
  <1>1. R = {ss \in Nat \X Nat : ss[1] < ss[2]}
    BY DEF OpToRel
  <1>2. IsWellFoundedOn(R, Nat)
    BY NatLessThanWellFounded
  <1> HIDE DEF R
  <1>3. PICK x \in T : \A y \in T : ~(<<y, x>> \in R)
    BY <1>2, WFMin
  <1>4. \A y \in T : <<y, x>> \in R <=> y < x
    BY <1>1
  <1>5. x \in Nat /\ \A y \in T : y \in Nat /\ ~(y < x)
    BY <1>3, <1>4
  <1> QED BY <1>5

\* A set with 0 and with the successors of its members has every natural.
LEMMA SetInduction ==
  ASSUME NEW S, 0 \in S, \A n \in Nat : n \in S => n + 1 \in S
  PROVE  Nat \subseteq S
  <1> SUFFICES ASSUME Nat \ S # {} PROVE FALSE
    OBVIOUS
  <1>1. PICK x \in Nat \ S : \A y \in Nat \ S : x <= y
    BY LeastNat
  <1>2. x # 0 /\ x - 1 \in Nat
    BY <1>1
  <1>3. x - 1 \in S
    BY <1>1, <1>2
  <1> QED BY <1>1, <1>2, <1>3

\* f is defined on 0..n by a first value and a step function.
Recurs(f, n, a, h) == f = [i \in 0..n |-> IF i = 0 THEN a ELSE h[<<i, f[i - 1]>>]]

\* There is a function defined by recursion.
LEMMA RecursionExists ==
  ASSUME NEW N \in Nat, NEW T, NEW a \in T, NEW h \in [(1..N) \X T -> T]
  PROVE  \E f : Recurs(f, N, a, h) /\ f \in [0..N -> T]
  <1> DEFINE S == {n \in Nat : n <= N => \E f : Recurs(f, n, a, h) /\ f \in [0..n -> T]}
  <1>1. 0 \in S
    <2> DEFINE f == [i \in 0..0 |-> a]
    <2>1. f = [i \in 0..0 |-> IF i = 0 THEN a ELSE h[<<i, f[i - 1]>>]]
      OBVIOUS
    <2>2. f \in [0..0 -> T]
      OBVIOUS
    <2> HIDE DEF f
    <2>3. \E g : Recurs(g, 0, a, h) /\ g \in [0..0 -> T]
      BY <2>1, <2>2 DEF Recurs
    <2> QED BY <2>3
  <1>2. ASSUME NEW n \in Nat, n \in S PROVE n + 1 \in S
    <2> SUFFICES ASSUME n + 1 <= N
                 PROVE  \E f : Recurs(f, n + 1, a, h) /\ f \in [0..(n + 1) -> T]
      OBVIOUS
    <2>1. PICK f : Recurs(f, n, a, h) /\ f \in [0..n -> T]
      BY <1>2
    <2> DEFINE g == [i \in 0..(n + 1) |-> IF i = n + 1 THEN h[<<n + 1, f[n]>>] ELSE f[i]]
    <2>2. h[<<n + 1, f[n]>>] \in T
      BY <2>1
    <2>3. g \in [0..(n + 1) -> T]
      BY <2>1, <2>2
    <2>4. ASSUME NEW i \in 0..(n + 1)
          PROVE  g[i] = IF i = 0 THEN a ELSE h[<<i, g[i - 1]>>]
      <3>1. CASE i = n + 1
        <4>1. n + 1 \in 0..(n + 1) /\ n \in 0..(n + 1) /\ n # n + 1 /\ n + 1 # 0
              /\ (n + 1) - 1 = n
          OBVIOUS
        <4>2. g[n + 1] = h[<<n + 1, f[n]>>] /\ g[n] = f[n]
          BY <4>1
        <4> HIDE DEF g
        <4> QED BY <3>1, <4>1, <4>2
      <3>2. CASE i \in 0..n
        <4>1. f[i] = IF i = 0 THEN a ELSE h[<<i, f[i - 1]>>]
          BY <2>1, <3>2 DEF Recurs
        <4>2. g[i] = f[i] /\ (i # 0 => g[i - 1] = f[i - 1])
          BY <3>2
        <4> QED BY <4>1, <4>2
      <3>3. i = n + 1 \/ i \in 0..n
        OBVIOUS
      <3> HIDE DEF g
      <3> QED BY <3>1, <3>2, <3>3
    <2>5. g = [i \in 0..(n + 1) |-> IF i = 0 THEN a ELSE h[<<i, g[i - 1]>>]]
      BY <2>4
    <2> HIDE DEF g
    <2> QED BY <2>3, <2>5 DEF Recurs
  <1>3. Nat \subseteq S
    <2> HIDE DEF S
    <2> QED BY <1>1, <1>2, SetInduction
  <1>4. N \in S
    BY <1>3
  <1> QED BY <1>4


-----------------------------------------------------------------------------
(* The loop of DiscreteGenerator::Next *)

(***************************************************************************)
(* Products of integers.                                                   *)
(***************************************************************************)
LEMMA Products ==
  /\ \A x, y \in Int : x * y \in Int
  /\ \A x, y \in Int, s \in Nat : x <= y => x * s <= y * s
  /\ \A x, y \in Int, s \in Nat \ {0} : x < y => x * s < y * s
  OBVIOUS

LEMMA Distributes ==
  ASSUME NEW x \in Int, NEW y \in Int, NEW s \in Int
  PROVE  (x + y) * s = x * s + y * s
  OBVIOUS

(***************************************************************************)
(* A running sum is what its definition says.                              *)
(***************************************************************************)
LEMMA RunningIs ==
  ASSUME NEW a \in Int, NEW d, \A i \in 1..Len(OpWeights) : d[i] \in Int
  PROVE  /\ Running(a, d) \in [0..Len(OpWeights) -> Int]
         /\ Running(a, d)[0] = a
         /\ \A i \in 1..Len(OpWeights) : Running(a, d)[i] = Running(a, d)[i - 1] + d[i]
  <1> DEFINE N == Len(OpWeights)
             g == [x \in (1..N) \X Int |-> x[2] + d[x[1]]]
             F == CHOOSE f : f = [i \in 0..N |-> IF i = 0 THEN a ELSE f[i - 1] + d[i]]
  <1>0. N \in Nat
    BY GeneratorsAssumption, LenProperties
  <1>1. Running(a, d) = F
    BY Zenon DEF Running
  <1>2. g \in [(1..N) \X Int -> Int]
    OBVIOUS
  <1>3. PICK f : Recurs(f, N, a, g) /\ f \in [0..N -> Int]
    <2> HIDE DEF g, N
    <2> QED BY <1>0, <1>2, RecursionExists
  <1>4. ASSUME NEW i \in 0..N PROVE f[i] = IF i = 0 THEN a ELSE f[i - 1] + d[i]
    <2>1. f[i] = IF i = 0 THEN a ELSE g[<<i, f[i - 1]>>]
      <3> HIDE DEF g
      <3> QED BY <1>3 DEF Recurs
    <2>2. i # 0 => <<i, f[i - 1]>> \in (1..N) \X Int
      <3> HIDE DEF N, g
      <3>1. i # 0 => i \in 1..N /\ i - 1 \in 0..N
        BY <1>0
      <3> QED BY <1>3, <3>1
    <2> QED BY <2>1, <2>2
  <1>5. \E e : e = [i \in 0..N |-> IF i = 0 THEN a ELSE e[i - 1] + d[i]]
    <2>1. f = [i \in 0..N |-> IF i = 0 THEN a ELSE f[i - 1] + d[i]]
      BY <1>3, <1>4
    <2> QED BY <2>1, Zenon
  <1>6. F = [i \in 0..N |-> IF i = 0 THEN a ELSE F[i - 1] + d[i]]
    BY <1>5, Zenon
  <1> HIDE DEF F
  <1>7. F[0] = a /\ \A i \in 1..N : F[i] = F[i - 1] + d[i]
    <2>1. \A i \in 0..N : F[i] = IF i = 0 THEN a ELSE F[i - 1] + d[i]
      BY <1>6
    <2> QED BY <1>0, <2>1
  <1> DEFINE S == {n \in Nat : n <= N => F[n] \in Int}
  <1>8. 0 \in S
    BY <1>7
  <1>9. ASSUME NEW n \in Nat, n \in S PROVE n + 1 \in S
    <2> SUFFICES ASSUME n + 1 <= N PROVE F[n + 1] \in Int
      OBVIOUS
    <2>1. n + 1 \in 1..N /\ (n + 1) - 1 = n /\ F[n] \in Int
      BY <1>0, <1>9
    <2> QED BY <1>7, <2>1
  <1>10. Nat \subseteq S
    <2> HIDE DEF S
    <2> QED BY <1>8, <1>9, SetInduction
  <1>11. F \in [0..N -> Int]
    BY <1>0, <1>6, <1>10
  <1> QED BY <1>1, <1>7, <1>11

(***************************************************************************)
(* The weights are positive, and so is their sum.                          *)
(***************************************************************************)
LEMMA Weights ==
  /\ Len(OpWeights) \in Nat \ {0} /\ DOMAIN OpWeights = 1..Len(OpWeights)
  /\ Below \in [0..Len(OpWeights) -> Int] /\ Below[0] = 0
  /\ \A i \in 1..Len(OpWeights) : Below[i] = Below[i - 1] + OpWeights[i][2]
  /\ sum \in Nat \ {0}
  <1> DEFINE N == Len(OpWeights)
             d == [i \in DOMAIN OpWeights |-> OpWeights[i][2]]
  <1>1. N \in Nat \ {0} /\ DOMAIN OpWeights = 1..N
    BY GeneratorsAssumption, EmptySeq, LenProperties
  <1>2. \A i \in 1..N : d[i] = OpWeights[i][2] /\ OpWeights[i][2] \in Nat \ {0}
    BY <1>1, GeneratorsAssumption
  <1>3. \A i \in 1..N : d[i] \in Int
    BY <1>2
  <1>4. /\ Below \in [0..N -> Int] /\ Below[0] = 0
        /\ \A i \in 1..N : Below[i] = Below[i - 1] + d[i]
    <2>1. Below = Running(0, d) /\ 0 \in Int
      BY DEF Below
    <2> HIDE DEF d
    <2> QED BY <1>3, <2>1, RunningIs
  <1> HIDE DEF d
  <1> DEFINE S == {n \in Nat : n <= N => Below[n] >= n}
  <1>5. 0 \in S
    BY <1>4
  <1>6. ASSUME NEW n \in Nat, n \in S PROVE n + 1 \in S
    <2> SUFFICES ASSUME n + 1 <= N PROVE Below[n + 1] >= n + 1
      OBVIOUS
    <2>1. n + 1 \in 1..N /\ (n + 1) - 1 = n /\ Below[n] \in Int /\ Below[n] >= n
      BY <1>1, <1>4, <1>6
    <2> QED BY <1>2, <1>4, <2>1, SMTT(30)
  <1>7. Nat \subseteq S
    <2> HIDE DEF S
    <2> QED BY <1>5, <1>6, SetInduction
  <1>8. Below[N] \in Int /\ Below[N] >= N
    BY <1>1, <1>4, <1>7
  <1> QED BY <1>1, <1>2, <1>4, <1>8 DEF sum

(***************************************************************************)
(* A share is rounded to the nearest grain.                                *)
(***************************************************************************)
LEMMA ShareRounds ==
  ASSUME NEW i \in 1..Len(OpWeights)
  PROVE  /\ Share(i) \in Int
         /\ 2 * (Share(i) * sum - OpWeights[i][2] * Grain) <= sum
         /\ -sum <= 2 * (Share(i) * sum - OpWeights[i][2] * Grain)
  <1>1. sum \in Nat \ {0} /\ OpWeights[i][2] \in Nat /\ Grain \in Nat
    BY Weights, GeneratorsAssumption
  <1> DEFINE x == OpWeights[i][2] * Grain
  <1>2. x \in Nat /\ 2 * OpWeights[i][2] * Grain + sum = 2 * x + sum
    BY <1>1
  <1>3. ASSUME NEW m \in Nat, NEW b \in Nat \ {0}
        PROVE  m \div b \in Int /\ (m \div b) * b <= m /\ m < (m \div b) * b + b
    BY SMTT(60)
  <1> DEFINE q == (2 * x + sum) \div (2 * sum)
  <1> HIDE DEF x
  <1>4. q \in Int /\ q * (2 * sum) <= 2 * x + sum /\ 2 * x + sum < q * (2 * sum) + 2 * sum
    <2>1. 2 * x + sum \in Nat /\ 2 * sum \in Nat \ {0}
      BY <1>1, <1>2
    <2> QED BY <1>3, <2>1
  <1>5. Share(i) = q
    BY <1>2 DEF Share
  <1> HIDE DEF q
  <1>6. q * (2 * sum) = 2 * (q * sum) /\ q * sum \in Int
    BY <1>1, <1>4
  <1>7. 2 * (q * sum - x) <= sum /\ -sum <= 2 * (q * sum - x)
    BY <1>1, <1>2, <1>4, <1>6
  <1> QED BY <1>4, <1>5, <1>7 DEF x

(***************************************************************************)
(* What the loop has subtracted is the part of the weights it has passed,  *)
(* up to half a grain for each of them.                                    *)
(***************************************************************************)
LEMMA Subtracted ==
  ASSUME NEW u \in Int
  PROVE  /\ Chooser(u) \in [0..Len(OpWeights) -> Int] /\ Chooser(u)[0] = u
         /\ \A i \in 1..Len(OpWeights) : Chooser(u)[i] = Chooser(u)[i - 1] - Share(i)
         /\ \A i \in 0..Len(OpWeights) :
              /\ 2 * ((u - Chooser(u)[i]) * sum - Below[i] * Grain) <= i * sum
              /\ -(i * sum) <= 2 * ((u - Chooser(u)[i]) * sum - Below[i] * Grain)
  <1> DEFINE N == Len(OpWeights)
             d == [i \in DOMAIN OpWeights |-> -Share(i)]
             c == Chooser(u)
  <1>1. N \in Nat /\ DOMAIN OpWeights = 1..N /\ sum \in Nat /\ Grain \in Nat
        /\ Below \in [0..N -> Int]
    BY Weights, GeneratorsAssumption
  <1>2. \A i \in 1..N : Share(i) \in Int
    BY ShareRounds
  <1>3. \A i \in 1..N : d[i] = -Share(i) /\ d[i] \in Int
    BY <1>1, <1>2
  <1>4. c = Running(u, d)
    BY DEF Chooser
  <1> HIDE DEF d, c
  <1>5. c \in [0..N -> Int] /\ c[0] = u /\ \A i \in 1..N : c[i] = c[i - 1] + d[i]
    BY <1>3, <1>4, RunningIs
  <1>6. \A i \in 1..N : c[i] = c[i - 1] - Share(i)
    BY <1>1, <1>2, <1>3, <1>5
  <1> DEFINE off(i) == 2 * ((u - c[i]) * sum - Below[i] * Grain)
             S == {n \in Nat : n <= N => off(n) <= n * sum /\ -(n * sum) <= off(n)}
  <1>7. 0 \in S
    BY <1>1, <1>5, Weights
  <1>8. ASSUME NEW n \in Nat, n \in S PROVE n + 1 \in S
    <2> SUFFICES ASSUME n + 1 <= N
                 PROVE  off(n + 1) <= (n + 1) * sum /\ -((n + 1) * sum) <= off(n + 1)
      OBVIOUS
    <2> DEFINE i == n + 1
               W == OpWeights[i][2]
    <2>1. i \in 1..N /\ i - 1 = n /\ n \in 0..N
      BY <1>1
    <2> HIDE DEF N, i
    <2>2. /\ c[n] \in Int /\ Below[n] \in Int /\ Share(i) \in Int /\ W \in Int
          /\ c[i] = c[n] - Share(i) /\ Below[i] = Below[n] + W
      <3>1. c[n] \in Int /\ Below[n] \in Int /\ Share(i) \in Int
        BY <1>1, <1>2, <1>5, <2>1
      <3>2. c[i] = c[n] - Share(i)
        BY <1>6, <2>1
      <3>3. W \in Int
        BY <1>1, <2>1, GeneratorsAssumption, SMTT(30)
      <3>4. Below[i] = Below[n] + W
        BY <2>1, Weights DEF N
      <3> QED BY <3>1, <3>2, <3>3, <3>4
    <2>3. 2 * (Share(i) * sum - W * Grain) <= sum /\ -sum <= 2 * (Share(i) * sum - W * Grain)
      BY <2>1, ShareRounds DEF N
    <2>4. off(n) <= n * sum /\ -(n * sum) <= off(n)
      BY <1>8, <2>1
    <2> HIDE DEF W
    <2>6. off(i) = off(n) + 2 * (Share(i) * sum - W * Grain)
      <3>1. off(i) = 2 * ((u - (c[n] - Share(i))) * sum - (Below[n] + W) * Grain)
        BY <2>2
      <3> HIDE DEF off
      <3>2. 2 * ((u - (c[n] - Share(i))) * sum - (Below[n] + W) * Grain)
              = 2 * ((u - c[n]) * sum - Below[n] * Grain) + 2 * (Share(i) * sum - W * Grain)
        <4>1. sum \in Int /\ Grain \in Int /\ u \in Int
          BY <1>1
        <4>2. u - (c[n] - Share(i)) = (u - c[n]) + Share(i) /\ u - c[n] \in Int
          BY <2>2, <4>1
        <4>3. ((u - c[n]) + Share(i)) * sum = (u - c[n]) * sum + Share(i) * sum
          BY <2>2, <4>1, <4>2, Distributes
        <4>4. (Below[n] + W) * Grain = Below[n] * Grain + W * Grain
          BY <2>2, <4>1, Distributes
        <4> DEFINE p == (u - c[n]) * sum
                   h == Share(i) * sum
                   b == Below[n] * Grain
                   v == W * Grain
        <4>5. p \in Int /\ h \in Int /\ b \in Int /\ v \in Int
          BY <2>2, <4>1, <4>2, Products
        <4>6. (u - (c[n] - Share(i))) * sum = p + h /\ (Below[n] + W) * Grain = b + v
          BY <4>2, <4>3, <4>4
        <4> HIDE DEF p, h, b, v
        <4>7. 2 * ((p + h) - (b + v)) = 2 * (p - b) + 2 * (h - v)
          BY <4>5
        <4> QED BY <4>6, <4>7 DEF p, h, b, v
      <3> QED BY <3>1, <3>2 DEF off
    <2>7. i * sum = n * sum + sum /\ n * sum \in Int
      BY <1>1 DEF i
    <2>8. off(n) \in Int /\ 2 * (Share(i) * sum - W * Grain) \in Int
      <3>1. u - c[n] \in Int /\ sum \in Int /\ Grain \in Int
        BY <1>1, <2>2
      <3>2. (u - c[n]) * sum \in Int /\ Below[n] * Grain \in Int /\ Share(i) * sum \in Int
            /\ W * Grain \in Int
        BY <2>2, <3>1, Products
      <3> QED BY <3>2
    <2> HIDE DEF off
    <2>9. off(i) <= i * sum /\ -(i * sum) <= off(i)
      BY <1>1, <2>3, <2>4, <2>6, <2>7, <2>8
    <2> QED BY <2>9 DEF i
  <1>9. Nat \subseteq S
    <2> HIDE DEF S
    <2> QED BY <1>7, <1>8, SetInduction
  <1>10. \A i \in 0..N : off(i) <= i * sum /\ -(i * sum) <= off(i)
    BY <1>1, <1>9
  <1> QED BY <1>5, <1>6, <1>10 DEF c

(***************************************************************************)
(* The loop stops at the value in whose band u lies...                     *)
(***************************************************************************)
LEMMA StopsInBand ==
  ASSUME NEW u \in Nat, NEW i \in Stops(u), \A j \in Stops(u) : i <= j
  PROVE  i \in DOMAIN OpWeights /\ InBand(u, i)
  <1> DEFINE N == Len(OpWeights)
             c == Chooser(u)
  <1>1. i \in 1..N /\ DOMAIN OpWeights = 1..N /\ N \in Nat /\ c[i - 1] < Share(i)
        /\ sum \in Nat \ {0} /\ Grain \in Nat /\ Below \in [0..N -> Int] /\ Share(i) \in Int
    BY Weights, ShareRounds, GeneratorsAssumption DEF Stops
  <1>2. /\ c \in [0..N -> Int] /\ c[0] = u /\ \A j \in 1..N : c[j] = c[j - 1] - Share(j)
        /\ \A j \in 0..N : /\ 2 * ((u - c[j]) * sum - Below[j] * Grain) <= j * sum
                           /\ -(j * sum) <= 2 * ((u - c[j]) * sum - Below[j] * Grain)
    BY Subtracted
  <1>3. c[i - 1] >= 0
    <2>1. CASE i = 1
      BY <1>2, <2>1
    <2>2. CASE i # 1
      <3>1. i - 1 \in 1..N /\ i - 1 \notin Stops(u)
        BY <1>1, <2>2
      <3>2. ~(c[(i - 1) - 1] < Share(i - 1))
        BY <1>1, <3>1 DEF Stops
      <3>3. c[i - 1] = c[(i - 1) - 1] - Share(i - 1)
        BY <1>2, <3>1
      <3>4. c[(i - 1) - 1] \in Int /\ Share(i - 1) \in Int
        <4>1. (i - 1) - 1 \in 0..N
          BY <1>1, <3>1
        <4> HIDE DEF c
        <4> QED BY <1>2, <3>1, <4>1, ShareRounds
      <3> QED BY <3>2, <3>3, <3>4
    <2> QED BY <2>1, <2>2
  <1>4. c[i] < 0 /\ c[i] \in Int /\ c[i - 1] \in Int /\ Below[i] \in Int /\ Below[i - 1] \in Int
        /\ i - 1 \in 0..N /\ i \in 0..N
    <2> HIDE DEF c, N
    <2>1. i - 1 \in 0..N /\ i \in 0..N
      BY <1>1
    <2>2. c[i] \in Int /\ c[i - 1] \in Int /\ Below[i] \in Int /\ Below[i - 1] \in Int
      BY <1>1, <1>2, <2>1
    <2>3. c[i] = c[i - 1] - Share(i)
      BY <1>1, <1>2
    <2> QED BY <1>1, <2>1, <2>2, <2>3
  <1> HIDE DEF c, N
  <1>5. u - c[i - 1] \in Int /\ u - c[i] \in Int /\ u \in Int /\ sum \in Int /\ Grain \in Int
        /\ i - 1 \in Int /\ i \in Int
    BY <1>1, <1>4
  <1>6. /\ (u - c[i - 1]) * sum \in Int /\ (u - c[i]) * sum \in Int /\ u * sum \in Int
        /\ Below[i - 1] * Grain \in Int /\ Below[i] * Grain \in Int
        /\ (i - 1) * sum \in Int /\ i * sum \in Int
    BY <1>4, <1>5, Products
  <1>7. (u - c[i - 1]) * sum <= u * sum /\ u * sum < (u - c[i]) * sum
    <2>1. u - c[i - 1] <= u /\ u < u - c[i]
      BY <1>3, <1>4
    <2> QED BY <1>1, <1>5, <2>1, Products
  <1>8. 2 * (Below[i - 1] * Grain - u * sum) <= (i - 1) * sum
    <2>1. -((i - 1) * sum) <= 2 * ((u - c[i - 1]) * sum - Below[i - 1] * Grain)
      BY <1>2, <1>4
    <2> DEFINE a == (u - c[i - 1]) * sum
               b == u * sum
               g == Below[i - 1] * Grain
               z == (i - 1) * sum
    <2>2. a \in Int /\ b \in Int /\ g \in Int /\ z \in Int /\ a <= b
      BY <1>6, <1>7
    <2>3. -z <= 2 * (a - g)
      BY <2>1
    <2> HIDE DEF a, b, g, z
    <2>4. 2 * (g - b) <= z
      BY <2>2, <2>3
    <2> QED BY <2>4 DEF a, b, g, z
  <1>9. 2 * (u * sum - Below[i] * Grain) < i * sum
    <2>1. 2 * ((u - c[i]) * sum - Below[i] * Grain) <= i * sum
      BY <1>2, <1>4
    <2> DEFINE a == (u - c[i]) * sum
               b == u * sum
               g == Below[i] * Grain
               z == i * sum
    <2>2. a \in Int /\ b \in Int /\ g \in Int /\ z \in Int /\ b < a
      BY <1>6, <1>7
    <2>3. 2 * (a - g) <= z
      BY <2>1
    <2> HIDE DEF a, b, g, z
    <2>4. 2 * (b - g) < z
      BY <2>2, <2>3
    <2> QED BY <2>4 DEF a, b, g, z
  <1> QED BY <1>1, <1>8, <1>9 DEF InBand

(***************************************************************************)
(* ...and passes them all only near the top.                               *)
(***************************************************************************)
LEMMA PassesAtTop ==
  ASSUME NEW u \in Nat, Stops(u) = {}
  PROVE  2 * (Grain - u) <= Len(OpWeights)
  <1> DEFINE N == Len(OpWeights)
             c == Chooser(u)
  <1>1. N \in Nat \ {0} /\ DOMAIN OpWeights = 1..N /\ sum \in Nat \ {0} /\ Grain \in Nat
        /\ Below[N] = sum
    BY Weights, GeneratorsAssumption DEF sum
  <1>2. /\ c \in [0..N -> Int] /\ \A j \in 1..N : c[j] = c[j - 1] - Share(j)
        /\ \A j \in 0..N : -(j * sum) <= 2 * ((u - c[j]) * sum - Below[j] * Grain)
    BY Subtracted
  <1>3. N \in 1..N /\ N \in 0..N
    BY <1>1
  <1>4. c[N] >= 0 /\ c[N] \in Int
    <2>1. ~(c[N - 1] < Share(N))
      BY <1>1, <1>3 DEF Stops
    <2>2. N - 1 \in 0..N
      BY <1>1
    <2>3. Share(N) \in Int
      BY <1>3, ShareRounds
    <2> HIDE DEF c, N
    <2>4. c[N - 1] \in Int /\ c[N] = c[N - 1] - Share(N)
      BY <1>2, <1>3, <2>2
    <2> QED BY <2>1, <2>3, <2>4
  <1>5. -(N * sum) <= 2 * ((u - c[N]) * sum - sum * Grain)
    BY <1>1, <1>2, <1>3
  <1> HIDE DEF c, N
  <1>7. 2 * ((u - c[N]) * sum - sum * Grain) = (2 * (u - c[N] - Grain)) * sum
        /\ -(N * sum) = (-N) * sum
    BY <1>1, <1>4
  <1>8. -N <= 2 * (u - c[N] - Grain)
    <2> SUFFICES ASSUME -N > 2 * (u - c[N] - Grain) PROVE FALSE
      BY <1>1, <1>4
    <2>1. (-N) * sum > (2 * (u - c[N] - Grain)) * sum
      <3>1. -N \in Int /\ 2 * (u - c[N] - Grain) \in Int
        BY <1>1, <1>4
      <3> QED BY <1>1, <3>1, Products
    <2>2. (-N) * sum \in Int /\ (2 * (u - c[N] - Grain)) * sum \in Int
      BY <1>1, <1>4
    <2> QED BY <1>5, <1>7, <2>1, <2>2
  <1> QED BY <1>1, <1>4, <1>8 DEF N

-----------------------------------------------------------------------------
(* One worker's record *)

\* ChoosesFirst, OwnBand and KeysExist, of one record.
Fine(r) ==
  /\ r.op = "none" => r.todo = <<"op">>
  /\ r.op # "none" => r.todo \in Seq(Gens \ {"op"}) /\ r.pc # "choose"
  /\ r.op # "none" => \E i \in DOMAIN OpWeights : r.op = OpWeights[i][1] /\ InBand(r.u, i)
  /\ r.key # NoKey => r.key \in K(dist[1])!NextTransactionKey

LEMMA FineIs ==
  ChoosesFirst /\ OwnBand /\ KeysExist <=> \A k \in Workers : Fine(w[k])
  BY DEF ChoosesFirst, OwnBand, KeysExist, Fine

(***************************************************************************)
(* A transaction begins with the draw of its operation.                    *)
(***************************************************************************)
LEMMA FreshFine ==
  ASSUME NEW n \in 0..NumOps
  PROVE  /\ [Fresh EXCEPT !.left = n] \in WorkerRecord
         /\ Fine([Fresh EXCEPT !.left = n])
         /\ [Fresh EXCEPT !.left = n].pc = "call"
  <1>1. <<"op">> \in Todos
    BY DEF Gens, Todos
  <1>2. [Fresh EXCEPT !.left = n] =
          [pc |-> "call", todo |-> <<"op">>, reg |-> 0, u |-> 0, op |-> "none",
           key |-> NoKey, left |-> n]
    BY DEF Fresh
  <1> DEFINE q == [Fresh EXCEPT !.left = n]
  <1>3. /\ q.pc = "call" /\ q.todo = <<"op">> /\ q.reg = 0 /\ q.u = 0
        /\ q.op = "none" /\ q.key = NoKey /\ q.left = n
    BY <1>2
  <1>4. q \in WorkerRecord
    BY <1>1, <1>2, GeneratorsAssumption DEF WorkerRecord, NoKey
  <1>5. Fine(q)
    <2> HIDE DEF q
    <2> QED BY <1>3 DEF Fine
  <1> QED BY <1>3, <1>4, <1>5

(***************************************************************************)
(* When a call returns, the worker makes its next call, or the transaction *)
(* ends and the next one begins.                                           *)
(***************************************************************************)
LEMMA ReturnedFine ==
  ASSUME NEW r \in WorkerRecord, Fine(r), r.left > 0, r.pc # "choose"
  PROVE  Returned(r) \in WorkerRecord /\ Fine(Returned(r)) /\ Returned(r).pc = "call"
  <1>1. CASE Len(r.todo) > 1
    <2> DEFINE q == [r EXCEPT !.pc = "call", !.todo = Tail(@), !.reg = 0]
    <2>1. Returned(r) = q
      BY <1>1 DEF Returned
    <2>0. r.todo \in Seq(Gens)
      BY DEF WorkerRecord, Todos
    <2>2. Tail(r.todo) \in Todos /\ r.todo # <<"op">>
      BY <1>1, <2>0, RestOfCalls DEF Todos
    <2>3. r.op # "none"
      BY <2>2 DEF Fine
    <2>4. Tail(r.todo) \in Seq(Gens \ {"op"})
      BY <1>1, <2>3 DEF Fine
    <2>5. q \in WorkerRecord /\ q.pc = "call"
      <3>1. 0 \in 0..(Period - 1)
        BY GeneratorsAssumption
      <3> QED BY <2>2, <3>1 DEF WorkerRecord
    <2>6. q.op = r.op /\ q.u = r.u /\ q.key = r.key /\ q.todo = Tail(r.todo)
      BY DEF WorkerRecord
    <2>7. Fine(q)
      <3> HIDE DEF q
      <3> QED BY <2>3, <2>4, <2>5, <2>6 DEF Fine
    <2> QED BY <2>1, <2>5, <2>7
  <1>2. CASE ~(Len(r.todo) > 1)
    <2>1. r.left - 1 \in 0..NumOps
      BY GeneratorsAssumption DEF WorkerRecord
    <2> QED BY <1>2, <2>1, FreshFine DEF Returned
  <1> QED BY <1>1, <1>2

-----------------------------------------------------------------------------
(* The steps *)

(***************************************************************************)
(* A step of worker k that gives it a fine record keeps what is said of    *)
(* the records, for the others' do not change.                             *)
(***************************************************************************)
LEMMA GoesFine ==
  ASSUME GeneratorsInv, NEW k \in Workers, NEW r \in WorkerRecord, Fine(r), Goes(k, r)
  PROVE  /\ w' \in [Workers -> WorkerRecord]
         /\ (ChoosesFirst /\ OwnBand /\ KeysExist)'
         /\ w'[k] = r /\ Gen(k)' = Head(r.todo)
         /\ \A j \in Workers \ {k} : w'[j] = w[j] /\ Gen(j)' = Gen(j)
  <1>1. w' = [w EXCEPT ![k] = r] /\ dist' = dist
    BY DEF Goes
  <1>2. w' \in [Workers -> WorkerRecord] /\ \A j \in Workers : w'[j] = IF j = k THEN r ELSE w[j]
    BY <1>1 DEF GeneratorsInv, Types
  <1>3. \A j \in Workers : Fine(w[j])
    BY FineIs DEF GeneratorsInv
  <1>4. \A j \in Workers : Fine(w'[j])
    BY <1>2, <1>3
  <1>5. (ChoosesFirst /\ OwnBand /\ KeysExist)'
    BY <1>1, <1>4 DEF ChoosesFirst, OwnBand, KeysExist, Fine
  <1> QED BY <1>2, <1>5 DEF Gen

(***************************************************************************)
(* What the invariant says of the worker that takes the step.              *)
(***************************************************************************)
LEMMA WorkerFacts ==
  ASSUME GeneratorsInv, NEW k \in Workers
  PROVE  /\ w[k] \in WorkerRecord /\ Fine(w[k])
         /\ Gen(k) \in Gens /\ EngineOf(Gen(k)) \in Engines
         /\ w[k].pc \in {"load", "store", "unlock"} =>
              lock[Gen(k)] = k /\ Kind(Gen(k)) # "constant"
         /\ w[k].todo \in Todos
  <1>1. w[k] \in WorkerRecord /\ w[k].todo \in Todos
    BY DEF GeneratorsInv, Types, WorkerRecord
  <1>2. Gen(k) \in Gens
    BY <1>1, GenType DEF Gen
  <1> QED BY <1>1, <1>2, FineIs DEF GeneratorsInv, HoldsMutex, EngineOf, Engines

(***************************************************************************)
(* A mutex that is free or the worker's own keeps the others out of its    *)
(* generator.                                                              *)
(***************************************************************************)
LEMMA OthersOutside ==
  ASSUME GeneratorsInv, NEW k \in Workers, lock[Gen(k)] \in {k, Free},
         NEW j \in Workers \ {k}, w[j].pc \in {"load", "store", "unlock"}
  PROVE  Gen(j) # Gen(k)
  <1>1. lock[Gen(j)] = j
    BY DEF GeneratorsInv, HoldsMutex
  <1>2. j # Free
    BY DEF Workers, Free
  <1> QED BY <1>1, <1>2

(***************************************************************************)
(* A worker that does not move, and the state it is about to store.        *)
(***************************************************************************)
LEMMA StillOnce ==
  ASSUME GeneratorsInv, dist' = dist, NEW j \in Workers, w'[j] = w[j], Gen(j)' = Gen(j),
         engine'[EngineOf(Gen(j))] = engine[EngineOf(Gen(j))]
  PROVE  w'[j].pc = "store" /\ ~Shared(Gen(j))' => w'[j].reg = engine'[EngineOf(Gen(j))']
  <1>1. Shared(Gen(j))' = Shared(Gen(j)) /\ EngineOf(Gen(j))' = EngineOf(Gen(j))
    BY DEF Kind, EngineOf, Shared
  <1> QED BY <1>1 DEF GeneratorsInv, DrawsOnce

(***************************************************************************)
(* A step that touches neither mutexes nor engines, and leaves its worker  *)
(* outside of a generator.                                                 *)
(***************************************************************************)
LEMMA StepOutside ==
  ASSUME GeneratorsInv, NEW k \in Workers, NEW r \in WorkerRecord, Fine(r), Goes(k, r),
         r.pc = "call", UNCHANGED <<lock, engine>>,
         last' \in {OpWeights[i][1] : i \in DOMAIN OpWeights}
  PROVE  GeneratorsInv'
  <1>1. /\ w' \in [Workers -> WorkerRecord] /\ (ChoosesFirst /\ OwnBand /\ KeysExist)'
        /\ w'[k] = r
        /\ \A j \in Workers \ {k} : w'[j] = w[j] /\ Gen(j)' = Gen(j)
    BY GoesFine
  <1>2. dist' = dist /\ failed' = failed
    BY DEF Goes
  <1>3. Types'
    BY <1>1, <1>2 DEF GeneratorsInv, Types
  <1>4. HoldsMutex'
    BY <1>1, <1>2 DEF GeneratorsInv, HoldsMutex, Kind
  <1>5. DrawsOnce'
    BY <1>1, <1>2, StillOnce DEF DrawsOnce
  <1> QED BY <1>1, <1>3, <1>4, <1>5 DEF GeneratorsInv

(***************************************************************************)
(* A step that releases the mutex of the worker's generator.               *)
(***************************************************************************)
LEMMA StepUnlocks ==
  ASSUME GeneratorsInv, NEW k \in Workers, NEW r \in WorkerRecord, Fine(r), Goes(k, r),
         w[k].pc = "unlock", r.pc \in {"call", "choose"},
         lock' = [lock EXCEPT ![Gen(k)] = Free], UNCHANGED <<engine, last>>
  PROVE  GeneratorsInv'
  <1>1. /\ w' \in [Workers -> WorkerRecord] /\ (ChoosesFirst /\ OwnBand /\ KeysExist)'
        /\ w'[k] = r
        /\ \A j \in Workers \ {k} : w'[j] = w[j] /\ Gen(j)' = Gen(j)
    BY GoesFine
  <1>2. dist' = dist /\ failed' = failed
    BY DEF Goes
  <1>3. Gen(k) \in Gens /\ lock[Gen(k)] = k
    BY WorkerFacts
  <1>4. Types'
    BY <1>1, <1>2, <1>3 DEF GeneratorsInv, Types
  <1>5. HoldsMutex'
    <2> SUFFICES ASSUME NEW j \in Workers, w'[j].pc \in {"load", "store", "unlock"}
                 PROVE  lock'[Gen(j)'] = j /\ Kind(Gen(j))' # "constant"
      BY DEF HoldsMutex
    <2>1. j # k /\ w'[j] = w[j] /\ Gen(j)' = Gen(j)
      BY <1>1
    <2>2. Gen(j) \in Gens /\ Gen(j) # Gen(k) /\ lock[Gen(j)] = j /\ Kind(Gen(j)) # "constant"
      BY <1>3, <2>1, OthersOutside, WorkerFacts
    <2>3. Kind(Gen(j))' = Kind(Gen(j))
      BY <1>2, <2>1 DEF Kind
    <2> QED BY <1>3, <2>1, <2>2, <2>3 DEF GeneratorsInv, Types
  <1>6. DrawsOnce'
    BY <1>1, <1>2, StillOnce DEF DrawsOnce
  <1> QED BY <1>1, <1>4, <1>5, <1>6 DEF GeneratorsInv

(***************************************************************************)
(* A worker that has moved to another place of the same call.              *)
(***************************************************************************)
LEMMA MovedFine ==
  ASSUME NEW r, Fine(r), NEW q, q.pc # "choose",
         q.todo = r.todo, q.op = r.op, q.u = r.u, q.key = r.key
  PROVE  Fine(q)
  BY DEF Fine

(***************************************************************************)
(* The lock_guard: nobody else is in the generator.                        *)
(***************************************************************************)
LEMMA LockStep ==
  ASSUME GeneratorsInv, NEW k \in Workers, Lock(k)
  PROVE  GeneratorsInv'
  <1> DEFINE r == [w[k] EXCEPT !.pc = "load"]
  <1>1. w[k] \in WorkerRecord /\ Fine(w[k]) /\ Gen(k) \in Gens
    BY WorkerFacts
  <1>2. /\ r \in WorkerRecord /\ r.pc = "load"
        /\ r.todo = w[k].todo /\ r.op = w[k].op /\ r.u = w[k].u /\ r.key = w[k].key
    BY <1>1 DEF WorkerRecord
  <1>3. Fine(r)
    <2> HIDE DEF r
    <2> QED BY <1>1, <1>2, MovedFine
  <1>4. /\ Goes(k, r) /\ lock[Gen(k)] = Free /\ lock' = [lock EXCEPT ![Gen(k)] = k]
        /\ UNCHANGED <<engine, last>>
    BY DEF Lock
  <1> HIDE DEF r
  <1>5. /\ w' \in [Workers -> WorkerRecord] /\ (ChoosesFirst /\ OwnBand /\ KeysExist)'
        /\ w'[k] = r /\ Gen(k)' = Gen(k)
        /\ \A j \in Workers \ {k} : w'[j] = w[j] /\ Gen(j)' = Gen(j)
    BY <1>2, <1>3, <1>4, GoesFine DEF Gen
  <1>6. dist' = dist /\ failed' = failed
    BY <1>4 DEF Goes
  <1>7. Types'
    BY <1>1, <1>4, <1>5, <1>6 DEF GeneratorsInv, Types
  <1>8. HoldsMutex'
    <2> SUFFICES ASSUME NEW j \in Workers, w'[j].pc \in {"load", "store", "unlock"}
                 PROVE  lock'[Gen(j)'] = j /\ Kind(Gen(j))' # "constant"
      BY DEF HoldsMutex
    <2>0. Kind(Gen(j))' = Kind(Gen(j)) /\ Kind(Gen(k)) # "constant"
      BY <1>5, <1>6 DEF Kind, Lock
    <2>1. CASE j = k
      BY <1>1, <1>4, <1>5, <2>0, <2>1 DEF GeneratorsInv, Types
    <2>2. CASE j # k
      <3>1. Gen(j) \in Gens /\ Gen(j) # Gen(k) /\ lock[Gen(j)] = j /\ Kind(Gen(j)) # "constant"
        BY <1>4, <1>5, <2>2, OthersOutside, WorkerFacts
      <3> QED BY <1>4, <1>5, <2>0, <2>2, <3>1 DEF GeneratorsInv, Types
    <2> QED BY <2>1, <2>2
  <1>9. DrawsOnce'
    <2>1. ASSUME NEW j \in Workers, w'[j].pc = "store"
          PROVE  j # k /\ w'[j] = w[j] /\ Gen(j)' = Gen(j)
      BY <1>2, <1>5, <2>1
    <2> QED BY <1>4, <1>6, <2>1, StillOnce DEF DrawsOnce
  <1> QED BY <1>5, <1>7, <1>8, <1>9 DEF GeneratorsInv

(***************************************************************************)
(* The engine is read under the generator's mutex.                         *)
(***************************************************************************)
LEMMA LoadStep ==
  ASSUME GeneratorsInv, NEW k \in Workers, Load(k)
  PROVE  GeneratorsInv'
  <1> DEFINE e == engine[EngineOf(Gen(k))]
             r == [w[k] EXCEPT !.pc = "store", !.reg = e]
  <1>1. /\ w[k] \in WorkerRecord /\ Fine(w[k]) /\ Gen(k) \in Gens /\ e \in 0..(Period - 1)
        /\ w[k].pc = "load" /\ lock[Gen(k)] = k
    BY WorkerFacts DEF GeneratorsInv, Types, Load, At
  <1>2. Goes(k, r) /\ UNCHANGED <<lock, engine, last>>
    BY DEF Load
  <1>3. /\ r \in WorkerRecord /\ r.pc = "store" /\ r.reg = e
        /\ r.todo = w[k].todo /\ r.op = w[k].op /\ r.u = w[k].u /\ r.key = w[k].key
    <2> HIDE DEF e
    <2> QED BY <1>1 DEF WorkerRecord
  <1> HIDE DEF r
  <1>4. Fine(r)
    BY <1>1, <1>3, MovedFine
  <1>5. /\ w' \in [Workers -> WorkerRecord] /\ (ChoosesFirst /\ OwnBand /\ KeysExist)'
        /\ w'[k] = r /\ Gen(k)' = Gen(k)
        /\ \A j \in Workers \ {k} : w'[j] = w[j] /\ Gen(j)' = Gen(j)
    BY <1>2, <1>3, <1>4, GoesFine DEF Gen
  <1>6. dist' = dist /\ failed' = failed
    BY <1>2 DEF Goes
  <1>7. Types'
    BY <1>2, <1>5, <1>6 DEF GeneratorsInv, Types
  <1>8. HoldsMutex'
    <2>1. \A j \in Workers : w'[j].pc \in {"load", "store", "unlock"} =>
            w[j].pc \in {"load", "store", "unlock"}
      BY <1>1, <1>5
    <2>2. \A j \in Workers : Kind(Gen(j))' = Kind(Gen(j)) /\ Gen(j)' = Gen(j)
      BY <1>5, <1>6 DEF Kind
    <2> QED BY <1>2, <2>1, <2>2 DEF GeneratorsInv, HoldsMutex
  <1>9. DrawsOnce'
    <2> SUFFICES ASSUME NEW j \in Workers, w'[j].pc = "store", ~Shared(Gen(j))'
                 PROVE  w'[j].reg = engine'[EngineOf(Gen(j))']
      BY DEF DrawsOnce
    <2>1. CASE j = k
      <3>1. EngineOf(Gen(k))' = EngineOf(Gen(k))
        BY <1>5, <1>6 DEF EngineOf, Kind
      <3> QED BY <1>2, <1>3, <1>5, <2>1, <3>1
    <2>2. CASE j # k
      BY <1>2, <1>5, <1>6, <2>2, StillOnce
    <2> QED BY <2>1, <2>2
  <1> QED BY <1>5, <1>7, <1>8, <1>9 DEF GeneratorsInv

(***************************************************************************)
(* The engine is written: nobody else is about to write it, unless it is   *)
(* that of another generator as well.                                      *)
(***************************************************************************)
LEMMA StoreStep ==
  ASSUME GeneratorsInv, NEW k \in Workers, Store(k)
  PROVE  GeneratorsInv'
  <1> DEFINE r == [w[k] EXCEPT !.pc = "unlock"]
             n == (w[k].reg + 1) % Period
  <1>1. /\ w[k] \in WorkerRecord /\ Fine(w[k]) /\ Gen(k) \in Gens
        /\ EngineOf(Gen(k)) \in Engines /\ w[k].pc = "store" /\ lock[Gen(k)] = k
    BY WorkerFacts DEF Store, At
  <1>2. /\ Goes(k, r) /\ engine' = [engine EXCEPT ![EngineOf(Gen(k))] = n]
        /\ UNCHANGED <<lock, last>>
    BY DEF Store
  <1>3. /\ r \in WorkerRecord /\ r.pc = "unlock"
        /\ r.todo = w[k].todo /\ r.op = w[k].op /\ r.u = w[k].u /\ r.key = w[k].key
    BY <1>1 DEF WorkerRecord
  <1>4. n \in 0..(Period - 1)
    <2>1. w[k].reg \in Nat
      BY <1>1, GeneratorsAssumption DEF WorkerRecord
    <2>2. \A m \in Nat : (m + 1) % Period \in 0..(Period - 1)
      BY GeneratorsAssumption
    <2> QED BY <2>1, <2>2
  <1> HIDE DEF r, n
  <1>5. Fine(r)
    BY <1>1, <1>3, MovedFine
  <1>6. /\ w' \in [Workers -> WorkerRecord] /\ (ChoosesFirst /\ OwnBand /\ KeysExist)'
        /\ w'[k] = r /\ Gen(k)' = Gen(k)
        /\ \A j \in Workers \ {k} : w'[j] = w[j] /\ Gen(j)' = Gen(j)
    BY <1>2, <1>3, <1>5, GoesFine DEF Gen
  <1>7. dist' = dist /\ failed' = failed
    BY <1>2 DEF Goes
  <1>8. Types'
    BY <1>1, <1>2, <1>4, <1>6, <1>7 DEF GeneratorsInv, Types
  <1>9. HoldsMutex'
    <2>1. \A j \in Workers : w'[j].pc \in {"load", "store", "unlock"} =>
            w[j].pc \in {"load", "store", "unlock"}
      BY <1>1, <1>6
    <2>2. \A j \in Workers : Kind(Gen(j))' = Kind(Gen(j)) /\ Gen(j)' = Gen(j)
      BY <1>6, <1>7 DEF Kind
    <2> QED BY <1>2, <2>1, <2>2 DEF GeneratorsInv, HoldsMutex
  <1>10. DrawsOnce'
    <2> SUFFICES ASSUME NEW j \in Workers, w'[j].pc = "store", ~Shared(Gen(j))'
                 PROVE  w'[j].reg = engine'[EngineOf(Gen(j))']
      BY DEF DrawsOnce
    <2>1. j # k /\ w'[j] = w[j] /\ Gen(j)' = Gen(j)
      BY <1>3, <1>6
    <2>2. ~Shared(Gen(j))
      BY <1>7, <2>1 DEF Shared, Kind, EngineOf
    <2>3. Gen(k) \in Gens \ {Gen(j)} /\ Kind(Gen(k)) # "constant"
      BY <1>1, <2>1, OthersOutside, WorkerFacts
    <2>4. EngineOf(Gen(k)) # EngineOf(Gen(j))
      BY <2>2, <2>3 DEF Shared
    <2>5. engine'[EngineOf(Gen(j))] = engine[EngineOf(Gen(j))]
      BY <1>2, <2>4, WorkerFacts DEF GeneratorsInv, Types
    <2> QED BY <1>7, <2>1, <2>5, StillOnce
  <1> QED BY <1>6, <1>8, <1>9, <1>10 DEF GeneratorsInv

(***************************************************************************)
(* The operation chooser's mutex is released, and the worker's own random  *)
(* number is what it chooses by.                                           *)
(***************************************************************************)
LEMMA UnlockChooserStep ==
  ASSUME GeneratorsInv, NEW k \in Workers, UnlockChooser(k)
  PROVE  GeneratorsInv'
  <1>1. /\ w[k] \in WorkerRecord /\ Fine(w[k]) /\ Gen(k) = "op" /\ w[k].pc = "unlock"
        /\ w[k].todo \in Todos
    BY WorkerFacts DEF UnlockChooser, At
  <1>2. PICK u \in 0..(Grain - 1) : Goes(k, [w[k] EXCEPT !.pc = "choose", !.u = u])
    BY DEF UnlockChooser
  <1>3. lock' = [lock EXCEPT ![Gen(k)] = Free] /\ UNCHANGED <<engine, last>>
    BY <1>1 DEF UnlockChooser
  <1> DEFINE r == [w[k] EXCEPT !.pc = "choose", !.u = u]
  <1>4. w[k].op = "none"
    <2>1. ASSUME w[k].todo \in Seq(Gens \ {"op"}) PROVE FALSE
      BY <1>1, <2>1 DEF Gen, Todos
    <2> QED BY <1>1, <2>1 DEF Fine
  <1>5. /\ r \in WorkerRecord /\ r.pc = "choose"
        /\ r.todo = w[k].todo /\ r.op = w[k].op /\ r.key = w[k].key
    BY <1>1 DEF WorkerRecord
  <1>6. Goes(k, r)
    BY <1>2
  <1> HIDE DEF r
  <1>7. Fine(r)
    BY <1>1, <1>4, <1>5 DEF Fine
  <1> QED BY <1>1, <1>3, <1>5, <1>6, <1>7, StepUnlocks

(***************************************************************************)
(* The operation is the one in whose band the worker's own number lies,    *)
(* whatever the others do to last_.                                        *)
(***************************************************************************)
LEMMA ChooseStep ==
  ASSUME GeneratorsInv, NEW k \in Workers, Choose(k)
  PROVE  GeneratorsInv'
  <1>1. /\ w[k] \in WorkerRecord /\ Fine(w[k]) /\ w[k].pc = "choose"
        /\ UNCHANGED <<lock, engine>>
    BY WorkerFacts DEF Choose, At
  <1>2. PICK i \in Stops(w[k].u) :
          /\ \A j \in Stops(w[k].u) : i <= j
          /\ last' = OpWeights[i][1]
          /\ Goes(k, Chosen(w[k], OpWeights[i][1]))
    BY DEF Choose
  <1> DEFINE op == OpWeights[i][1]
             r  == [w[k] EXCEPT !.pc = "call", !.op = op, !.todo = CallsOf(op), !.reg = 0]
  <1>3. i \in DOMAIN OpWeights /\ op \in Operations /\ InBand(w[k].u, i)
    <2>1. w[k].u \in Nat
      BY <1>1, GeneratorsAssumption DEF WorkerRecord
    <2>2. i \in DOMAIN OpWeights /\ InBand(w[k].u, i)
      BY <1>2, <2>1, StopsInBand
    <2> QED BY <2>2, GeneratorsAssumption DEF Operations
  <1>4. CallsOf(op) \in Seq(Gens \ {"op"}) /\ CallsOf(op) # << >>
    BY <1>3, CallsType
  <1>5. CallsOf(op) \in Todos
    BY <1>4 DEF Todos
  <1>6. /\ r \in WorkerRecord /\ r.pc = "call" /\ r.op = op /\ r.todo = CallsOf(op)
        /\ r.u = w[k].u /\ r.key = w[k].key
    <2>1. 0 \in 0..(Period - 1)
      BY GeneratorsAssumption
    <2> HIDE DEF op
    <2> QED BY <1>1, <1>3, <1>5, <2>1 DEF WorkerRecord
  <1>7. Goes(k, r)
    BY <1>2 DEF Chosen
  <1> HIDE DEF r
  <1>8. Fine(r)
    <2>1. op # "none"
      BY <1>3 DEF Operations
    <2> QED BY <1>1, <1>3, <1>4, <1>6, <2>1 DEF Fine
  <1>9. last' \in {OpWeights[j][1] : j \in DOMAIN OpWeights}
    BY <1>2, <1>3
  <1> QED BY <1>1, <1>6, <1>7, <1>8, <1>9, StepOutside

(***************************************************************************)
(* A key that exists is taken.                                             *)
(***************************************************************************)
LEMMA KeyAcceptedStep ==
  ASSUME GeneratorsInv, NEW k \in Workers, KeyAccepted(k)
  PROVE  GeneratorsInv'
  <1>1. w[k] \in WorkerRecord /\ Fine(w[k])
    BY WorkerFacts
  <1>2. PICK n \in KeyDraws : n <= Last /\ Unlock(k, Returned([w[k] EXCEPT !.key = n]))
    BY DEF KeyAccepted
  <1>3. n \in Nat /\ n \in K(dist[1])!NextTransactionKey
    BY <1>2, DrawnKeyExists DEF GeneratorsInv, Types
  <1> DEFINE q == [w[k] EXCEPT !.key = n]
  <1>4. /\ q \in WorkerRecord /\ q.key = n /\ q.pc = w[k].pc /\ q.left = w[k].left
        /\ q.todo = w[k].todo /\ q.op = w[k].op /\ q.u = w[k].u
    BY <1>1, <1>3 DEF WorkerRecord
  <1>5. /\ w[k].pc = "unlock" /\ w[k].left > 0 /\ Goes(k, Returned(q))
        /\ lock' = [lock EXCEPT ![Gen(k)] = Free] /\ UNCHANGED <<engine, last>>
    BY <1>2 DEF Unlock, At
  <1> HIDE DEF q
  <1>6. Fine(q)
    BY <1>1, <1>3, <1>4 DEF Fine
  <1>7. Returned(q) \in WorkerRecord /\ Fine(Returned(q)) /\ Returned(q).pc = "call"
    BY <1>4, <1>5, <1>6, ReturnedFine
  <1> QED BY <1>5, <1>7, StepUnlocks

(***************************************************************************)
(* One that does not is drawn again.                                       *)
(***************************************************************************)
LEMMA KeyRejectedStep ==
  ASSUME GeneratorsInv, NEW k \in Workers, KeyRejected(k)
  PROVE  GeneratorsInv'
  <1> DEFINE r == [w[k] EXCEPT !.pc = "call", !.reg = 0]
  <1>1. w[k] \in WorkerRecord /\ Fine(w[k])
    BY WorkerFacts
  <1>2. /\ w[k].pc = "unlock" /\ Goes(k, r)
        /\ lock' = [lock EXCEPT ![Gen(k)] = Free] /\ UNCHANGED <<engine, last>>
    BY DEF KeyRejected, Unlock, At
  <1>3. /\ r \in WorkerRecord /\ r.pc = "call"
        /\ r.todo = w[k].todo /\ r.op = w[k].op /\ r.u = w[k].u /\ r.key = w[k].key
    <2>1. 0 \in 0..(Period - 1)
      BY GeneratorsAssumption
    <2> QED BY <1>1, <2>1 DEF WorkerRecord
  <1> HIDE DEF r
  <1>4. Fine(r)
    BY <1>1, <1>3, MovedFine
  <1> QED BY <1>2, <1>3, <1>4, StepUnlocks

(***************************************************************************)
(* Fields and lengths.                                                     *)
(***************************************************************************)
LEMMA ValueDrawnStep ==
  ASSUME GeneratorsInv, NEW k \in Workers, ValueDrawn(k)
  PROVE  GeneratorsInv'
  <1> DEFINE r == Returned(w[k])
  <1>1. /\ w[k].pc = "unlock" /\ w[k].left > 0 /\ Goes(k, r)
        /\ lock' = [lock EXCEPT ![Gen(k)] = Free] /\ UNCHANGED <<engine, last>>
    BY DEF ValueDrawn, Unlock, At
  <1>2. r \in WorkerRecord /\ Fine(r) /\ r.pc = "call"
    BY <1>1, WorkerFacts, ReturnedFine
  <1> HIDE DEF r
  <1> QED BY <1>1, <1>2, StepUnlocks

(***************************************************************************)
(* A generator without state.                                              *)
(***************************************************************************)
LEMMA NextConstStep ==
  ASSUME GeneratorsInv, NEW k \in Workers, NextConst(k)
  PROVE  GeneratorsInv'
  <1> DEFINE r == Returned(w[k])
  <1>1. w[k].pc = "call" /\ w[k].left > 0 /\ Goes(k, r) /\ UNCHANGED <<lock, engine, last>>
    BY DEF NextConst, At
  <1>2. r \in WorkerRecord /\ Fine(r) /\ r.pc = "call"
    BY <1>1, WorkerFacts, ReturnedFine
  <1>3. last' \in {OpWeights[i][1] : i \in DOMAIN OpWeights}
    BY <1>1 DEF GeneratorsInv, Types
  <1> HIDE DEF r
  <1> QED BY <1>1, <1>2, <1>3, StepOutside

-----------------------------------------------------------------------------
(* The invariant *)

LEMMA GeneratorsInit == Init => GeneratorsInv
  <1> SUFFICES ASSUME Init PROVE GeneratorsInv
    OBVIOUS
  <1>1. Fresh \in WorkerRecord /\ Fine(Fresh) /\ Fresh.pc = "call"
    <2>1. Fresh = [Fresh EXCEPT !.left = NumOps] /\ NumOps \in 0..NumOps
      BY GeneratorsAssumption DEF Fresh
    <2> QED BY <2>1, FreshFine
  <1>2. w = [k \in Workers |-> Fresh]
    BY DEF Init
  <1>3. w \in [Workers -> WorkerRecord]
    BY <1>1, <1>2
  <1>4. 1 \in DOMAIN OpWeights
    BY GeneratorsAssumption
  <1>5. Types
    <2>1. lock \in [Gens -> Workers \cup {Free}] /\ failed \in BOOLEAN
      BY DEF Init
    <2>2. engine \in [Engines -> 0..(Period - 1)]
      BY GeneratorsAssumption DEF Init
    <2>3. last \in {OpWeights[i][1] : i \in DOMAIN OpWeights}
      BY <1>4 DEF Init
    <2> QED BY <1>3, <2>1, <2>2, <2>3 DEF Init, Types
  <1>6. ChoosesFirst /\ OwnBand /\ KeysExist
    BY <1>1, <1>2, FineIs
  <1>7. HoldsMutex /\ DrawsOnce
    BY <1>1, <1>2 DEF HoldsMutex, DrawsOnce
  <1> QED BY <1>5, <1>6, <1>7 DEF GeneratorsInv

LEMMA GeneratorsStep == GeneratorsInv /\ [Next]_vars => GeneratorsInv'
  <1> SUFFICES ASSUME GeneratorsInv, [Next]_vars PROVE GeneratorsInv'
    OBVIOUS
  <1>0. ASSUME UNCHANGED <<dist, lock, engine, last, w>>, failed' \in BOOLEAN PROVE GeneratorsInv'
    <2>1. Types'
      BY <1>0 DEF GeneratorsInv, Types
    <2>2. \A k \in Workers : Gen(k)' = Gen(k) /\ Kind(Gen(k))' = Kind(Gen(k))
      BY <1>0 DEF Gen, Kind
    <2>3. HoldsMutex'
      BY <1>0, <2>2 DEF GeneratorsInv, HoldsMutex
    <2>4. DrawsOnce'
      BY <1>0, <2>2, StillOnce DEF DrawsOnce
    <2>5. ChoosesFirst' /\ OwnBand' /\ KeysExist'
      BY <1>0 DEF GeneratorsInv, ChoosesFirst, OwnBand, KeysExist
    <2> QED BY <2>1, <2>3, <2>4, <2>5 DEF GeneratorsInv
  <1>1. CASE UNCHANGED vars
    BY <1>0, <1>1 DEF vars, GeneratorsInv, Types
  <1>2. ASSUME NEW k \in Workers, ChooseFails(k) PROVE GeneratorsInv'
    BY <1>0, <1>2 DEF ChooseFails
  <1>3. ASSUME NEW k \in Workers, WorkerNext(k) PROVE GeneratorsInv'
    BY <1>2, <1>3, NextConstStep, LockStep, LoadStep, StoreStep, UnlockChooserStep,
       ChooseStep, KeyAcceptedStep, KeyRejectedStep, ValueDrawnStep DEF WorkerNext
  <1> QED BY <1>1, <1>3 DEF Next

LEMMA GeneratorsInvariant == Spec => []GeneratorsInv
  BY GeneratorsInit, GeneratorsStep, PTL DEF Spec

(***************************************************************************)
(* The assertion of the chooser's loop ends the process, and only for a    *)
(* number at the top.                                                      *)
(***************************************************************************)
LEMMA FailsAtTopStep == GeneratorsInv /\ FailsAtTop /\ [Next]_vars => FailsAtTop'
  <1> SUFFICES ASSUME GeneratorsInv, FailsAtTop, [Next]_vars PROVE FailsAtTop'
    OBVIOUS
  <1>1. CASE UNCHANGED vars
    BY <1>1 DEF vars, FailsAtTop
  <1>2. ASSUME NEW k \in Workers, ChooseFails(k) PROVE FailsAtTop'
    <2>1. w[k].pc = "choose" /\ Stops(w[k].u) = {} /\ w' = w
      BY <1>2 DEF ChooseFails, At
    <2>2. w[k].u \in Nat
      BY WorkerFacts, GeneratorsAssumption DEF WorkerRecord
    <2>3. 2 * (Grain - w[k].u) <= Len(OpWeights)
      BY <2>1, <2>2, PassesAtTop
    <2> QED BY <2>1, <2>3 DEF FailsAtTop
  <1>3. ASSUME NEW k \in Workers, WorkerNext(k), ~ChooseFails(k) PROVE FailsAtTop'
    <2>1. ~failed /\ failed' = failed
      BY <1>3 DEF WorkerNext, NextConst, Lock, Load, Store, UnlockChooser, Choose, KeyAccepted,
                  KeyRejected, ValueDrawn, Unlock, Goes, At
    <2> QED BY <2>1 DEF FailsAtTop
  <1> QED BY <1>1, <1>2, <1>3 DEF Next

-----------------------------------------------------------------------------
(* The theorems *)

(***************************************************************************)
(* Type correctness: a worker never runs out of calls while it has a       *)
(* transaction to finish, and the engines stay in their period.            *)
(***************************************************************************)
THEOREM GeneratorsTypeCorrect == Spec => []GeneratorsTypeOK
  <1>1. GeneratorsInv => GeneratorsTypeOK
    BY DEF GeneratorsInv, Types, WorkerRecord, Todos, GeneratorsTypeOK
  <1> QED BY <1>1, GeneratorsInvariant, PTL

(***************************************************************************)
(* Under its mutex a generator that has its engine to itself loses no draw *)
(* and hands none out twice, whichever workers call it and whatever they   *)
(* do meanwhile to the engines of the others.                              *)
(***************************************************************************)
THEOREM DrawsAreOnce == Spec => []DrawsOnce
  BY GeneratorsInvariant, PTL DEF GeneratorsInv

(***************************************************************************)
(* DiscreteGenerator::Next keeps to the proportions for every number of    *)
(* values, all weights and every precision: although the loop runs outside *)
(* of the mutex, writes the shared last_ and subtracts rounded quotients,  *)
(* a worker executes the operation in whose band its own random number     *)
(* lies, and only a number at the top can run out of values.               *)
(***************************************************************************)
THEOREM ChoosesByWeight == Spec => []ChoiceByWeight
  <1>1. Init => FailsAtTop
    BY DEF Init, FailsAtTop
  <1>2. Spec => []FailsAtTop
    BY <1>1, GeneratorsInvariant, FailsAtTopStep, PTL DEF Spec
  <1>3. GeneratorsInv /\ FailsAtTop => ChoiceByWeight
    BY DEF GeneratorsInv, OwnBand, FailsAtTop, ChoiceByWeight
  <1> QED BY <1>2, <1>3, GeneratorsInvariant, PTL

(***************************************************************************)
(* NextTransactionKey: for every distribution, hash and record count the   *)
(* generators' draws stay within the key space the module Client draws     *)
(* from.                                                                   *)
(***************************************************************************)
THEOREM DrawnKeysExist == Spec => []KeysExist
  BY GeneratorsInvariant, PTL DEF GeneratorsInv
=============================================================================
