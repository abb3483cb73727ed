----------------------------- MODULE Generators -----------------------------
(***************************************************************************)
(* The generators of one CoreWorkload, drawn from by all its workers: the  *)
(* DiscreteGenerator of operations, the key chooser (uniform, scrambled    *)
(* zipfian or skewed latest), the choosers of fields and lengths.  Each    *)
(* has a mutex of its own.  A UniformGenerator owns its random engine; the *)
(* others call utils::RandomDouble, whose one engine is shared by callers  *)
(* that hold different mutexes, so that drawing is a load and a store.     *)
(***************************************************************************)
EXTENDS Integers, Sequences, FiniteSets

CONSTANTS
  NumThreads,
  NumOps,        \* the transactions of each worker
  OpWeights,     \* values_ of op_chooser_: <<operation, weight>>, weight > 0
  Grain,         \* the values RandomDouble can take, as the numerators of u
  Period,        \* the period of the engines: a state is its place in it
  RecordCount, NewKeys,
  FieldCount,    \* the fieldcount property
  Dists,         \* pairs of a requestdistribution and a field_len_dist
  Hash(_)        \* utils::FNVHash64

ASSUME GeneratorsAssumption ==
  /\ NumThreads \in Nat \ {0}
  /\ NumOps \in Nat
  /\ DOMAIN OpWeights = 1..Len(OpWeights) /\ OpWeights # << >>
  /\ \A i \in DOMAIN OpWeights :
       /\ OpWeights[i][1] \in {"READ", "UPDATE", "INSERT", "SCAN", "RMW"}
       /\ OpWeights[i][2] \in Nat \ {0}
  /\ Grain \in Nat \ {0}
  /\ RecordCount \in Nat /\ RecordCount >= 3
  /\ NewKeys \in Nat
  /\ Period \in Nat \ {0}
  /\ FieldCount \in Nat \ {0}
  /\ \A v \in 0..(RecordCount + NewKeys - 1) : Hash(v) \in Nat
  /\ Dists \subseteq {"uniform", "zipfian", "latest"} \X {"constant", "uniform", "zipfian"}

Workers == 0..(NumThreads - 1)

\* op_chooser_, key_chooser_, field_chooser_, field_len_generator_,
\* scan_len_chooser_.
Gens == {"op", "key", "field", "fieldlen", "scanlen"}

Free == -1
NoKey == -1

VARIABLES
  dist,    \* the distributions of this workload
  lock,    \* mutex_ of each generator: the worker that holds it, or Free
  engine,  \* the state of each random engine
  last,    \* last_ of op_chooser_
  w,       \* the workers
  failed   \* an assertion failed: the process is gone

vars == <<dist, lock, engine, last, w, failed>>

\* The generators as CoreWorkload::Init makes them.
Kind(g) ==
  CASE g = "op" -> "discrete"
    [] g = "key" -> (IF dist[1] = "uniform" THEN "uniform" ELSE "zipfian")
    [] g = "fieldlen" -> dist[2]
    [] g \in {"field", "scanlen"} -> "uniform"

\* The engine a generator draws from: RandomDouble's is one for all.
Engines == Gens \cup {"RandomDouble"}
EngineOf(g) == IF Kind(g) = "uniform" THEN g ELSE "RandomDouble"

Fresh == [pc |-> "call", todo |-> <<"op">>, reg |-> 0, u |-> 0, op |-> "none",
          key |-> NoKey, left |-> NumOps]

-----------------------------------------------------------------------------
(* What a draw can return *)

\* Running(a, d)[i] is a with d[1], ..., d[i] added one after the other.
Running(a, d) ==
  LET f[i \in 0..Len(OpWeights)] == IF i = 0 THEN a ELSE f[i - 1] + d[i] IN f

\* The weights of the first values together; AddValue: sum_ += weight.
Below == Running(0, [i \in DOMAIN OpWeights |-> OpWeights[i][2]])
sum == Below[Len(OpWeights)]

\* The share p->second / sum_ in grains: a quotient of doubles is rounded.
Share(i) == (2 * OpWeights[i][2] * Grain + sum) \div (2 * sum)

\* What is left of the chooser when the loop has passed the first values.
Chooser(u) == Running(u, [i \in DOMAIN OpWeights |-> -Share(i)])

\* The values at which the loop stops for u; without one, assert(false).
Stops(u) == {i \in DOMAIN OpWeights : Chooser(u)[i - 1] < Share(i)}

\* ZipfianGenerator::Next(num): 0 and 1 whatever base_ is; with two items the
\* two bands are everything.
ZipfianNext(base, num) == {0, 1} \cup (IF num > 2 THEN base..(base + num - 1) ELSE {})

\* insert_key_sequence_.Last()
Last == RecordCount - 1

\* What module Client takes a transaction's key to be, for a distribution.
K(d) == INSTANCE KeySpace WITH RequestDist <- d

\* Mutant of KeyDraws: Last() + 1 for the skewed latest generator's maximum.
KeyDrawsPastLast ==
  CASE dist[1] = "uniform" -> 0..(RecordCount - 1)
    [] dist[1] = "zipfian" ->
         {Hash(v) % (RecordCount + NewKeys) : v \in ZipfianNext(0, RecordCount + NewKeys)}
    [] dist[1] = "latest" ->
         {Last - v : v \in ZipfianNext(0, Last + 1)}

\* key_chooser_->Next(): ScrambledZipfianGenerator takes the hash modulo the
\* number of items, SkewedLatestGenerator counts back from the last record.
KeyDraws ==
  CASE dist[1] = "uniform" -> 0..(RecordCount - 1)
    [] dist[1] = "zipfian" ->
         {Hash(v) % (RecordCount + NewKeys) : v \in ZipfianNext(0, RecordCount + NewKeys)}
    [] dist[1] = "latest" ->
         {Last - v : v \in ZipfianNext(0, Last)}

\* The generator calls that follow the choice of an operation, in the order
\* of Client's transactions (one field read, one field written).
CallsOf(op) ==
  CASE op = "READ"   -> <<"key", "field">>
    [] op = "SCAN"   -> <<"key", "scanlen", "field">>
    [] op = "UPDATE" -> <<"key", "field", "fieldlen">>
    [] op = "RMW"    -> <<"key", "field", "field", "fieldlen">>
    [] op = "INSERT" -> [i \in 1..FieldCount |-> "fieldlen"]

-----------------------------------------------------------------------------

Init ==
  /\ dist \in Dists
  /\ lock = [g \in Gens |-> Free]
  /\ engine = [e \in Engines |-> 0]
  /\ last = OpWeights[1][1]
  /\ w = [k \in Workers |-> Fresh]
  /\ failed = FALSE

Gen(k) == Head(w[k].todo)
At(k, pc) == ~failed /\ w[k].left > 0 /\ w[k].pc = pc

\* Mutant of Returned: one call too many.
ReturnedOneMore(r) ==
  IF Len(r.todo) > 0 THEN [r EXCEPT !.pc = "call", !.todo = Tail(@), !.reg = 0]
  ELSE [Fresh EXCEPT !.left = r.left - 1]

\* Mutant of Returned: the transaction is not counted.
ReturnedUncounted(r) ==
  IF Len(r.todo) > 1 THEN [r EXCEPT !.pc = "call", !.todo = Tail(@), !.reg = 0]
  ELSE [Fresh EXCEPT !.left = r.left]

\* The call returned: the next one, or the end of the transaction.
Returned(r) ==
  IF Len(r.todo) > 1 THEN [r EXCEPT !.pc = "call", !.todo = Tail(@), !.reg = 0]
  ELSE [Fresh EXCEPT !.left = r.left - 1]

Goes(k, r) == w' = [w EXCEPT ![k] = r] /\ UNCHANGED <<dist, failed>>

\* ConstGenerator::Next
NextConst(k) ==
  /\ At(k, "call") /\ Kind(Gen(k)) = "constant"
  /\ Goes(k, Returned(w[k]))
  /\ UNCHANGED <<lock, engine, last>>

\* Mutant of Lock: no lock_guard.
LockNone(k) ==
  /\ At(k, "call") /\ Kind(Gen(k)) # "constant"
  /\ lock' = [lock EXCEPT ![Gen(k)] = k]
  /\ Goes(k, [w[k] EXCEPT !.pc = "load"])
  /\ UNCHANGED <<engine, last>>

\* mutex_.lock(), or the lock_guard
Lock(k) ==
  /\ At(k, "call") /\ Kind(Gen(k)) # "constant"
  /\ lock[Gen(k)] = Free
  /\ lock' = [lock EXCEPT ![Gen(k)] = k]
  /\ Goes(k, [w[k] EXCEPT !.pc = "load"])
  /\ UNCHANGED <<engine, last>>

\* dist_(generator_) or uniform(generator): the engine's state is read...
Load(k) ==
  /\ At(k, "load")
  /\ Goes(k, [w[k] EXCEPT !.pc = "store", !.reg = engine[EngineOf(Gen(k))]])
  /\ UNCHANGED <<lock, engine, last>>

\* ...and written back, advanced.
Store(k) ==
  /\ At(k, "store")
  /\ engine' = [engine EXCEPT ![EngineOf(Gen(k))] = (w[k].reg + 1) % Period]
  /\ Goes(k, [w[k] EXCEPT !.pc = "unlock"])
  /\ UNCHANGED <<lock, last>>

\* DiscreteGenerator: the mutex is released before the loop.
UnlockChooser(k) ==
  /\ At(k, "unlock") /\ Gen(k) = "op"
  /\ \E u \in 0..(Grain - 1) : Goes(k, [w[k] EXCEPT !.pc = "choose", !.u = u])
  /\ lock' = [lock EXCEPT !["op"] = Free]
  /\ UNCHANGED <<engine, last>>

\* The operation of the transaction is op.
Chosen(r, op) ==
  [r EXCEPT !.pc = "call", !.op = op, !.todo = CallsOf(op), !.reg = 0]

\* Mutant of Choose: return last_, which another worker may have set.
ChooseLast(k) ==
  /\ At(k, "choose") /\ Stops(w[k].u) # {}
  /\ \/ last' = OpWeights[CHOOSE i \in Stops(w[k].u) : \A j \in Stops(w[k].u) : i <= j][1]
     \/ UNCHANGED last
  /\ Goes(k, Chosen(w[k], last'))
  /\ UNCHANGED <<lock, engine>>

\* return last_ = p->first, for the first value whose share is not used up.
Choose(k) ==
  /\ At(k, "choose")
  /\ \E i \in Stops(w[k].u) :
       /\ \A j \in Stops(w[k].u) : i <= j
       /\ last' = OpWeights[i][1]
       /\ Goes(k, Chosen(w[k], OpWeights[i][1]))
  /\ UNCHANGED <<lock, engine>>

\* Rounding left the chooser above the last share: assert(false).
ChooseFails(k) ==
  /\ At(k, "choose") /\ Stops(w[k].u) = {}
  /\ failed' = TRUE
  /\ UNCHANGED <<dist, lock, engine, last, w>>

\* The end of the lock_guard's scope, and what the caller does with the value.
Unlock(k, r) ==
  /\ At(k, "unlock")
  /\ lock' = [lock EXCEPT ![Gen(k)] = Free]
  /\ Goes(k, r)
  /\ UNCHANGED <<engine, last>>

\* NextTransactionKey: the key exists...
KeyAccepted(k) ==
  /\ Gen(k) = "key"
  /\ \E n \in KeyDraws :
       /\ n <= Last
       /\ Unlock(k, Returned([w[k] EXCEPT !.key = n]))

\* ...or another one is drawn.
KeyRejected(k) ==
  /\ Gen(k) = "key"
  /\ \E n \in KeyDraws :
       /\ n > Last
       /\ Unlock(k, [w[k] EXCEPT !.pc = "call", !.reg = 0])

\* NextFieldName, NextScanLength, field_len_generator_->Next(): data of the call.
ValueDrawn(k) ==
  /\ Gen(k) \in {"field", "fieldlen", "scanlen"}
  /\ Unlock(k, Returned(w[k]))

WorkerNext(k) ==
  \/ NextConst(k) \/ Lock(k) \/ Load(k) \/ Store(k)
  \/ UnlockChooser(k) \/ Choose(k) \/ ChooseFails(k)
  \/ KeyAccepted(k) \/ KeyRejected(k) \/ ValueDrawn(k)

Done == failed \/ \A k \in Workers : w[k].left = 0

Next == (\E k \in Workers : WorkerNext(k)) \/ (Done /\ UNCHANGED vars)

(***************************************************************************)
(* The workers are threads the operating system schedules, a mutex that is *)
(* released again and again is had at some time, and a random draw that    *)
(* can be accepted is accepted at some time.                               *)
(***************************************************************************)
Fairness ==
  \A k \in Workers :
    /\ WF_vars(WorkerNext(k))
    /\ SF_vars(Lock(k))
    /\ SF_vars(KeyAccepted(k))

Spec == Init /\ [][Next]_vars /\ Fairness
-----------------------------------------------------------------------------
(* Properties *)

GeneratorsTypeOK ==
  /\ dist \in Dists
  /\ lock \in [Gens -> Workers \cup {Free}]
  /\ engine \in [Engines -> 0..(Period - 1)]
  /\ last \in {OpWeights[i][1] : i \in DOMAIN OpWeights}
  /\ \A k \in Workers :
       /\ w[k].pc \in {"call", "load", "store", "unlock", "choose"}
       /\ w[k].todo \in Seq(Gens) /\ w[k].todo # << >>
       /\ w[k].reg \in 0..(Period - 1)
       /\ w[k].u \in 0..(Grain - 1)
       /\ w[k].left \in 0..NumOps
  /\ failed \in BOOLEAN

\* Another generator of the workload draws from the engine g draws from.
Shared(g) == \E h \in Gens \ {g} : Kind(h) # "constant" /\ EngineOf(h) = EngineOf(g)

(***************************************************************************)
(* A generator that has its engine to itself loses no draw and hands none  *)
(* out twice: the state a worker is about to store follows the one that is *)
(* there.  That is every UniformGenerator, and op_chooser_ in a workload   *)
(* without a zipfian distribution; where two generators call RandomDouble, *)
(* their mutexes do not keep them apart, and nothing of the kind holds.    *)
(***************************************************************************)
DrawsOnce ==
  \A k \in Workers : w[k].pc = "store" /\ ~Shared(Gen(k)) =>
    w[k].reg = engine[EngineOf(Gen(k))]

(***************************************************************************)
(* DiscreteGenerator promises each value its weight: u lies in the band of *)
(* the i-th value, between the weights before it and those up to it as     *)
(* parts of the sum.  Rounding moves a border by half a grain per value.   *)
(***************************************************************************)
InBand(u, i) ==
  /\ 2 * (Below[i - 1] * Grain - u * sum) <= (i - 1) * sum
  /\ 2 * (u * sum - Below[i] * Grain) < i * sum

(***************************************************************************)
(* The operation a worker goes on to execute is the one in whose band its  *)
(* own random number lies, although the workers choose outside the mutex,  *)
(* all write last_, and subtract rounded shares; and the loop runs out of  *)
(* values (assert(false)) only for a number within half a grain per value  *)
(* of 1.                                                                   *)
(***************************************************************************)
ChoiceByWeight ==
  /\ \A k \in Workers : w[k].op # "none" =>
       \E i \in DOMAIN OpWeights : w[k].op = OpWeights[i][1] /\ InBand(w[k].u, i)
  /\ failed => \E k \in Workers :
                 w[k].pc = "choose" /\ 2 * (Grain - w[k].u) <= Len(OpWeights)

(***************************************************************************)
(* Whatever the distribution, a transaction's key is one that module       *)
(* Client lets a transaction draw: 0 to recordcount - 1, and never 0 from  *)
(* the skewed latest generator.                                            *)
(***************************************************************************)
KeysExist ==
  \A k \in Workers : w[k].key # NoKey => w[k].key \in K(dist[1])!NextTransactionKey

(***************************************************************************)
(* Every worker gets through its draws (or an assertion ends the process): *)
(* no worker waits for a mutex for ever, and the loop of                   *)
(* NextTransactionKey ends.                                                *)
(***************************************************************************)
DrawsEnd == <>Done
=============================================================================
