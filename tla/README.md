# A TLA+ development of ycsb-c-cloud

ycsb-c-cloud is a C++ port of the YCSB key-value benchmark, with a RocksDB-Cloud
back end. This directory models the program of `ycsbc.cc`, `core/` and `db/`:
its start from a command line, its process and threads, its operations and the
records they leave, its random draws, the databases behind it, and the measurements it
prints. TLC checks the models on small instances
(`*.cfg`), TLAPS proves their safety properties for every instance
(`*Proofs.tla`), and `PROJECT.json` ties definitions to source lines.

## 1. Inventory

### The parts, their state and operations

| Part | State | Operations | Talks to |
|---|---|---|---|
| `main` (ycsbc.cc) | `actual_ops`, `sum`, the phase's `CoreWorkload` | create the DB, load phase, run phase, statistics, shut down | starts and joins workers, joins the statistics threads, sets `finish` and `done` |
| workers (`DelegateClient`) | loop counter, `oks` | execute `total / threads` operations | share the DB, the workload, `ops_cnt`, `ops_time` |
| statistics threads (rocksdb_cloud_db.cc) | loop position | report every second or ten, announce the end of the load, print a summary | read `done`, read and clear `finish`, use `db_` |
| `Client` (client.h) | the global `uniform_insert_counter` | `DoInsert`, `DoTransaction` with five transactions | draws from `CoreWorkload`, calls `DB`, accounts |
| `CoreWorkload` and generators | `key_generator_`, `insert_key_sequence_`, choosers | next key, next operation, values to write | one object shared by a phase's workers |
| `RocksDBCloud` | `db_`, `noResult`, `qps`, seven histograms, two files | `Read`, `Scan`, `Insert`, `Update`, `RecordTime`, `latency_hiccup`, `PrintStats` | RocksDB-Cloud, HdrHistogram |
| `BasicDB` | a mutex | prints each call | – |
| HdrHistogram_c (vendored) | counts and a total per histogram | record, reset, percentile | plain memory, shared by all workers |
| RocksDB-Cloud (external) | the records | Get, Put, iterate, Open | survives the process |
| generators (core/*_generator.h) | a mutex each, random engines, `last_` | draw an operation, a key, a field, a length | one engine shared by all that call `RandomDouble` |
| `DB` (core/db.h) | – | the contract of Read, Scan, Update, Insert, Delete | implemented by the DBs |
| `HashtableDB` | a hashtable of hashtables of heap strings | the five operations | abstract hashtables and allocator |
| `RocksDB` (rocksdb_db.cc, not built) | `db_`, `noResult` | the five operations | RocksDB |
| record encoding (coding.h) | – | `SerializeValues`, `DeSerializeValues` | the bytes of a Put and a Get |
| command line, properties | a map of strings | parse, load files, convert | read by `main` and `CoreWorkload::Init` |
| `/proc` readers (perf_disk_net_bw.h) | – | read the counters of disk and network | called by `print_my_status` |
| timer, scripts | | | see section 8 |

### What is hard here

* Lifetimes: workers and statistics threads hold raw pointers to the DB and to
  a workload that is a local variable of a block of `main`.
* Ends: `exit(0)` from inside a worker, exceptions that nothing catches, a DB that
  failed to open and is used anyway, and global `std::thread` objects whose
  destructors abort.
* Flags: `finish` is set by one thread and read, acted upon and cleared by another.
* Counters: `noResult`, `ops_cnt`, `ops_time` and the histograms are plain memory
  under concurrent increments, and one of the histograms is reset while others
  write it; only `qps` and the key counters are atomic.
* Crashes: a load may die at any point and another process goes on with the records
  it left.
* Arithmetic: the work is divided by the number of threads and the remainder dropped;
  shares of a probability are rounded; differences of unsigned counters wrap.
* Draws: each generator locks itself, but the engine behind `RandomDouble` is shared by
  callers that hold different mutexes, and an operation is chosen outside the lock.
* Memory by hand: `HashtableDB` frees strings and tables that another caller may hold.
* Reports over moving counters: the statistics thread takes differences of tickers and of
  `/proc` while workers, disk and network go on, and a reading can fail.
* Late checks: properties are converted after the DB was opened, some only after the load.

`PROJECT.json` lists these as hazards, each with its line and the properties aimed at it.

## 2. Modules

| Module | Models |
|---|---|
| `Driver` | the process: main, workers, statistics threads, the ways to end, a script of processes |
| `Client` | extends `Driver`: the operations step by step, the key space and the records |
| `KeySpace` | which keys a transaction can draw (used by `Client`, checked by `Generators`) |
| `Generators` | the draws of a phase's workers: mutexes, engines, the choice among weights |
| `Measurements` | the shared counters and histograms, memory access by memory access |
| `RecordStore` | abstract: what core/db.h promises (`Spec`), and a DB of opaque records (`BlobSpec`) |
| `HashtableDB` | db/hashtable_db.cc, one step per call of a hashtable; implements `RecordStore!Spec` |
| `RocksStore` | db/rocksdb_db.cc and the record encoding; implements `RecordStore!BlobSpec` |
| `Startup` | the command line, the property files and every check before the workers start |
| `Status` | print_my_status: its readings, differences and summary |
| `MC*` | instances for TLC |
| `DriverProofs`, `ClientProofs`, `MeasurementsProofs`, `GeneratorsProofs`, `HashtableDBProofs`, `RocksStoreProofs`, `StartupProofs`, `StatusProofs` | the theorems about the module of that name |

**Driver.** `pc`, `phase`, `futures`, `joined` and `sum` are main's position and
locals; `db` and `wl` say which objects live; `worker[k]` and `stat[s]` are the
threads; `finish`, `done` the flags. Each action is one step between two points at
which another thread can interfere: `LaunchWorker` is one `async`, `JoinWorker` one
`get()` (in launch order, blocking), `RocksCheck`, `RocksAnnounce`, `RocksClear` are
the three accesses of printRocksDBStats to `finish`. `End(how)` freezes the process;
`ExitStatus` is the destruction of the global thread objects, which turns an exit into
an abort while one of them is joinable. `Restart` starts the next process with any
command line of `Commands`. A command line is the result of ParseCommandLine.

**Client.** It EXTENDS Driver and replaces `WorkerOp` by the steps of an operation:
draw a key (`DoInsert`, `TransactionInsert`, `TransactionStart`), then the call of the
DB. `store` maps a key name to the set of fields of the record; a record's contents,
table and scan results are left out, since nothing reads them. A retry in
`NextTransactionKey` leaves the state as it is, so only the accepted draw is a step.
`noResult++` is a load (`MissLoad`) and a store (`MissStore`). `Hash` is a parameter.
A crash keeps `store`: RocksDB's `Put` without `sync` has written the log to the
operating system when it returns, which the death of the process does not lose. That is
an assumption on the external library, and does not cover a machine that dies.

**Measurements.** A worker has a list of memory accesses, built by operators that
follow the code: `Account` (DoTransaction), `RecordTime`, `Record` (hdr_record_value),
`Reset` (hdr_reset), `Hiccup` (latency_hiccup). An addition to plain memory is `Load` and
`Store`; `qps` has atomic actions. `issued`, `counted` and `reported` are history
variables. The bucket of a latency is a parameter. The clock is nondeterministic: after
any operation worker 0 may find that a second has passed.

**KeySpace, Generators.** `Client` draws a key in one step from `NextTransactionKey` of
`KeySpace`. `Generators` takes the draw apart: lock, read the engine, write the engine,
unlock; for an operation the choice follows outside the lock. A random number is a multiple of
1 / `Grain` and each quotient weight / sum is rounded to the nearest one (`Share`), as doubles
are, so that the subtractions of the loop drift (`Chooser`) and the fall through it to
`assert(false)` is reachable (`ChooseFails`). An engine is its place in a period, which is enough to see a draw
handed out twice. The value drawn is any of the range: the shape of a distribution is
left out. `KeysExist` ties the two modules together.

**RecordStore, HashtableDB.** `RecordStore` has one step per operation of core/db.h, with its
answer. In `HashtableDB` an operation is a sequence of steps: look a table up, get pointers,
follow them, insert, free. Addresses are reused, as an allocator does. The hashtables
are external (core code only declares them) and taken to be thread-safe. The
refinement mapping shows a record under change as it was until the operation
returns (`Settled`). The module is parameterised by *workloads*: which client does what on
which key. Clients read, scan, insert and update shared keys, as the threads of `Client` do with
one key chooser; only `Delete`, which no client calls, is kept to keys of one's own
(`HashtableAssumption`). So the model has what the code does then: a read that copies from a
string an update has freed gets any value (`RowCopy`, `Garbage`), of two tables made for a new key
one is lost (`Link`), and an insert that comes second loses its string (`LeakString`).
`ans` holds the answers the contract is compared with, those of calls on records that no other
client writes; `seen` the others.

**RocksStore.** A record is stored as bytes, `put` remembers the pairs. The constructor
exits on each failure, an operation that fails ends the process, and another process
may follow at any time. The refinement mapping answers a miss when `Get` has returned,
before `noResult++` is over.

**Startup.** A text is a sequence of words and blanks. One action per option,
per line of a file, and per check of `main` and `CoreWorkload::Init`; `how` says whether the
process left by exit(0) or by std::terminate, and `OpensOnlyWellFormed` says which it is for each
command line that the parser refuses. Driver's command line is its result. A line of
a file carries the text before and after its first "=", and `name` and `means`, what is
left of the two without the blanks around them (`Stripped`, a defining condition and not an
algorithm); `Trim` is the code's, and `LastAssignmentWins` compares what it returns with
`name` and `means`. That property speaks of the *set* of assignments of a command line, each with
its place (`Assigned`), and says what they make of the presets (`Results`).

**Status.** The workers' lookups move the tickers, other programs the counters of `/proc`,
between any two readings. `shown`, `netShown`, `diskShown` add up what was printed.
Unsigned differences are taken modulo `Width`. Of `main` the module keeps what decides on `done`:
after a load it waits for ever (`WaitCompaction`), else it sets it (`SetDone`); a worker's
exit(0) may end the process before (`WorkerExits`).

## 3. Properties and runs

| Run | Checks | Shows |
|---|---|---|
| `driver` | `TypeOK`, `ObjectsOutliveTheirUsers`, `ReportedSum`, `FinishLineTruthful`, `CleanExitOnlyBeforeOpen`, `EndsUnlessLoading`, `FinishAnnounced` | the whole process over all DBs, with and without load and run, two processes |
| `client_load_run` | `ClientTypeOK`, `NoKeyLost`, `NotFoundBounds`, `InsertCreates`, `FairSpec` | two workers sharing the counters in a load and a run of one process; Client implements Driver, its fairness included |
| `client_script` | `LoadIsDurable`, `LoadedNeverMissed` | three processes, each of which may end at any step |
| `measurements` | `MeasurementsTypeOK`, `NeverOvercounts`, `ExecutedIsReported`, `IopsNeverOverReported`, `SequentialExact` | two workers racing, with hiccup lines; exact as long as worker 0 is alone |
| `hashtable` | `HashtableTypeOK`, `PointersAreLive`, `OneOwner`, `ReadBetween`, `ImplementsContract` | clients sharing keys: nothing freed twice or too early, nothing lost with one writer per key, reads during inserts, the contract of core/db.h |
| `rocks_store` | `RocksTypeOK`, `DecodesExactly`, `ImplementsBlobs` | the encoding round trip in every reachable store; operations atomic and durable |
| `generators` | `GeneratorsTypeOK`, `DrawsOnce`, `ChoiceByWeight`, `KeysExist`, `DrawsEnd` | every distribution, two workers: no draw twice from an engine of one's own, operations by weight in spite of rounding, keys exist, drawing ends |
| `startup` | `OpensOnlyWellFormed`, `LastAssignmentWins`, `RunFollowsLoad` | every argument list of up to four words, and longer ones over eleven files |
| `status` | `StatusTypeOK`, `DeltasTelescope`, `NeverOverReported`, `FalsePositivesNotInvented`, `SummaryComes` | reports while everything moves, with failing readings, loads and exits |

Each property of a passing run has a mutant: an operator defined before a mapped
definition (its comment says "Mutant of") that changes it as a plausible bug would, and
for which TLC finds the property violated.

Three runs show where the code does something else than its documentation says.
`PROJECT.json` quotes the lines under "findings":

| Run | Violated | Because |
|---|---|---|
| `driver_basic` | `JoinsStartedThreads` | the default DB starts no statistics threads, and main joins them |
| `client_record_count` | `RecordCountLoaded` | the remainder of recordcount / threadcount is not loaded |
| `hashtable_shared` | `ReadsLiveMemory` | an update frees the string that a read in another thread is about to copy |

Other places where the models follow code that a reader might not expect:

* after a load main waits for ever (`WaitCompaction`), although run_rocksdb_cloud.sh goes on after it;
* `Update` of the RocksDB classes replaces the record by the fields given (`BlobWrite`), and
  their `Read` and `Scan` ignore the field list;
* a read of the RocksDB classes that misses counts it and answers kOK (`RecordStore!BlobRead`), where
  core/db.h:46 asks for an error code, so the operations main reports include such reads;
* two updates of one missing key leave a field table, and of one missing field a string, that
  nobody will free (`OneOwner` asks for exactly one owner only where a key has one writer);
* a lost increment of a histogram's count with none lost of its total leaves the two apart
  (`SequentialExact` needs a worker that is alone);
* `scanlengthdistribution=zipfian` fails an assertion for every maximum (`ScanLenOK`);
* a property file that cannot be opened ends in std::terminate, because the handler catches
  another type (`FileNotOpen`);
* a failed reading of `/proc/diskstats` counts as zero sectors (`NeverOverReported`
  allows for the counter once per failure), and a failed second reading of `/proc/net/dev` ends the process (`InterfaceLost`);
* the skewed latest generator never draws key 0 (`KeySpace`).

### Bounds

* `MaxThreads = 2`: two workers are enough for every pairwise race, and worker 0 (which
  prints the hiccup line) differs from worker 1. One-threaded command lines are included.
* `RecordCount = 3` is the smallest the zipfian generators accept, and with two threads it
  leaves a remainder. `OperationCount` is 2 or 4: one or two operations per worker.
* `MaxLives` is 2 in `driver` (fresh globals after each kind of end), 3 in `client_script`
  (load, run, run or a load repeated after a crash), 1 where only one process matters.
* `UniformInsertStart = 10` stands for 1000000, above all records. `MCHash` is
  injective on the keys used and keeps them apart from the insert counter.
* `OpsPerThread = 2`, one operation kind and one bucket in `measurements`: workers race on
  every cell, and the second operation of one races with the hiccup line of the other.
* `hashtable`: four calls on two keys and two fields. Five workloads: two clients with a key
  each in the same tables, a client reading what another inserts, one reading what another
  updates, two writing one key, one client with all operations. `hashtable_shared` takes the
  third of them, with one key and three calls: insert, update, read. A value list of two fields meets a record that has one of them, so that an
  insert fails half way; freed addresses recur.
* `rocks_store`: bits for bytes and lengths of two of them, so that a value can have the
  largest length there is; no pair, one and two; three calls and two processes.
* `generators`: one transaction per worker (up to four draws), all five operations, three
  combinations of distributions that contain each request and each field length
  distribution. `Grain = 8` is not a multiple of the sum of the weights, so
  rounding moves the borders between operations and the last numbers reach `assert(false)`. `MCHash` sends
  some draws beyond the records.
* `startup`: eight tokens in lists of up to four; files with comments, blanks, lines without
  "=", missing counts, each distribution and too few items for it.
* `status`: two intervals, two lookups, one failed reading; counters of `/proc` that were not
  zero when the process started; processes that load and processes that do not.
* `Garbage = {3}` is one value the uninitialised `qps` may hold.

### Fairness

Weak fairness of main, of each worker and of each statistics thread: the operating system
schedules every runnable thread, and the sleeps of the statistics threads end. Nothing is
assumed of signals, failures or the script. In Client fairness is of a worker's next
step, so it also says that a random draw hits an existing key eventually (a key that
exists has positive probability). Main's wait after a load is a stuttering step, which
fairness does not make progress from: `EndsUnlessLoading` excludes it.

In `Generators` each worker is weakly fair, and strongly fair for `Lock` (a mutex that is
released again and again is had at some time; the C++ standard leaves this to the
implementation, and the futex-based mutexes of the platform give it with probability one)
and for `KeyAccepted` (random draws). In `Status` the thread and the rest of the process
(workers, then main) are weakly fair; nothing is assumed of other programs, of failures or of
a worker's exit(0). Main's wait after a load is a stuttering step there too, and
`SummaryComes` speaks of processes without a load.

## 4. Proofs

TLAPS checks every theorem to its leaves. The constants are arbitrary but for these named
assumptions, which TLC evaluates on every run:

| Assumption | Says |
|---|---|
| `DriverAssumption` | natural numbers, at least one thread and one process |
| `ClientAssumption` | known names of distributions; at least three records, which the zipfian generators assert |
| `MeasurementsAssumption` | known operations; natural latencies, buckets and lengths |
| `GeneratorsAssumption` | an operation at least, each with a positive weight; a hash is a natural number |
| `StartupAssumption` | arguments and files are sequences of words; `name` and `means` of a line are its parts, stripped |
| `StatusAssumption` | finitely many tickers; an integer is wide enough for the number of lookups |
| `RocksAssumption` | finitely many clients; a base of two at least; field names, values and vectors short enough for a length field |
| `HashtableAssumption` | finitely many keys; no field twice in a list; who deletes a key has it for himself; freed memory is marked by a `Garbage` that is no value |

In every module the properties are not inductive by themselves. What follows says what had
to be added.

**DriverProofs.** `TypeCorrect`, `NoUseAfterFree`, `ReportedSumCorrect`,
`FinishLineCorrect`, `CleanExit`. The
invariant is `DriverInv`: `Stages` says for each place of main what is alive, what is
joined and where the workers can be (this is what makes deleting the DB safe);
`Exact` that each worker has counted one per operation and that main's sum is a share per
joined future (so that the final sum is threads times the share, from which
`Remainder` derives how much is missing); `FinishLine` how far printRocksDBStats is with
`finish`; `Exits` that whoever calls exit finds the statistics threads started. Lemma
`Steps` sorts the actions by what they change.

**ClientProofs.** `ClientImplementsDriver` is the step simulation: inside an operation
Driver's state does not change, and its last step is `WorkerOp`. So every invariant of
Driver holds of Client. `ClientTypeCorrect`. `NoKeyIsLost` needs `OpAt` (operations are
under way only in workers inside their loop, hence none between phases) and `LoadOps`
(a load only runs DoInsert, hence the name written is that of the key handed out).

* `CompletedLoadIsDurable` is a counting argument. `StartedOps` is the set of pairs of a worker
  and an index it has begun; in a load as many keys were handed out as it has elements
  (`OneKeyPerOp`), so the sum that main reports is the number of keys, each of which is in
  the DB by `NoKeyLost`, whatever later processes do.
* `NotFoundIsBounded`: `MissesCounted` bounds `noResult`, and what a worker has loaded of it, by
  `misses` less the workers that found nothing and have not counted it (`Missers`), and says that
  as soon as there was a miss, one is counted or about to be: a race loses some but not all.
* `LoadedIsNeverMissed` follows from durability and from `ReadOps` (only reads read).
* `InsertsCreate` has a hypothesis, `NamesApart`: no key of a load or of another transaction has a
  name that the insert counter hands out. Ordered keys satisfy it when insertstart +
  recordcount is at most 1000000, hashed ones when no hash falls on those names. The code
  checks neither, and without it the property is false. The invariant, for the first process
  of a script: a name handed out belongs to one worker that has not written it, or is in
  the DB (`NamesInv`), and the counter is ahead by at most the started operations
  (`CounterInv`).

**MeasurementsProofs.** `MeasurementsTypeCorrect`, `RacesOnlyLose`, `RacesNeverLoseAll`,
`IopsBounded`. The invariant adds `Shape` (a worker's list is bookkeeping, or worker 0's
hiccup line, which touches only `hdr_last_1s_`, prints first and clears `qps` last),
`Registers` (a loaded value is at most what was added to its cell: a stale store cannot
exceed it either) and `Iops` (while the line is printed and `qps` not yet cleared, `qps` does
not count; else it may still be printed).
`AloneIsExact` says where worker 0 is in its list (`Phase`): `Resting`, when every histogram agrees
with its total; `Working`, n accesses into the bookkeeping of an operation, when counts are ahead of
totals by `Due` and `ops_cnt` ahead of the histogram by `Owed`; `Lining`, n accesses into the hiccup
line, when each cell of `hdr_last_1s_` is zero or still to be cleared (`Clearing`). A count is a sum
over the buckets: `SumsExist` and `SumGrows` say what one store does to it.

**StatusProofs.** `StatusTypeCorrect`, `DeltasAddUp`, `TrafficNotInvented`, `BloomLineBounded`.
`StatusInv` adds what the thread's locals hold between two readings: a ticker read lies
between its snapshot and the ticker (`TickersRead`); what was printed of network and disk ends
before the open reading (`NetOpen`, `DiskOpen`); between the two bloom tickers true positives can only
come in (`BloomOpen`); no ticker exceeds the lookups (`Counting`), so a difference modulo `Width` is
the difference. `SummaryIsFinal`, which no run states, is the safety half of `SummaryComes`:
the tickers in the summary do not move any more, and there is none in a process that loads. With
`failures` readings of the disk gone wrong its sum is off by at most `failures * disk`, which grows with
the counter: `OneFailureMore`, `DiskOpens` and `DiskCloses` are that arithmetic.

**GeneratorsProofs.** `GeneratorsTypeCorrect`, `DrawsAreOnce`, `ChoosesByWeight`,
`DrawnKeysExist`. `HoldsMutex` (from lock to unlock a worker holds the mutex of the generator it is in)
makes the reading and the writing of an engine that one generator has to itself exclusive; the engine of
`RandomDouble` has no such protection where two generators call it, and the theorem does not claim it.
`ChoosesByWeight` relates the loop of subtractions to the proportions the weights stand for, for every
list of weights and every grain: each share is within half a grain of weight / sum (`ShareRounds`), so
after i subtractions the chooser is u less the first i weights, to within i half grains
(`Subtracted`, an induction over the loop); where it stops u is in the band of that value
(`StopsInBand`), and where it does not stop u is at the top (`PassesAtTop`). `OwnBand` keeps this for the
rest of the transaction, whatever other workers make of `last_`.

**StartupProofs.** `OnlyWellFormedOpens`: `Parsed` (the pairs before `argindex` are good, and it is
odd) and `Refused` (who ended while parsing had a reason to, and
`terminate` is the end of those for whom a missing file came first: `BadPlace`, `MissingPlace`).
`LastAssignmentCounts`: `Reading` says that at every option, and at every line of a file, the
properties are the `Results` of the assignments that come before it; `TrimStrips` is the correctness of `Trim` for every text.
`OnlyCountStopsRun`: `LoadChecked`.

**RocksStoreProofs.** `RoundTrip`: for every base, width and vector of pairs that fits its length
fields, `DeSerializeValues` of `SerializeValues` is the vector, and ends at the last byte. Integers first
(a number below the weight of w digits is the sum of its digits), then the strings, then the
loop over pairs, with the bytes written so far as a prefix. `RocksTypeCorrect` and `StoreDecodes` follow
from `RocksInv`: what is stored is the encoding of what was put (`StoreInv`), and `noResult` leaves
room for the calls under way (`CountInv`). `RocksImplementsBlobs` is the step simulation, safety in
full: `BlobSpec` states no fairness.

**HashtableDBProofs.** `HashtableTypeCorrect`, `PointersStayLive`, `EverythingHasOneOwner`, for any clients that
share keys in reads, scans, inserts and updates. `HashtableInv` is an ownership discipline: a field table is
under at most one key or with the one client that deletes it (`TablesInv`, `Drops`), a string is in at most
one field of one table or with the one client that frees it (`StringsInv`, `Frees`); a table being
filled may be under no key at all, or under that of the client's call, and nobody deletes it
(`Filling`). Since
only `Delete` frees tables, the tables a client goes on with stay live; since only the client that replaced
a string frees it, nothing is freed twice. What a reader is about to copy is live only if no other
client may update the record (`Copies`, `Overwritten`): the run `hashtable_shared` shows that this
exception is needed. That *nothing is lost* is the part under `OneWriter`: then what a writer found missing is
still missing when it inserts (`Missing`), so no insert comes second.

**Induction over data.** The library's induction theorems take operators as parameters and
cannot be used. What is needed of it is proved about *sets* of natural numbers
(`LeastNat`, `SetInduction`, from the well-foundedness of the naturals), and that recursive functions exist
(`RecursionExists`) from it. The lemmas stand in `MeasurementsProofs` and `RocksStoreProofs`; this is also why
`Recorded` and `Weight` are recursive functions.

## 5. Only model-checked

* Liveness: `EndsUnlessLoading`, `FinishAnnounced`, `DrawsEnd`, `SummaryComes`, and the fairness part of
  the refinement of Driver by Client (`FairSpec`). The prover does not handle fairness or ENABLED.
* `ReadBetween` and `ImplementsContract` of `HashtableDB`: section 7.
* The three violated properties: their runs show a counterexample.

## 6. Abstractions to know of

* One operation of Driver is one step; Client justifies it.
* A call through an uninitialised DB pointer either faults (`WildCall`) or does nothing.
* `tiktoks`, `iops` and the `_snap` variables are computed and written to logs only; the
  argument `iops` of latency_hiccup is not used by it. They are left out.
* Minimum and maximum of a histogram are left out: no printed figure uses them.
* Data races are modelled as separate loads and stores in program order, which is what
  the compiled increments do; other reorderings of plain memory by the compiler are not.
* A failed Put leaves the records as they were.
* Counters have no width: no run of the benchmark gets near 2^63.
* Two RocksDB classes with the same operations: `Client` and `Measurements` follow
  rocksdb_cloud_db.cc, `RocksStore` rocksdb_db.cc; their encodings are the same text.
* `RecordStore!Scan` returns any records in any order: core/db.h says no more, and the
  hashtable has no order.
* In `Generators` a transaction reads and writes one field (`readallfields` and
  `writeallfields` false), which draws most.
* In `Status` one interface and one direction stand for both, one unit for bytes and sectors.

## 7. Plan

Done: the process, the operations, the measurements, the generators, the databases
against their contracts, the encoding, the start and the statistics thread, modelled and
checked; every invariant of a passing run, and four of the action properties and refinements
(`InsertCreates`, `LoadedNeverMissed`, `ImplementsBlobs` and, without its fairness, `FairSpec`)
proved. Next, in this order:

1. `ReadBetween`: an invariant on `was`, `row` and `rows` of a read while another client inserts
   (each row lies between what was there at the call and what is there now).
2. The step simulation of `HashtableDB` by `RecordStore!Spec`, with `Settled`; it rests on
   `HashtableInv` and on the same invariant on rows.
3. `Hdr`: the index arithmetic of the histogram (bucket, sub-bucket, equivalent range)
   and the percentile search, as functions checked against their definition.

## 8. Not modelled

* `SetOptions` of both RocksDB classes and the cloud options: constants handed to the library.
* `RocksDB::PrintStats`, `RocksDB::RecordTime` and `latency_hiccup` of the class that is not built
  (those of `RocksDBCloud` are in Driver and Measurements).
* `RocksDBCloud::Delete` beyond its contract (`BlobDelete`): no operation calls it.
* `lib/string.h`, `lib/mem_alloc.h`: no code of the program includes them; `calculateBandwidth` of perf_disk_net_bw.h is
  never called. `core/timer.h`: readings of the clock.
* The parsing of `/proc` line by line, the floating-point arithmetic of the distributions,
  the characters of values and the text of the reports.
* Vendored HdrHistogram beyond recording and resetting; scripts that parse logs.
