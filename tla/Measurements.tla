---------------------------- MODULE Measurements ----------------------------
(***************************************************************************)
(* What the workers of a run measure, and how they share it: the global    *)
(* arrays ops_time and ops_cnt, the histograms of RocksDBCloud and its     *)
(* query counter qps, and the line latency_hiccup prints and resets every  *)
(* second.  All but qps are plain memory that every worker updates without *)
(* a lock, so an update is a load and a store of its own here; only qps is *)
(* atomic.                                                                 *)
(*                                                                         *)
(* A worker runs a list of instructions, the memory accesses of            *)
(* Client::DoTransaction after the operation itself, of RecordTime and of  *)
(* latency_hiccup in the order of the code.                                *)
(***************************************************************************)
EXTENDS Integers, Sequences

CONSTANTS
  NumThreads,    \* threadcount
  OpsPerThread,  \* operationcount / threadcount
  Kinds,         \* the operations with a proportion above zero
  Latencies,     \* the latencies an operation can take
  CountsLen,     \* counts_len: the buckets of a histogram
  Bucket(_),     \* counts_index_for: the bucket of a latency
  Garbage        \* what the uninitialised qps may hold at first

ASSUME MeasurementsAssumption ==
  /\ NumThreads \in Nat \ {0}
  /\ OpsPerThread \in Nat
  /\ Kinds \subseteq {"INSERT", "READ", "UPDATE", "SCAN", "READMODIFYWRITE"}
  /\ Latencies \subseteq Nat
  /\ CountsLen \in Nat
  /\ \A t \in Latencies : Bucket(t) \in Nat
  /\ Garbage \subseteq Nat

Workers == 0..(NumThreads - 1)

\* hdr_, hdr_last_1s_, and for each operation its own (hdr_get_, hdr_put_...).
Hists   == {"hdr_", "hdr_last_1s_"} \cup Kinds
Buckets == 0..(CountsLen - 1)

\* A histogram is its counts and their total; a cell is one shared integer.
TimeCells  == {"ops_time"} \X Kinds \X {0}
CountCells == {"ops_cnt"} \X Kinds \X {0}
HistCells  == ({"total"} \X Hists \X {0}) \cup ({"counts"} \X Hists \X Buckets)
Cells      == TimeCells \cup CountCells \cup HistCells

\* The cells that are reset in the middle of a run.
ResetCells == {c \in HistCells : c[2] = "hdr_last_1s_"}

VARIABLES
  mem,       \* the shared integers
  qps,       \* RocksDBCloud::qps
  left,      \* the operations each worker still has to execute
  prog,      \* the instructions each worker has still to do for this one
  half,      \* whether a worker has loaded the cell of its first instruction
  reg,       \* ...and what it loaded
  issued,    \* history: what each cell's updates add up to
  counted,   \* history: qps at first, and every increment of it
  reported   \* history: the sum of the IOPS column

vars == <<mem, qps, left, prog, half, reg, issued, counted, reported>>

-----------------------------------------------------------------------------
(* The instructions *)

Add(cell, n)  == [do |-> "add", cell |-> cell, arg |-> n]
Set(cell, n)  == [do |-> "set", cell |-> cell, arg |-> n]
Qps(what)     == [do |-> what, cell |-> <<"qps">>, arg |-> 0]

\* hdr_record_value: a latency out of range is dropped.
Record(h, t) ==
  IF Bucket(t) < CountsLen
  THEN <<Add(<<"counts", h, Bucket(t)>>, 1), Add(<<"total", h, 0>>, 1)>>
  ELSE << >>

\* RecordTime, with the operation's own histogram.
RecordTime(o, t) ==
  <<Qps("inc")>> \o Record("hdr_", t) \o Record("hdr_last_1s_", t) \o Record(o, t)

\* DoTransaction's bookkeeping after an operation o that took t.
Account(o, t) ==
  <<Add(<<"ops_time", o, 0>>, t), Add(<<"ops_cnt", o, 0>>, 1)>> \o RecordTime(o, t)

\* Mutant of Reset: the memset of the counts is missing.
ResetTotalOnly(h) == <<Set(<<"total", h, 0>>, 0)>>

\* hdr_reset: the total, and then the counts.
Reset(h) ==
  <<Set(<<"total", h, 0>>, 0)>> \o
  [j \in 1..CountsLen |-> Set(<<"counts", h, j - 1>>, 0)]

\* Mutants of Hiccup: the wrong histogram is reset; qps is not.
HiccupWrongHist == <<Qps("print")>> \o Reset("hdr_") \o <<Qps("zero")>>
HiccupKeepsQps  == <<Qps("print")>> \o Reset("hdr_last_1s_")

\* latency_hiccup: print the line, reset the histogram, reset qps.
Hiccup == <<Qps("print")>> \o Reset("hdr_last_1s_") \o <<Qps("zero")>>

-----------------------------------------------------------------------------

\* Mutant of Init: the histograms' memory is not cleared.
InitUncleared ==
  /\ mem \in [Cells -> {0, 1}]
  /\ \A c \in TimeCells \cup CountCells : mem[c] = 0
  /\ qps \in Garbage
  /\ left = [k \in Workers |-> OpsPerThread]
  /\ prog = [k \in Workers |-> << >>]
  /\ half = [k \in Workers |-> "load"]
  /\ reg = [k \in Workers |-> 0]
  /\ issued = [c \in Cells |-> 0]
  /\ counted = qps
  /\ reported = 0

\* The static arrays and hdr_init's calloc are zero; qps has no initialiser.
Init ==
  /\ mem = [c \in Cells |-> 0]
  /\ qps \in Garbage
  /\ left = [k \in Workers |-> OpsPerThread]
  /\ prog = [k \in Workers |-> << >>]
  /\ half = [k \in Workers |-> "load"]
  /\ reg = [k \in Workers |-> 0]
  /\ issued = [c \in Cells |-> 0]
  /\ counted = qps
  /\ reported = 0


\* Mutant of Execute: i <= num_ops.
ExecuteOneTooMany(k) ==
  /\ prog[k] = << >> /\ left[k] >= 0
  /\ left' = [left EXCEPT ![k] = @ - 1]
  /\ \E o \in Kinds, t \in Latencies : prog' = [prog EXCEPT ![k] = Account(o, t)]
  /\ UNCHANGED <<mem, qps, half, reg, issued, counted, reported>>

\* The next operation, executed in time t: what remains is its bookkeeping.
Execute(k) ==
  /\ prog[k] = << >> /\ left[k] > 0
  /\ left' = [left EXCEPT ![k] = @ - 1]
  /\ \E o \in Kinds, t \in Latencies : prog' = [prog EXCEPT ![k] = Account(o, t)]
  /\ UNCHANGED <<mem, qps, half, reg, issued, counted, reported>>

\* Worker k's next instruction is one of these.
Doing(k, what) == prog[k] # << >> /\ Head(prog[k]).do = what

\* The instruction is over.  After the last one of an operation's bookkeeping
\* worker 0 looks at the clock, and if a second has passed goes on with the
\* hiccup line; the line itself is not followed by another one.
Step(k) ==
  \/ prog' = [prog EXCEPT ![k] = Tail(@)]
  \/ /\ k = 0 /\ Len(prog[k]) = 1 /\ Head(prog[k]).do # "zero"
     /\ prog' = [prog EXCEPT ![k] = Hiccup]

\* x += n on plain memory: the load...
Load(k) ==
  /\ Doing(k, "add") /\ half[k] = "load"
  /\ reg' = [reg EXCEPT ![k] = mem[Head(prog[k]).cell]]
  /\ half' = [half EXCEPT ![k] = "store"]
  /\ UNCHANGED <<mem, qps, left, prog, issued, counted, reported>>

\* ...and the store.
Store(k) ==
  /\ Doing(k, "add") /\ half[k] = "store"
  /\ LET i == Head(prog[k]) IN
       /\ mem' = [mem EXCEPT ![i.cell] = reg[k] + i.arg]
       /\ issued' = [issued EXCEPT ![i.cell] = @ + i.arg]
  /\ half' = [half EXCEPT ![k] = "load"]
  /\ reg' = [reg EXCEPT ![k] = 0]
  /\ Step(k)
  /\ UNCHANGED <<qps, left, counted, reported>>

\* x = n
Assign(k) ==
  /\ Doing(k, "set")
  /\ mem' = [mem EXCEPT ![Head(prog[k]).cell] = Head(prog[k]).arg]
  /\ Step(k)
  /\ UNCHANGED <<qps, left, half, reg, issued, counted, reported>>

\* qps++, atomic
Increment(k) ==
  /\ Doing(k, "inc")
  /\ qps' = qps + 1
  /\ counted' = counted + 1
  /\ Step(k)
  /\ UNCHANGED <<mem, left, half, reg, issued, reported>>

\* The IOPS column: qps.load()
PrintLine(k) ==
  /\ Doing(k, "print")
  /\ reported' = reported + qps
  /\ Step(k)
  /\ UNCHANGED <<mem, qps, left, half, reg, issued, counted>>

\* qps.store(0)
Zero(k) ==
  /\ Doing(k, "zero")
  /\ qps' = 0
  /\ Step(k)
  /\ UNCHANGED <<mem, left, half, reg, issued, counted, reported>>

WorkerNext(k) ==
  Execute(k) \/ Load(k) \/ Store(k) \/ Assign(k) \/ Increment(k) \/ PrintLine(k) \/ Zero(k)

\* Every worker has returned: main prints what there is.
AllDone == \A k \in Workers : prog[k] = << >> /\ left[k] = 0

Next == (\E k \in Workers : WorkerNext(k)) \/ (AllDone /\ UNCHANGED vars)

Spec == Init /\ [][Next]_vars

-----------------------------------------------------------------------------
(* Properties *)

Adds  == [do : {"add"}, cell : TimeCells, arg : Nat]
           \cup [do : {"add"}, cell : CountCells \cup HistCells, arg : {1}]
Sets  == [do : {"set"}, cell : HistCells, arg : {0}]
Instr == Adds \cup Sets \cup [do : {"inc", "print", "zero"}, cell : {<<"qps">>}, arg : {0}]

MeasurementsTypeOK ==
  /\ mem \in [Cells -> Nat]
  /\ qps \in Nat
  /\ left \in [Workers -> 0..OpsPerThread]
  /\ prog \in [Workers -> Seq(Instr)]
  /\ half \in [Workers -> {"load", "store"}]
  /\ reg \in [Workers -> Nat]
  /\ issued \in [Cells -> Nat]
  /\ counted \in Nat
  /\ reported \in Nat

(***************************************************************************)
(* No counter, total or time the program prints is larger than what the    *)
(* operations add up to: racing updates, and the reset racing with them,   *)
(* can lose increments but never invent any.                               *)
(***************************************************************************)
NeverOvercounts == \A c \in Cells : mem[c] <= issued[c]

\* The counts that are never reset.
Lasting == (CountCells \cup HistCells) \ ResetCells

(***************************************************************************)
(* main prints the result line of an operation only if its count is not    *)
(* zero: an operation that was executed has its line, however many of its  *)
(* increments were lost, and so has its histogram a non-zero total.        *)
(***************************************************************************)
ExecutedIsReported ==
  \A c \in Lasting : issued[c] > 0 => mem[c] > 0

(***************************************************************************)
(* The IOPS column of the hiccup file never adds up to more than the       *)
(* operations executed (and the garbage qps starts with): an operation     *)
(* finished between printing the line and clearing qps is lost, none is    *)
(* printed twice.                                                          *)
(***************************************************************************)
IopsNeverOverReported == reported <= counted

\* The sum of the counts of histogram h.
Recorded(m, h) ==
  LET sum[n \in 0..CountsLen] == IF n = 0 THEN 0 ELSE sum[n - 1] + m[<<"counts", h, n - 1>>]
  IN sum[CountsLen]
RecordedIn(h) == Recorded(mem, h)

(***************************************************************************)
(* As long as worker 0 is alone the measurements are exact: nothing is     *)
(* lost, and every histogram's total is the sum of its counts after each   *)
(* operation, the one that is reset every second included.                 *)
(***************************************************************************)
SequentialExact ==
  (prog[0] = << >> /\ \A k \in Workers \ {0} : left[k] = OpsPerThread) =>
     /\ \A c \in Cells \ ResetCells : mem[c] = issued[c]
     /\ \A h \in Hists : RecordedIn(h) = mem[<<"total", h, 0>>]
     /\ \A h \in Kinds : RecordedIn(h) <= mem[<<"ops_cnt", h, 0>>]
=============================================================================
