------------------------------- MODULE Status -------------------------------
(***************************************************************************)
(* print_my_status, the thread of RocksDBCloud that reports once a second  *)
(* while the workers run: the bytes of the network interface and the       *)
(* sectors of the disk as differences of two readings of /proc, RocksDB's  *)
(* tickers as differences from the last values it took, the bloom filter's *)
(* false positives as a difference of two tickers, and the summary when    *)
(* main has set done.  The workers, the disk and the network move between  *)
(* any two of its readings, and a reading of /proc can fail.               *)
(***************************************************************************)
EXTENDS Integers, FiniteSets

CONSTANTS
  Tickers,       \* the tickers reported as deltas (BYTES_READ, ...)
  Width,         \* uint64_t is 0..Width - 1
  NumLookups,    \* the lookups of the workers
  NumTransfers,  \* bound: the blocks the machine sends and writes
  AtBoot,        \* what the counters of /proc are when the process starts
  MaxFailures,   \* bound: how many readings of /proc fail
  MaxIntervals   \* bound: the intervals before main sets done

ASSUME StatusAssumption ==
  /\ IsFiniteSet(Tickers)
  /\ NumLookups \in Nat /\ NumTransfers \in Nat /\ AtBoot \in Nat
  /\ MaxFailures \in Nat /\ MaxIntervals \in Nat
  /\ Width \in Nat /\ Width > NumLookups

VARIABLES
  ticker,      \* statistics->getTickerCount, by ticker
  positive,    \* BLOOM_FILTER_FULL_POSITIVE
  truePos,     \* BLOOM_FILTER_FULL_TRUE_POSITIVE
  looking,     \* a lookup has counted its positive and not yet what it was
  lookups,     \* lookups the workers have still to make
  net, disk,   \* the counters of /proc/net/dev and /proc/diskstats
  load,        \* whether this process loads
  done,        \* ycsbc::done
  failures,    \* readings of /proc that failed
  pc,          \* where the thread is
  aborted,     \* std::out_of_range left the thread: std::terminate
  exited,      \* a worker called exit(0)
  total_time,
  net1, disk1, net2,   \* net_stats1, disk_stats1, net_stats2; NotRead outside
                       \* their scope
  value,       \* the tickers read in this interval, likewise
  snap,        \* user_read_bytes_snap and the other *_snap
  pos1,        \* the local positive
  shown,       \* all that was printed: the sum of the deltas, by ticker
  netShown, diskShown,
  false_positive,  \* the last one printed
  fpAtRead,    \* (history) positive - true_positive when positive was read
  summary      \* the tickers of the summary

world   == <<ticker, positive, truePos, looking, lookups, net, disk>>
reports == <<shown, netShown, diskShown, false_positive, fpAtRead, summary>>
locals  == <<net1, disk1, net2, value, snap, pos1, total_time>>
proc    == <<load, aborted, exited>>
vars    == <<world, done, failures, pc, proc, locals, reports>>

NotRead == -1
Missing == -2    \* no such interface in the map getNetStats returned
NoSummary == [t \in Tickers |-> NotRead]

StatusTypeOK ==
  /\ ticker \in [Tickers -> 0..NumLookups]
  /\ positive \in 0..NumLookups
  /\ truePos \in 0..positive
  /\ looking \in BOOLEAN
  /\ lookups \in 0..NumLookups
  /\ net \in AtBoot..(AtBoot + NumTransfers)
  /\ disk \in AtBoot..(AtBoot + NumTransfers)
  /\ done \in BOOLEAN /\ load \in BOOLEAN /\ aborted \in BOOLEAN /\ exited \in BOOLEAN
  /\ failures \in 0..MaxFailures
  /\ pc \in {"open", "net1", "disk1", "sleep", "net2", "disk2", "tickers", "deltas",
             "bloom", "bloom2", "summary", "ended"}
  /\ total_time \in 0..(MaxIntervals + 1)
  /\ net1 \in Int /\ disk1 \in Int /\ net2 \in Int
  /\ value \in [Tickers -> NotRead..NumLookups]
  /\ snap \in [Tickers -> 0..NumLookups]
  /\ pos1 \in 0..NumLookups
  /\ shown \in [Tickers -> 0..(Width - 1)]
  /\ netShown \in Int /\ diskShown \in Int
  /\ false_positive \in 0..(Width - 1)
  /\ fpAtRead \in 0..NumLookups
  /\ summary \in [Tickers -> NotRead..NumLookups]

Init ==
  /\ ticker = [t \in Tickers |-> 0]
  /\ positive = 0 /\ truePos = 0 /\ looking = FALSE
  /\ lookups = NumLookups
  /\ net = AtBoot /\ disk = AtBoot
  /\ load \in BOOLEAN
  /\ done = FALSE /\ failures = 0 /\ aborted = FALSE /\ exited = FALSE
  /\ pc = "open"
  /\ total_time = 0
  /\ net1 = NotRead /\ disk1 = NotRead /\ net2 = NotRead
  /\ value = NoSummary
  /\ snap = [t \in Tickers |-> 0]
  /\ pos1 = 0
  /\ shown = [t \in Tickers |-> 0]
  /\ netShown = 0 /\ diskShown = 0
  /\ false_positive = 0 /\ fpAtRead = 0
  /\ summary = NoSummary

-----------------------------------------------------------------------------
(* The rest of the process and of the machine *)

Alive == ~aborted /\ ~exited

\* A Get passes a filter that says yes; its tickers are counted...
Lookup ==
  /\ Alive /\ lookups > 0 /\ ~looking
  /\ lookups' = lookups - 1
  /\ \E t \in Tickers : ticker' = [ticker EXCEPT ![t] = @ + 1]
  /\ positive' = positive + 1
  /\ looking' = TRUE
  /\ UNCHANGED <<truePos, net, disk, done, failures, pc, proc, locals, reports>>

\* ...and then whether the key was there.
LookupEnds ==
  /\ Alive /\ looking
  /\ truePos' \in {truePos, truePos + 1}
  /\ looking' = FALSE
  /\ UNCHANGED <<ticker, positive, lookups, net, disk, done, failures, pc, proc,
                 locals, reports>>

Transfer ==
  /\ Alive
  /\ net < AtBoot + NumTransfers
  /\ net' = net + 1
  /\ disk' = disk + 1
  /\ UNCHANGED <<ticker, positive, truePos, looking, lookups, done, failures, pc,
                 proc, locals, reports>>

\* An operation fails: its worker calls exit(0), which ends the process.
WorkerExits ==
  /\ Alive /\ (lookups > 0 \/ looking)
  /\ exited' = TRUE
  /\ UNCHANGED <<world, done, failures, pc, load, aborted, locals, reports>>

\* The workers are joined and the statistics printed.
WorkDone == Alive /\ lookups = 0 /\ ~looking

\* main: if (load) while (true) sleep(60)
WaitCompaction == WorkDone /\ load /\ UNCHANGED vars

\* main: ycsbc::done = true, when it does not wait.
SetDone ==
  /\ WorkDone /\ ~load /\ ~done
  /\ done' = TRUE
  /\ UNCHANGED <<world, failures, pc, proc, locals, reports>>

-----------------------------------------------------------------------------
(* The thread *)

At(label) == Alive /\ pc = label

\* The report file cannot be opened: the thread returns.
OpenFails ==
  /\ At("open")
  /\ pc' = "ended"
  /\ UNCHANGED <<world, done, failures, proc, locals, reports>>

Open ==
  /\ At("open")
  /\ pc' = "net1"
  /\ UNCHANGED <<world, done, failures, proc, locals, reports>>

(***************************************************************************)
(* What getNetStats says of the interface and get_disk_stats of the disk,  *)
(* when the file can be read and when it cannot: the map is empty then,    *)
(* and the sectors are 0.                                                  *)
(***************************************************************************)
Reading(counter, otherwise, v) ==
  \/ v = counter /\ UNCHANGED failures
  \/ failures < MaxFailures /\ v = otherwise /\ failures' = failures + 1

getNetStats(v)    == Reading(net, Missing, v)
get_disk_stats(v) == Reading(disk, 0, v)

ReadNet1 ==
  /\ At("net1")
  /\ \E v \in {net, Missing} : getNetStats(v) /\ net1' = v
  /\ pc' = "disk1"
  /\ UNCHANGED <<world, done, proc, disk1, net2, value, snap, pos1, total_time, reports>>

ReadDisk1 ==
  /\ At("disk1")
  /\ \E v \in {disk, 0} : get_disk_stats(v) /\ disk1' = v
  /\ pc' = "sleep"
  /\ UNCHANGED <<world, done, proc, net1, net2, value, snap, pos1, total_time, reports>>

\* Mutant of Sleep: if (done) does not break.
SleepIgnoresDone ==
  /\ At("sleep")
  /\ total_time < MaxIntervals \/ done
  /\ total_time' = total_time + 1
  /\ pc' = "net2"
  /\ UNCHANGED <<world, done, failures, proc, net1, disk1, net2, value, snap, pos1, reports>>

\* Mutant of Sleep: the thread returns without print_summary.
SleepReturns ==
  /\ At("sleep")
  /\ total_time < MaxIntervals \/ done
  /\ total_time' = total_time + 1
  /\ pc' = IF done THEN "ended" ELSE "net2"
  /\ UNCHANGED <<world, done, failures, proc, net1, disk1, net2, value, snap, pos1, reports>>

\* The sleep, total_time, and if (done).
Sleep ==
  /\ At("sleep")
  /\ total_time < MaxIntervals \/ done
  /\ total_time' = total_time + 1
  /\ pc' = IF done THEN "summary" ELSE "net2"
  /\ UNCHANGED <<world, done, failures, proc, net1, disk1, net2, value, snap, pos1, reports>>

\* net_stats2 (what follows only looks at interfaces of net_stats1).
ReadNet2 ==
  /\ At("net2")
  /\ \E v \in {net, Missing} : getNetStats(v) /\ net2' = v
  /\ pc' = "disk2"
  /\ UNCHANGED <<world, done, proc, net1, disk1, value, snap, pos1, total_time, reports>>

\* Mutant of NetDiff: the counter itself.
NetDiffTotal == IF net1 = Missing THEN 0 ELSE net2

\* rxDiff, for the interfaces of net_stats1.
NetDiff == IF net1 = Missing THEN 0 ELSE net2 - net1

\* disk_stats2, then the lines of the network and the disk.
PrintBandwidth ==
  /\ At("disk2")
  /\ ~(net1 # Missing /\ net2 = Missing)
  /\ \E v \in {disk, 0} :
       /\ get_disk_stats(v)
       /\ diskShown' = diskShown + (v - disk1)
  /\ netShown' = netShown + NetDiff
  /\ net1' = NotRead /\ disk1' = NotRead /\ net2' = NotRead
  /\ pc' = "tickers"
  /\ UNCHANGED <<world, done, proc, value, snap, pos1, total_time, shown,
                 false_positive, fpAtRead, summary>>

\* net_stats2.at(iface) throws, and nothing in the thread catches it.
InterfaceLost ==
  /\ At("disk2")
  /\ net1 # Missing /\ net2 = Missing
  /\ aborted' = TRUE
  /\ UNCHANGED <<world, done, failures, pc, load, exited, locals, reports>>

\* getTickerCount, one ticker after the other (in any order).
ReadTicker(t) ==
  /\ At("tickers") /\ value[t] = NotRead
  /\ value' = [value EXCEPT ![t] = ticker[t]]
  /\ pc' = IF \A s \in Tickers \ {t} : value[s] # NotRead THEN "deltas" ELSE "tickers"
  /\ UNCHANGED <<world, done, failures, proc, net1, disk1, net2, snap, pos1,
                 total_time, reports>>

\* Mutant of PrintDeltas: the snapshots are taken from the tickers anew.
PrintDeltasRereads ==
  /\ At("deltas")
  /\ shown' = [t \in Tickers |-> (shown[t] + (value[t] - snap[t])) % Width]
  /\ snap' = ticker
  /\ value' = NoSummary
  /\ pc' = "bloom"
  /\ UNCHANGED <<world, done, failures, proc, net1, disk1, net2, pos1,
                 total_time, netShown, diskShown, false_positive, fpAtRead, summary>>

\* The *_delta variables, their lines, and the snapshots for the next interval.
PrintDeltas ==
  /\ At("deltas")
  /\ shown' = [t \in Tickers |-> (shown[t] + (value[t] - snap[t])) % Width]
  /\ snap' = value
  /\ value' = NoSummary
  /\ pc' = "bloom"
  /\ UNCHANGED <<world, done, failures, proc, net1, disk1, net2, pos1,
                 total_time, netShown, diskShown, false_positive, fpAtRead, summary>>

\* positive = getTickerCount(BLOOM_FILTER_FULL_POSITIVE)
ReadPositive ==
  /\ At("bloom")
  /\ pos1' = positive
  /\ fpAtRead' = positive - truePos
  /\ pc' = "bloom2"
  /\ UNCHANGED <<world, done, failures, proc, net1, disk1, net2, value, snap,
                 total_time, shown, netShown, diskShown, false_positive, summary>>

\* Mutant of PrintBloom: positive is read again.
PrintBloomRereads ==
  /\ At("bloom2")
  /\ false_positive' = (positive - truePos) % Width
  /\ pos1' = 0
  /\ pc' = "net1"
  /\ UNCHANGED <<world, done, failures, proc, net1, disk1, net2, value, snap,
                 total_time, shown, netShown, diskShown,
                 fpAtRead, summary>>

\* true_positive, the subtraction of two uint64_t, its line, and the block
\* cache's and the blob lines; the end of the loop's body.
PrintBloom ==
  /\ At("bloom2")
  /\ false_positive' = (pos1 - truePos) % Width
  /\ pos1' = 0
  /\ pc' = "net1"
  /\ UNCHANGED <<world, done, failures, proc, net1, disk1, net2, value, snap,
                 total_time, shown, netShown, diskShown,
                 fpAtRead, summary>>

\* print_summary, and break.
PrintSummary(t) ==
  /\ At("summary") /\ summary[t] = NotRead
  /\ summary' = [summary EXCEPT ![t] = ticker[t]]
  /\ pc' = IF \A s \in Tickers \ {t} : summary[s] # NotRead THEN "ended" ELSE "summary"
  /\ UNCHANGED <<world, done, failures, proc, locals, shown, netShown, diskShown,
                 false_positive, fpAtRead>>

ThreadNext ==
  \/ Open \/ OpenFails
  \/ ReadNet1 \/ ReadDisk1 \/ Sleep \/ ReadNet2
  \/ PrintBandwidth \/ InterfaceLost
  \/ \E t \in Tickers : ReadTicker(t)
  \/ PrintDeltas \/ ReadPositive \/ PrintBloom
  \/ \E t \in Tickers : PrintSummary(t)

WorldNext == Lookup \/ LookupEnds \/ WaitCompaction \/ SetDone

Over == ~Alive \/ (done /\ pc = "ended")

Next == ThreadNext \/ WorldNext \/ WorkerExits \/ Transfer \/ (Over /\ UNCHANGED vars)

\* Threads that can run are scheduled; nothing makes other programs transfer or
\* a Get fail.  main's endless wait is a step that changes nothing.
Spec == Init /\ [][Next]_vars /\ WF_vars(ThreadNext) /\ WF_vars(WorldNext)
-----------------------------------------------------------------------------
(* Properties *)

(***************************************************************************)
(* No operation falls between two intervals and none is in two of them,    *)
(* although the workers count while the thread reads, prints and takes its *)
(* snapshots: the deltas printed so far add up to the snapshot, which is a *)
(* value the ticker has had.                                               *)
(***************************************************************************)
DeltasTelescope == \A t \in Tickers : shown[t] = snap[t] /\ snap[t] <= ticker[t]

(***************************************************************************)
(* The traffic reported is never more than there was: the two readings of  *)
(* an interval are its own, and what moves while the thread prints is left *)
(* out.  For the disk each reading that fails counts as 0 sectors, which   *)
(* makes the sum wrong by at most all that was written since the machine   *)
(* was started, in one direction or the other, and by no more later.       *)
(***************************************************************************)
NeverOverReported ==
  /\ netShown \in 0..(net - AtBoot)
  /\ diskShown >= -(failures * disk)
  /\ diskShown <= (disk - AtBoot) + failures * disk

(***************************************************************************)
(* The false positives printed are never more than there were when the     *)
(* positives were read, unless true positives counted between the two      *)
(* readings made the difference of the uint64_t wrap around.               *)
(***************************************************************************)
FalsePositivesNotInvented ==
  pc # "bloom2" => \/ false_positive <= fpAtRead
                   \/ false_positive >= Width - truePos

(***************************************************************************)
(* In a process that does not load, a thread that could open its file      *)
(* writes the summary in the end, and every operation of the workers is in *)
(* it, unless a failed reading of the network or a worker's exit(0) has    *)
(* ended the process.  After a load main waits for ever and there is none. *)
(***************************************************************************)
SummaryComes ==
  pc = "net1" /\ ~load ~> \/ aborted /\ failures > 0
                          \/ exited
                          \/ lookups = 0 /\ \A t \in Tickers : summary[t] = ticker[t]
=============================================================================
