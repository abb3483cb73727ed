---------------------------- MODULE StatusProofs ----------------------------
(***************************************************************************)
(* Proofs about Status, for every set of tickers, every width of their     *)
(* integers above the number of lookups, every number of lookups,          *)
(* transfers, failed readings and intervals.                               *)
(***************************************************************************)
EXTENDS Status, TLAPS

(***************************************************************************)
(* The inductive invariant: what bounds the tickers, what the locals of    *)
(* the thread hold while it is between two readings, and how the printed   *)
(* sums relate to the reading that is still open.                          *)
(***************************************************************************)

\* A lookup counts at most once in each ticker, and once as a positive.
Counting ==
  /\ positive + lookups = NumLookups
  /\ \A t \in Tickers : ticker[t] <= positive
  /\ looking => truePos < positive
  /\ net = disk

\* The loop is left at the first wake-up that finds done set.
Intervals == pc \in {"summary", "ended"} \/ total_time <= MaxIntervals

\* A ticker read in this interval lies between its snapshot and the ticker.
TickersRead ==
  /\ \A t \in Tickers : value[t] # NotRead => snap[t] <= value[t] /\ value[t] <= ticker[t]
  /\ pc = "deltas" => \A t \in Tickers : value[t] # NotRead

\* What was printed of the network ends before the open reading.
NetOpen ==
  /\ pc \in {"disk1", "sleep", "net2", "disk2"} /\ net1 # Missing =>
       net1 \in AtBoot..net /\ netShown <= net1 - AtBoot
  /\ pc = "disk2" /\ net1 # Missing /\ net2 # Missing => net2 \in net1..net

\* Likewise of the disk, but for what the failed readings make of it: one that
\* failed at the start of the interval counts as zero.
DiskOpen ==
  pc \in {"sleep", "net2", "disk2"} =>
    /\ disk1 \in 0..disk
    /\ diskShown <= (disk1 - AtBoot) + failures * disk

\* Between the two bloom tickers true positives can only come in.
BloomOpen ==
  /\ pos1 <= positive /\ fpAtRead <= positive
  /\ pc = "bloom2" => pos1 - truePos <= fpAtRead

StatusInv ==
  /\ StatusTypeOK /\ Counting /\ Intervals
  /\ TickersRead /\ DeltasTelescope
  /\ NetOpen /\ DiskOpen /\ NeverOverReported
  /\ BloomOpen /\ FalsePositivesNotInvented

\* The summary is printed when the workers are joined: nothing counts any more.
\* After a load there is none.
SummaryFinal ==
  /\ done => ~load /\ lookups = 0 /\ ~looking
  /\ pc = "summary" => done
  /\ \A t \in Tickers : summary[t] # NotRead => done /\ summary[t] = ticker[t]

-----------------------------------------------------------------------------
(* Arithmetic of uint64_t *)

(***************************************************************************)
(* A difference that fits is printed as it is.                             *)
(***************************************************************************)
LEMMA FitsUnchanged ==
  ASSUME NEW x \in 0..(Width - 1)
  PROVE  x % Width = x
  BY StatusAssumption

(***************************************************************************)
(* A negative difference of two counts wraps around once.                  *)
(***************************************************************************)
LEMMA WrapsOnce ==
  ASSUME NEW x \in (-Width)..(-1)
  PROVE  x % Width = x + Width
  BY StatusAssumption

(***************************************************************************)
(* What a uint64_t holds.                                                  *)
(***************************************************************************)
LEMMA WidthRange ==
  ASSUME NEW x \in Int
  PROVE  x % Width \in 0..(Width - 1)
  BY StatusAssumption

(***************************************************************************)
(* One failure more is one counter more, and the counter only grows.       *)
(***************************************************************************)
LEMMA OneFailureMore ==
  ASSUME NEW f \in Nat, NEW d \in Nat
  PROVE  f * d \in Nat /\ (f + 1) * d = f * d + d /\ f * (d + 1) = f * d + f
  OBVIOUS

(***************************************************************************)
(* The bounds on the sectors printed, x of them being wrong: a reading     *)
(* opens the interval, and another one closes it.                          *)
(***************************************************************************)
LEMMA DiskOpens ==
  ASSUME NEW shownNow \in Int, NEW d \in Nat, NEW x \in Nat, NEW y \in Nat, NEW v \in {d, 0},
         (v = d /\ y = x) \/ (v = 0 /\ y = x + d),
         shownNow >= -x, shownNow <= (d - AtBoot) + x
  PROVE  /\ v \in 0..d
         /\ shownNow >= -y
         /\ shownNow <= (d - AtBoot) + y
         /\ shownNow <= (v - AtBoot) + y
  BY StatusAssumption

LEMMA DiskCloses ==
  ASSUME NEW shownNow \in Int, NEW d \in Nat, NEW x \in Nat, NEW y \in Nat, NEW v \in {d, 0},
         NEW first \in 0..d,
         (v = d /\ y = x) \/ (v = 0 /\ y = x + d),
         shownNow >= -x, shownNow <= (first - AtBoot) + x
  PROVE  /\ shownNow + (v - first) >= -y
         /\ shownNow + (v - first) <= (d - AtBoot) + y
  BY StatusAssumption

-----------------------------------------------------------------------------
(* The invariant *)

LEMMA StatusInit == Init => StatusInv
  <1> SUFFICES ASSUME Init PROVE StatusInv
    OBVIOUS
  <1> USE StatusAssumption DEF Init, NoSummary, NotRead, Missing
  <1>1. StatusTypeOK
    <2>1. /\ looking \in BOOLEAN /\ done \in BOOLEAN
          /\ load \in BOOLEAN /\ aborted \in BOOLEAN /\ exited \in BOOLEAN
      OBVIOUS
    <2>2. /\ value \in [Tickers -> NotRead..NumLookups]
          /\ summary \in [Tickers -> NotRead..NumLookups]
      OBVIOUS
    <2>3. /\ ticker \in [Tickers -> 0..NumLookups]
          /\ snap \in [Tickers -> 0..NumLookups]
          /\ shown \in [Tickers -> 0..(Width - 1)]
      OBVIOUS
    <2>4. pc \in {"open", "net1", "disk1", "sleep", "net2", "disk2", "tickers", "deltas",
             "bloom", "bloom2", "summary", "ended"}
      OBVIOUS
    <2> QED BY <2>1, <2>2, <2>3, <2>4 DEF StatusTypeOK
  <1>2. Counting /\ Intervals /\ BloomOpen
    BY DEF Counting, Intervals, BloomOpen
  <1>3. TickersRead /\ DeltasTelescope
    BY DEF TickersRead, DeltasTelescope
  <1>4. NetOpen /\ DiskOpen /\ NeverOverReported /\ FalsePositivesNotInvented
    BY DEF NetOpen, DiskOpen, NeverOverReported, FalsePositivesNotInvented
  <1> QED BY <1>1, <1>2, <1>3, <1>4 DEF StatusInv

(***************************************************************************)
(* The steps of the workers and of the machine count no more than there    *)
(* are lookups and transfers.                                              *)
(***************************************************************************)
LEMMA WorldTypes ==
  ASSUME StatusInv, Lookup \/ LookupEnds \/ SetDone \/ Transfer \/ WorkerExits
  PROVE  (StatusTypeOK /\ Counting /\ Intervals)'
  <1> USE StatusAssumption
          DEF StatusInv, StatusTypeOK, Counting, Intervals, BloomOpen,
              world, reports, locals, proc, Alive, WorkDone
  <1>1. CASE Lookup
    <2>1. PICK t \in Tickers : ticker' = [ticker EXCEPT ![t] = @ + 1]
      BY <1>1 DEF Lookup
    <2>2. positive' = positive + 1 /\ positive' <= NumLookups
      BY <1>1 DEF Lookup
    <2>3. /\ ticker' \in [Tickers -> 0..NumLookups]
          /\ \A s \in Tickers : ticker'[s] <= positive'
      BY <2>1, <2>2
    <2> QED BY <1>1, <2>2, <2>3 DEF Lookup
  <1>2. CASE LookupEnds
    <2>1. looking' = FALSE /\ looking' \in BOOLEAN
      BY <1>2 DEF LookupEnds
    <2>2. truePos < positive
      BY <1>2 DEF LookupEnds
    <2>3. truePos' \in 0..positive'
      BY <1>2, <2>2 DEF LookupEnds
    <2> QED BY <1>2, <2>1, <2>3 DEF LookupEnds
  <1>3. CASE SetDone
    BY <1>3 DEF SetDone
  <1>4. CASE Transfer
    BY <1>4 DEF Transfer
  <1>5. CASE WorkerExits
    <2>1. exited' \in BOOLEAN /\ UNCHANGED <<load, aborted, done, looking>>
      BY <1>5 DEF WorkerExits
    <2> QED BY <1>5, <2>1 DEF WorkerExits
  <1> QED BY <1>1, <1>2, <1>3, <1>4, <1>5

(***************************************************************************)
(* The steps of the thread.                                                *)
(***************************************************************************)
LEMMA ThreadTypes ==
  ASSUME StatusInv, ThreadNext
  PROVE  (StatusTypeOK /\ Counting /\ Intervals)'
  <1> USE StatusAssumption
          DEF StatusInv, StatusTypeOK, Counting, Intervals, BloomOpen,
              world, reports, locals, proc, Alive, WorkDone,
              At, NotRead, Missing
  <1>1. CASE Open \/ OpenFails
    BY <1>1 DEF Open, OpenFails
  <1>2. CASE ReadNet1
    BY <1>2 DEF ReadNet1, getNetStats, Reading
  <1>3. CASE ReadDisk1
    BY <1>3 DEF ReadDisk1, get_disk_stats, Reading
  <1>4. CASE Sleep
    BY <1>4 DEF Sleep
  <1>5. CASE ReadNet2
    BY <1>5 DEF ReadNet2, getNetStats, Reading
  <1>6. CASE PrintBandwidth
    BY <1>6 DEF PrintBandwidth, get_disk_stats, Reading, NetDiff
  <1>7. CASE InterfaceLost
    BY <1>7 DEF InterfaceLost
  <1>8. ASSUME NEW t \in Tickers, ReadTicker(t)
        PROVE  (StatusTypeOK /\ Counting /\ Intervals)'
    BY <1>8 DEF ReadTicker
  <1>9. CASE PrintDeltas
    <2>1. snap' \in [Tickers -> 0..NumLookups]
      BY <1>9 DEF PrintDeltas, TickersRead
    <2>2. shown' \in [Tickers -> 0..(Width - 1)]
      BY <1>9, WidthRange DEF PrintDeltas
    <2>3. value' \in [Tickers -> NotRead..NumLookups]
      BY <1>9 DEF PrintDeltas, NoSummary
    <2> QED BY <1>9, <2>1, <2>2, <2>3 DEF PrintDeltas
  <1>10. CASE ReadPositive
    BY <1>10 DEF ReadPositive
  <1>11. CASE PrintBloom
    <2>1. false_positive' \in 0..(Width - 1)
      BY <1>11, WidthRange DEF PrintBloom
    <2> QED BY <1>11, <2>1 DEF PrintBloom
  <1>12. ASSUME NEW t \in Tickers, PrintSummary(t)
         PROVE  (StatusTypeOK /\ Counting /\ Intervals)'
    BY <1>12 DEF PrintSummary
  <1> QED
    BY <1>1, <1>2, <1>3, <1>4, <1>5, <1>6, <1>7, <1>8, <1>9, <1>10, <1>11, <1>12
       DEF ThreadNext

(***************************************************************************)
(* What a step that leaves the tickers' variables alone cannot disturb:    *)
(* the workers only count up.                                              *)
(***************************************************************************)
LEMMA TickersNext ==
  ASSUME StatusInv, Next
  PROVE  (TickersRead /\ DeltasTelescope)'
  <1> USE StatusAssumption
          DEF StatusInv, StatusTypeOK, TickersRead, DeltasTelescope,
              world, reports, locals, proc, Alive, WorkDone,
              At, NotRead
  <1>1. CASE Lookup
    BY <1>1 DEF Lookup
  <1>2. CASE LookupEnds \/ SetDone \/ Transfer \/ WorkerExits \/ UNCHANGED vars
    BY <1>2 DEF LookupEnds, SetDone, Transfer, WorkerExits, vars
  <1>3. CASE Open \/ OpenFails \/ ReadNet1 \/ ReadDisk1 \/ Sleep \/ ReadNet2
    BY <1>3 DEF Open, OpenFails, ReadNet1, ReadDisk1, Sleep, ReadNet2
  <1>4. CASE PrintBandwidth \/ InterfaceLost \/ ReadPositive \/ PrintBloom
    BY <1>4 DEF PrintBandwidth, InterfaceLost, ReadPositive, PrintBloom
  <1>5. ASSUME NEW t \in Tickers, ReadTicker(t)
        PROVE  (TickersRead /\ DeltasTelescope)'
    BY <1>5 DEF ReadTicker
  <1>6. CASE PrintDeltas
    <2>1. ASSUME NEW t \in Tickers
          PROVE  /\ shown'[t] = value[t]
                 /\ snap'[t] = value[t] /\ value[t] <= ticker[t]
      <3>1. value[t] \in 0..(Width - 1) /\ value[t] <= ticker[t]
        BY <1>6 DEF PrintDeltas
      <3>2. shown[t] + (value[t] - snap[t]) = value[t]
        BY <3>1
      <3>3. shown'[t] = value[t] % Width
        BY <1>6, <3>2 DEF PrintDeltas
      <3> QED BY <1>6, <3>1, <3>3, FitsUnchanged DEF PrintDeltas
    <2> QED BY <1>6, <2>1 DEF PrintDeltas, NoSummary
  <1>7. ASSUME NEW t \in Tickers, PrintSummary(t)
        PROVE  (TickersRead /\ DeltasTelescope)'
    BY <1>7 DEF PrintSummary
  <1> QED BY <1>1, <1>2, <1>3, <1>4, <1>5, <1>6, <1>7
     DEF Next, ThreadNext, WorldNext, WaitCompaction

\* What a reading of the disk does to the number of failures.
DiskRead(v) ==
  /\ failures * disk \in Nat /\ failures' * disk \in Nat
  /\ \/ v = disk /\ failures' * disk = failures * disk
     \/ v = 0 /\ failures' * disk = failures * disk + disk

LEMMA DiskReads ==
  ASSUME StatusTypeOK, NEW v, get_disk_stats(v)
  PROVE  DiskRead(v)
  BY StatusAssumption, OneFailureMore DEF StatusTypeOK, get_disk_stats, Reading, DiskRead

(***************************************************************************)
(* The bytes and sectors printed end at a reading that is past, and the    *)
(* next interval begins at a later one.                                    *)
(***************************************************************************)
LEMMA BandwidthNext ==
  ASSUME StatusInv, Next
  PROVE  (NetOpen /\ DiskOpen /\ NeverOverReported)'
  <1> USE StatusAssumption
          DEF StatusInv, StatusTypeOK, NetOpen, DiskOpen, NeverOverReported,
              world, reports, locals, proc, Alive, WorkDone, At, NotRead, Missing
  <1>1. CASE Lookup \/ LookupEnds \/ SetDone \/ WorkerExits \/ UNCHANGED vars
    BY <1>1 DEF Lookup, LookupEnds, SetDone, WorkerExits, vars
  <1>2. CASE Transfer
    BY <1>2 DEF Transfer
  <1>3. CASE Open \/ OpenFails \/ Sleep \/ InterfaceLost
    BY <1>3 DEF Open, OpenFails, Sleep, InterfaceLost
  <1>4. CASE ReadNet1
    BY <1>4 DEF ReadNet1, getNetStats, Reading
  <1>5. CASE ReadDisk1
    <2>1. PICK v \in {disk, 0} : get_disk_stats(v) /\ disk1' = v
      BY <1>5 DEF ReadDisk1
    <2>2. DiskRead(v)
      BY <2>1, DiskReads
    <2>3. /\ DiskOpen'
          /\ diskShown' >= -(failures' * disk)
          /\ diskShown' <= (disk - AtBoot) + failures' * disk
      BY <1>5, <2>1, <2>2, DiskOpens DEF ReadDisk1, DiskRead
    <2> QED BY <1>5, <2>3 DEF ReadDisk1
  <1>6. CASE ReadNet2
    BY <1>6 DEF ReadNet2, getNetStats, Reading
  <1>7. CASE PrintBandwidth
    <2>1. netShown' \in 0..(net - AtBoot)
      BY <1>7 DEF PrintBandwidth, NetDiff
    <2>2. PICK v \in {disk, 0} : get_disk_stats(v) /\ diskShown' = diskShown + (v - disk1)
      BY <1>7 DEF PrintBandwidth
    <2>3. DiskRead(v)
      BY <2>2, DiskReads
    <2>4. disk1 \in 0..disk /\ diskShown <= (disk1 - AtBoot) + failures * disk
      BY <1>7 DEF PrintBandwidth
    <2>5. /\ diskShown' >= -(failures' * disk)
          /\ diskShown' <= (disk - AtBoot) + failures' * disk
      BY <2>2, <2>3, <2>4, DiskCloses DEF DiskRead
    <2> QED BY <1>7, <2>1, <2>5 DEF PrintBandwidth
  <1>8. CASE PrintDeltas \/ ReadPositive \/ PrintBloom
    BY <1>8 DEF PrintDeltas, ReadPositive, PrintBloom
  <1>9. ASSUME NEW t \in Tickers, ReadTicker(t) \/ PrintSummary(t)
        PROVE  (NetOpen /\ DiskOpen /\ NeverOverReported)'
    BY <1>9 DEF ReadTicker, PrintSummary
  <1> QED
    BY <1>1, <1>2, <1>3, <1>4, <1>5, <1>6, <1>7, <1>8, <1>9
     DEF Next, ThreadNext, WorldNext, WaitCompaction

(***************************************************************************)
(* The difference of the two bloom tickers, wrapped or not.                *)
(***************************************************************************)
LEMMA BloomNext ==
  ASSUME StatusInv, Next
  PROVE  (BloomOpen /\ FalsePositivesNotInvented)'
  <1> USE StatusAssumption
          DEF StatusInv, StatusTypeOK, Counting, BloomOpen, FalsePositivesNotInvented,
              world, reports, locals, proc, Alive, WorkDone, At
  <1>1. CASE Lookup
    BY <1>1 DEF Lookup
  <1>2. CASE LookupEnds
    <2>1. truePos' = truePos \/ truePos' = truePos + 1
      BY <1>2 DEF LookupEnds
    <2>2. UNCHANGED <<positive, pc, pos1, fpAtRead, false_positive>>
      BY <1>2 DEF LookupEnds
    <2> QED BY <2>1, <2>2
  <1>3. CASE SetDone \/ Transfer \/ WorkerExits \/ UNCHANGED vars
    BY <1>3 DEF SetDone, Transfer, WorkerExits, vars
  <1>4. CASE Open \/ OpenFails \/ ReadNet1 \/ ReadDisk1 \/ Sleep \/ ReadNet2
    BY <1>4 DEF Open, OpenFails, ReadNet1, ReadDisk1, Sleep, ReadNet2
  <1>5. CASE PrintBandwidth \/ InterfaceLost \/ PrintDeltas
    BY <1>5 DEF PrintBandwidth, InterfaceLost, PrintDeltas
  <1>6. ASSUME NEW t \in Tickers, ReadTicker(t) \/ PrintSummary(t)
        PROVE  (BloomOpen /\ FalsePositivesNotInvented)'
    BY <1>6 DEF ReadTicker, PrintSummary
  <1>7. CASE ReadPositive
    BY <1>7 DEF ReadPositive
  <1>8. CASE PrintBloom
    <2>1. CASE pos1 >= truePos
      <3>1. false_positive' = pos1 - truePos
        BY <1>8, <2>1, FitsUnchanged DEF PrintBloom
      <3> QED BY <1>8, <3>1 DEF PrintBloom
    <2>2. CASE pos1 < truePos
      <3>1. false_positive' = pos1 - truePos + Width
        BY <1>8, <2>2, WrapsOnce DEF PrintBloom
      <3> QED BY <1>8, <3>1 DEF PrintBloom
    <2> QED BY <2>1, <2>2
  <1> QED BY <1>1, <1>2, <1>3, <1>4, <1>5, <1>6, <1>7, <1>8
     DEF Next, ThreadNext, WorldNext, WaitCompaction

(***************************************************************************)
(* Every step keeps the invariant.                                         *)
(***************************************************************************)
LEMMA StatusStep == StatusInv /\ [Next]_vars => StatusInv'
  <1> SUFFICES ASSUME StatusInv, [Next]_vars PROVE StatusInv'
    OBVIOUS
  <1>1. CASE Next
    <2>1. (StatusTypeOK /\ Counting /\ Intervals)'
      <3>1. CASE UNCHANGED vars
        BY <3>1 DEF StatusInv, StatusTypeOK, Counting, Intervals,
                    vars, world, reports, locals, proc, Alive, WorkDone
      <3> QED BY <1>1, <3>1, WorldTypes, ThreadTypes DEF Next, WorldNext, WaitCompaction
    <2> QED BY <1>1, <2>1, TickersNext, BandwidthNext, BloomNext DEF StatusInv
  <1>2. CASE UNCHANGED vars
    BY <1>2 DEF StatusInv, StatusTypeOK, Counting, Intervals, TickersRead, DeltasTelescope,
                NetOpen, DiskOpen, NeverOverReported, BloomOpen, FalsePositivesNotInvented,
                vars, world, reports, locals, proc, Alive, WorkDone
  <1> QED BY <1>1, <1>2

LEMMA StatusInvariant == Spec => []StatusInv
  BY StatusInit, StatusStep, PTL DEF Spec

-----------------------------------------------------------------------------
(* The theorems *)

(***************************************************************************)
(* Type correctness.  In particular the tickers fit their integers, and    *)
(* the thread leaves its loop at the first wake-up after done.             *)
(***************************************************************************)
THEOREM StatusTypeCorrect == Spec => []StatusTypeOK
  BY StatusInvariant, PTL DEF StatusInv

(***************************************************************************)
(* print_my_status, the *_delta lines: whatever the workers count between  *)
(* getTickerCount, the printing and the *_snap assignments, the deltas     *)
(* printed add up to a value the ticker has had.                           *)
(***************************************************************************)
THEOREM DeltasAddUp == Spec => []DeltasTelescope
  BY StatusInvariant, PTL DEF StatusInv

(***************************************************************************)
(* print_my_status, the bandwidth lines: the differences of the readings   *)
(* of /proc never report more than was transferred; each reading of the    *)
(* disk that fails makes its sum wrong by at most the counter itself.      *)
(***************************************************************************)
THEOREM TrafficNotInvented == Spec => []NeverOverReported
  BY StatusInvariant, PTL DEF StatusInv

(***************************************************************************)
(* print_my_status, false_positive = positive - true_positive: what is     *)
(* printed is at most what there was, or it has wrapped around by at most  *)
(* the true positives.                                                     *)
(***************************************************************************)
THEOREM BloomLineBounded == Spec => []FalsePositivesNotInvented
  BY StatusInvariant, PTL DEF StatusInv

(***************************************************************************)
(* print_summary is called after main has joined the workers: each ticker  *)
(* it prints is final.  (That it is called at all is SummaryComes, which   *)
(* TLC checks.)                                                            *)
(***************************************************************************)
THEOREM SummaryIsFinal == Spec => []SummaryFinal
  <1> USE DEF SummaryFinal, world, reports, locals, proc, Alive, WorkDone, At, NotRead
  <1>1. Init => SummaryFinal
    BY DEF Init, NoSummary
  <1>2. SummaryFinal /\ StatusTypeOK /\ [Next]_vars => SummaryFinal'
    <2> SUFFICES ASSUME SummaryFinal, StatusTypeOK, [Next]_vars PROVE SummaryFinal'
      OBVIOUS
    <2> USE DEF StatusTypeOK
    <2>1. CASE Lookup \/ LookupEnds
      BY <2>1 DEF Lookup, LookupEnds
    <2>2. CASE SetDone \/ Transfer \/ WorkerExits \/ UNCHANGED vars
      BY <2>2 DEF SetDone, Transfer, WorkerExits, vars
    <2>3. CASE Open \/ OpenFails \/ ReadNet1 \/ ReadDisk1 \/ Sleep \/ ReadNet2
      BY <2>3 DEF Open, OpenFails, ReadNet1, ReadDisk1, Sleep, ReadNet2
    <2>4. CASE PrintBandwidth \/ InterfaceLost \/ PrintDeltas \/ ReadPositive \/ PrintBloom
      BY <2>4 DEF PrintBandwidth, InterfaceLost, PrintDeltas, ReadPositive, PrintBloom
    <2>5. ASSUME NEW t \in Tickers, ReadTicker(t) PROVE SummaryFinal'
      BY <2>5 DEF ReadTicker
    <2>6. ASSUME NEW t \in Tickers, PrintSummary(t) PROVE SummaryFinal'
      BY <2>6 DEF PrintSummary
    <2> QED BY <2>1, <2>2, <2>3, <2>4, <2>5, <2>6 DEF Next, ThreadNext, WorldNext, WaitCompaction
  <1> QED BY <1>1, <1>2, StatusTypeCorrect, PTL DEF Spec
=============================================================================
