---------------------------- MODULE DriverProofs ----------------------------
(***************************************************************************)
(* Proofs about Driver, for every number of threads, records, operations,  *)
(* command lines and processes.                                            *)
(***************************************************************************)
EXTENDS Driver, TLAPS

(***************************************************************************)
(* A command line has at least one thread, so the operations of a worker   *)
(* are a natural number.                                                   *)
(***************************************************************************)
LEMMA CommandType ==
  ASSUME cmd \in Commands
  PROVE  /\ cmd.threads \in 1..MaxThreads
         /\ cmd.threads \in Nat \ {0}
         /\ cmd.load \in BOOLEAN /\ cmd.run \in BOOLEAN /\ cmd.valid \in BOOLEAN
         /\ cmd.dbname \in {"basic", "rocksdb", "rocksdb-cloud"}
  BY DriverAssumption DEF CommandLine

(***************************************************************************)
(* A process starts with workers that are not there yet.                   *)
(***************************************************************************)
LEMMA FreshType ==
  [k \in Workers |-> FreshWorker]
    \in [Workers -> [pc : {"none", "init", "loop", "returned", "exit"}, i : Nat, oks : Nat]]
  BY DEF FreshWorker

(***************************************************************************)
(* Each action of main preserves the types.                                *)
(***************************************************************************)
LEMMA TypeMain ==
  ASSUME TypeOK, MainNext
  PROVE  TypeOK'
<1> USE DriverAssumption, CommandType DEF TypeOK, At, Running, End, Advance, NextPhase,
        ExitStatus, Joinable, Workers, Threads, Ended
<1>1. CASE CreateBasic
  BY <1>1 DEF CreateBasic, OpenDB
<1>2. CASE CreateCloud
  BY <1>2 DEF CreateCloud, OpenDB
<1>3. CASE CreateCloudExit
  BY <1>3 DEF CreateCloudExit
<1>4. CASE CreateUnknown
  BY <1>4 DEF CreateUnknown
<1>5. CASE InitWorkload
  BY <1>5 DEF InitWorkload, FreshWorker
<1>6. CASE InitThrows
  BY <1>6 DEF InitThrows
<1>7. CASE LaunchWorker
  <2>1. futures \in Workers /\ futures + 1 \in 0..MaxThreads
    BY <1>7, SMTT(30) DEF LaunchWorker
  <2>2. [worker[futures] EXCEPT !.pc = "init"]
          \in [pc : {"none", "init", "loop", "returned", "exit"}, i : Nat, oks : Nat]
    BY <2>1, ZenonT(40)
  <2> QED
    BY <1>7, <2>1, <2>2, SMTT(30) DEF LaunchWorker
<1>8. CASE LaunchThrows
  BY <1>8 DEF LaunchThrows
<1>9. CASE EndLaunch
  BY <1>9 DEF EndLaunch
<1>10. CASE JoinWorker
  BY <1>10, SMTT(30) DEF JoinWorker
<1>11. CASE EndPhase
  BY <1>11 DEF EndPhase
<1>12. CASE PrintStats
  BY <1>12 DEF PrintStats
<1>13. CASE SetFinish
  BY <1>13 DEF SetFinish
<1>14. CASE WaitCompaction
  BY <1>14 DEF WaitCompaction, vars
<1>15. CASE SetDone
  BY <1>15 DEF SetDone
<1>16. CASE JoinMy
  BY <1>16 DEF JoinMy, JoinStat
<1>17. CASE JoinRocks
  BY <1>17 DEF JoinRocks, JoinStat
<1>18. CASE JoinThrows
  BY <1>18 DEF JoinThrows
<1>19. CASE DeleteDB
  BY <1>19 DEF DeleteDB
<1>20. CASE Return
  BY <1>20 DEF Return
<1> QED
  BY <1>1, <1>2, <1>3, <1>4, <1>5, <1>6, <1>7, <1>8, <1>9, <1>10, <1>11, <1>12, <1>13,
     <1>14, <1>15, <1>16, <1>17, <1>18, <1>19, <1>20 DEF MainNext


(***************************************************************************)
(* Each step of a worker, of a statistics thread and of the environment    *)
(* preserves the types.                                                    *)
(***************************************************************************)
LEMMA TypeWorker ==
  ASSUME TypeOK, NEW k \in Workers, WorkerNext(k)
  PROVE  TypeOK'
<1> DEFINE Rec == [pc : {"none", "init", "loop", "returned", "exit"}, i : Nat, oks : Nat]
<1>1. worker[k] \in Rec
  BY DEF TypeOK
<1>2. \A w \in Rec : WorkerGoes(k, w) => TypeOK'
  BY DEF TypeOK, WorkerGoes
<1>3. CASE WorkerInit(k)
  BY <1>1, <1>2, <1>3 DEF WorkerInit
<1>4. CASE WorkerOp(k)
  <2> DEFINE w == worker[k]
  <2>1. w = [pc |-> w.pc, i |-> w.i, oks |-> w.oks] /\ w.i + 1 \in Nat /\ w.oks + 1 \in Nat
    BY <1>1
  <2>2. [w EXCEPT !.i = @ + 1, !.oks = @ + 1] \in Rec
    BY <1>1, <2>1
  <2> QED
    BY <1>2, <1>4, <2>2 DEF WorkerOp
<1>5. CASE WorkerFails(k)
  BY <1>1, <1>2, <1>5 DEF WorkerFails
<1>6. CASE WorkerReturn(k)
  BY <1>1, <1>2, <1>6 DEF WorkerReturn
<1>7. CASE ExitProcess(k)
  BY <1>7 DEF ExitProcess, End, ExitStatus, TypeOK, Ended
<1> QED
  BY <1>3, <1>4, <1>5, <1>6, <1>7 DEF WorkerNext

(***************************************************************************)
(* Each action of the statistics threads preserves the types.              *)
(***************************************************************************)
LEMMA TypeStat ==
  ASSUME TypeOK, MyNext \/ RocksNext
  PROVE  TypeOK'
<1> USE DEF TypeOK, StatGoes, Threads
<1>1. ASSUME NEW s \in Threads, StatOpen(s) PROVE TypeOK'
  BY <1>1 DEF StatOpen
<1>2. ASSUME NEW s \in Threads, StatReport(s) PROVE TypeOK'
  BY <1>2 DEF StatReport
<1>3. CASE MyWake
  BY <1>3 DEF MyWake
<1>4. CASE MySummary
  BY <1>4 DEF MySummary
<1>5. CASE MyReportThrows
  BY <1>5 DEF MyReportThrows, End, Ended
<1>6. CASE RocksWake
  BY <1>6 DEF RocksWake
<1>7. CASE RocksCheck
  BY <1>7 DEF RocksCheck
<1>8. CASE RocksAnnounce
  BY <1>8 DEF RocksAnnounce
<1>9. CASE RocksClear
  BY <1>9, ZenonT(40) DEF RocksClear
<1> QED
  BY <1>1, <1>2, <1>3, <1>4, <1>5, <1>6, <1>7, <1>8, <1>9 DEF MyNext, RocksNext

(***************************************************************************)
(* A wild call, a signal and a new process preserve the types.             *)
(***************************************************************************)
LEMMA TypeOutside ==
  ASSUME TypeOK, WildCall \/ Kill \/ Restart \/ Over
  PROVE  TypeOK'
<1>1. CASE WildCall
  BY <1>1 DEF WildCall, End, TypeOK, Ended
<1>2. CASE Kill
  BY <1>2 DEF Kill, End, TypeOK, Ended
<1>3. CASE Restart
  <2>1. lives' \in 1..MaxLives /\ futures' \in 0..MaxThreads /\ joined' \in 0..futures'
    BY <1>3, DriverAssumption DEF Restart, TypeOK
  <2>2. worker' \in [Workers -> [pc : {"none", "init", "loop", "returned", "exit"},
                                  i : Nat, oks : Nat]]
    BY <1>3, FreshType DEF Restart
  <2> QED
    BY <1>3, <2>1, <2>2 DEF Restart, TypeOK
<1>4. CASE Over
  BY <1>4 DEF Over, TypeOK, vars
<1> QED
  BY <1>1, <1>2, <1>3, <1>4

(***************************************************************************)
(* Type correctness of the benchmark process: in particular main never     *)
(* launches or joins more workers than the command line asks for, and the  *)
(* futures it joins exist (the assertions of ycsbc.cc, lines 115-119).     *)
(***************************************************************************)
THEOREM TypeCorrect == Spec => []TypeOK
<1>1. Init => TypeOK
  <2> SUFFICES ASSUME Init PROVE TypeOK
    OBVIOUS
  <2>1. lives \in 1..MaxLives /\ futures \in 0..MaxThreads /\ joined \in 0..futures
    BY DriverAssumption DEF Init
  <2>2. worker \in [Workers -> [pc : {"none", "init", "loop", "returned", "exit"},
                                 i : Nat, oks : Nat]]
    BY FreshType DEF Init
  <2> QED
    BY <2>1, <2>2 DEF Init, TypeOK
<1>2. TypeOK /\ [Next]_vars => TypeOK'
  <2> SUFFICES ASSUME TypeOK, [Next]_vars PROVE TypeOK'
    OBVIOUS
  <2>1. CASE UNCHANGED vars
    BY <2>1 DEF vars, TypeOK
  <2>2. CASE Next
    BY <2>2, TypeMain, TypeWorker, TypeStat, TypeOutside DEF Next
  <2> QED
    BY <2>1, <2>2
<1> QED
  BY <1>1, <1>2, PTL DEF Spec

-----------------------------------------------------------------------------
(* The inductive invariant *)

Busy        == {"launch", "join"}
AfterFinish == {"compaction", "done", "join_my", "join_rocks", "delete", "return", "end"}
AfterMy     == {"join_rocks", "delete", "return", "end"}
AfterRocks  == {"delete", "return", "end"}

\* What exists at each place of main, and where the workers are.
Stages ==
  /\ pc = "create" => phase = "none" /\ \A s \in Threads : stat[s] = "none"
  /\ pc \in {"init", "launch", "join"} => phase # "none"
  /\ (db = "none") <=> (pc = "create")
  /\ (db = "deleted") <=> (pc \in {"return", "end"})
  /\ (wl = TRUE) <=> (pc \in Busy)
  /\ (stat["my"] = "joined") <=> (pc \in AfterMy)
  /\ (stat["rocks"] = "joined") <=> (pc \in AfterRocks)
  /\ pc = "launch" => joined = 0
  /\ pc = "join" => futures = cmd.threads
  /\ pc \notin Busy => \A k \in Workers : worker[k].pc \in {"none", "returned"}
  /\ pc \in Busy => \A k \in Workers : k >= futures => worker[k].pc = "none"
  /\ \A k \in Workers : k < joined => worker[k].pc = "returned"

\* What the workers of the phase have done, and what main has summed up.
Exact ==
  /\ \A k \in Workers : worker[k].oks = worker[k].i
  /\ pc \in Busy => \A k \in Workers :
       /\ worker[k].i <= NumOps(phase)
       /\ worker[k].pc = "returned" => worker[k].i = NumOps(phase)
  /\ pc = "join" => sum = joined * NumOps(phase)
  /\ phase # "none" /\ pc \notin {"init", "launch", "join"} => sum = cmd.threads * NumOps(phase)

\* The flags main sets, and what rocksdb_stat_thr has made of finish.
FinishLine ==
  /\ finish \/ announced > 0 => pc \in AfterFinish
  /\ done => pc \in AfterFinish
  /\ stat["my"] = "summary" => done
  /\ announced <= 1
  /\ stat["rocks"] = "announce" => finish /\ announced = 0
  /\ stat["rocks"] = "clear" => finish /\ announced = 1
  /\ announced > 0 /\ stat["rocks"] # "clear" => ~finish

\* A worker that calls exit finds both statistics threads joinable.
Exits ==
  /\ cmd.dbname = "rocksdb-cloud" /\ pc # "create" => \A s \in Threads : stat[s] # "none"
  /\ \A k \in Workers : worker[k].pc = "exit" => cmd.dbname = "rocksdb-cloud"
  /\ proc = "exited" => db = "none"

\* The steps of the specification, sorted by what they change.
EndStep(how) ==
  /\ End(how)
  /\ how = "exited" => At("create") \/ \E k \in Workers : ExitProcess(k)

MainStep ==
  \/ CreateBasic \/ CreateCloud \/ InitWorkload \/ LaunchWorker \/ EndLaunch
  \/ JoinWorker \/ EndPhase \/ PrintStats \/ SetFinish \/ SetDone \/ JoinMy
  \/ JoinRocks \/ DeleteDB \/ Return

WorkerStep ==
  \E k \in Workers : WorkerInit(k) \/ WorkerOp(k) \/ WorkerFails(k) \/ WorkerReturn(k)

StatStep ==
  \E s \in Threads, from, to \in {"start", "sleep", "check", "announce", "clear", "report",
                                  "summary", "ended"} :
     StatGoes(s, from, to)

(***************************************************************************)
(* The steps of the specification, sorted by what they change: the ones    *)
(* that end the process change nothing else, and a statistics thread never *)
(* starts or joins itself.                                                 *)
(***************************************************************************)
LEMMA Steps ==
  ASSUME [Next]_vars
  PROVE  \/ \E how \in Ended : EndStep(how)
         \/ MainStep \/ WorkerStep \/ Restart \/ UNCHANGED vars
         \/ StatStep /\ (MyNext \/ RocksNext)
<1>1. CASE MainNext
  <2>1. CASE CreateCloudExit \/ CreateUnknown \/ InitThrows \/ LaunchThrows \/ JoinThrows
    BY <2>1 DEF CreateCloudExit, CreateUnknown, InitThrows, LaunchThrows, JoinThrows,
                ExitStatus, Ended, EndStep
  <2> QED
    BY <1>1, <2>1 DEF MainNext, MainStep, WaitCompaction
<1>2. CASE \E k \in Workers : WorkerNext(k)
  BY <1>2 DEF WorkerNext, WorkerStep, ExitProcess, ExitStatus, Ended, EndStep
<1>3. CASE MyNext \/ RocksNext
  <2>1. CASE MyReportThrows
    BY <2>1 DEF MyReportThrows, Ended, EndStep
  <2>2. CASE ~MyReportThrows
    BY <1>3, <2>2 DEF MyNext, RocksNext, StatStep, StatOpen, MyWake, MySummary, StatReport,
                      RocksWake, RocksCheck, RocksAnnounce, RocksClear, Threads
  <2> QED
    BY <2>1, <2>2
<1>4. CASE WildCall \/ Kill \/ Restart \/ Over
  BY <1>4 DEF WildCall, Kill, Over, Ended, EndStep
<1> QED
  BY <1>1, <1>2, <1>3, <1>4 DEF Next

(***************************************************************************)
(* Stages is preserved: only main moves pc, and it leaves a phase's block  *)
(* when every future was joined, and deletes the DB when both statistics   *)
(* threads were.                                                           *)
(***************************************************************************)
LEMMA StagesInductive ==
  ASSUME TypeOK, Stages, [Next]_vars
  PROVE  Stages'
<1> USE DEF Stages, TypeOK, At, Running, Threads, Busy, AfterMy, AfterRocks
<1>1. ASSUME NEW how, End(how) PROVE Stages'
  BY <1>1 DEF End
<1>2. CASE CreateBasic
  BY <1>2 DEF CreateBasic, OpenDB, Advance, NextPhase
<1>3. CASE CreateCloud
  BY <1>3 DEF CreateCloud, OpenDB, Advance, NextPhase
<1>4. CASE InitWorkload
  <2>1. \A k \in Workers : worker'[k].pc = "none" /\ ~(k < joined')
    BY <1>4 DEF InitWorkload, FreshWorker, Workers
  <2> QED
    BY <1>4, <2>1 DEF InitWorkload
<1>5. CASE LaunchWorker
  BY <1>5, CommandType DEF LaunchWorker, Workers
<1>6. CASE EndLaunch
  BY <1>6 DEF EndLaunch
<1>7. CASE JoinWorker
  BY <1>7 DEF JoinWorker, Workers
<1>8. CASE EndPhase
  BY <1>8 DEF EndPhase, Advance, NextPhase, Workers
<1>9. CASE PrintStats \/ SetFinish \/ SetDone \/ DeleteDB \/ Return
  BY <1>9 DEF PrintStats, SetFinish, SetDone, DeleteDB, Return
<1>10. CASE JoinMy \/ JoinRocks
  BY <1>10 DEF JoinMy, JoinRocks, JoinStat
<1>11. CASE WorkerStep
  BY <1>11 DEF WorkerStep, WorkerInit, WorkerOp, WorkerFails, WorkerReturn, WorkerGoes,
               WorkerAt, InLoop
<1>12. CASE StatStep
  BY <1>12 DEF StatStep, StatGoes
<1>13. CASE Restart
  <2>1. \A k \in Workers : worker'[k].pc = "none" /\ ~(k < joined')
    BY <1>13 DEF Restart, FreshWorker, Workers
  <2> QED
    BY <1>13, <2>1 DEF Restart
<1>14. CASE UNCHANGED vars
  BY <1>14 DEF vars
<1> QED
  BY <1>1, <1>2, <1>3, <1>4, <1>5, <1>6, <1>7, <1>8, <1>9, <1>10, <1>11, <1>12, <1>13,
     <1>14, Steps DEF MainStep, EndStep


(***************************************************************************)
(* The operations of a worker are a natural number, that depends only on   *)
(* the command line and the phase.                                         *)
(***************************************************************************)
LEMMA NumOpsType ==
  ASSUME TypeOK, NEW ph
  PROVE  NumOps(ph) \in Nat
  BY DriverAssumption, CommandType DEF TypeOK, NumOps

(***************************************************************************)
(* They stay the same while the command line and the phase do.             *)
(***************************************************************************)
LEMMA NumOpsSame ==
  ASSUME cmd' = cmd, phase' = phase
  PROVE  NumOps(phase)' = NumOps(phase)
  BY DEF NumOps

(***************************************************************************)
(* Exact is preserved: a worker returns when it has done its share, and    *)
(* main adds one share per future it joins.                                *)
(***************************************************************************)
LEMMA ExactInductive ==
  ASSUME TypeOK, Stages, Exact, [Next]_vars
  PROVE  Exact'
<1> DEFINE N == NumOps(phase)
<1>0. N \in Nat
  BY NumOpsType
<1> HIDE DEF N
<1> USE DEF Exact, At, Running, Busy
<1>1. ASSUME NEW how, End(how) PROVE Exact'
  BY <1>1, NumOpsSame DEF End
<1>2. CASE CreateBasic
  BY <1>2 DEF CreateBasic, OpenDB, Advance, NextPhase, Stages
<1>3. CASE CreateCloud
  BY <1>3 DEF CreateCloud, OpenDB, Advance, NextPhase, Stages
<1>4. CASE InitWorkload
  <2>1. \A k \in Workers : worker'[k] = [pc |-> "none", i |-> 0, oks |-> 0]
    BY <1>4 DEF InitWorkload, FreshWorker
  <2>2. NumOps(phase)' = N
    BY <1>4, NumOpsSame DEF InitWorkload, N
  <2> QED
    BY <1>0, <1>4, <2>1, <2>2 DEF InitWorkload, Stages
<1>5. CASE LaunchWorker
  <2>1. NumOps(phase)' = N
    BY <1>5, NumOpsSame DEF LaunchWorker, N
  <2>2. \A k \in Workers : /\ worker'[k].i = worker[k].i /\ worker'[k].oks = worker[k].oks
                           /\ worker'[k].pc = "returned" => worker[k].pc = "returned"
    BY <1>5 DEF LaunchWorker, TypeOK
  <2> QED
    BY <1>5, <2>1, <2>2 DEF LaunchWorker, Stages, N
<1>6. CASE EndLaunch
  <2>1. NumOps(phase)' = N
    BY <1>6, NumOpsSame DEF EndLaunch, N
  <2>2. joined = 0
    BY <1>6 DEF EndLaunch, Stages
  <2> QED
    BY <1>0, <1>6, <2>1, <2>2 DEF EndLaunch, N
<1>7. CASE JoinWorker
  <2>1. NumOps(phase)' = N
    BY <1>7, NumOpsSame DEF JoinWorker, N
  <2>2. worker[joined].oks = N
    <3>1. joined \in Workers
      BY <1>7, DriverAssumption DEF JoinWorker, TypeOK, Workers
    <3> QED
      BY <1>7, <3>1 DEF JoinWorker, N
  <2>3. sum = joined * N /\ joined \in Nat
    BY <1>7 DEF JoinWorker, TypeOK, N
  <2>4. sum' = (joined + 1) * N
    BY <1>0, <1>7, <2>2, <2>3 DEF JoinWorker
  <2> QED
    BY <1>7, <2>1, <2>4 DEF JoinWorker, N
<1>8. CASE EndPhase
  <2>1. sum = cmd.threads * N
    BY <1>8 DEF EndPhase, Stages, N
  <2>2. CASE NextPhase(phase) = "none"
    <3>1. NumOps(phase)' = N
      BY <1>8, <2>2, NumOpsSame DEF EndPhase, Advance, N
    <3> QED
      BY <1>8, <2>1, <2>2, <3>1 DEF EndPhase, Advance
  <2>3. CASE NextPhase(phase) # "none"
    BY <1>8, <2>3 DEF EndPhase, Advance
  <2> QED
    BY <2>2, <2>3
<1>9. CASE PrintStats \/ SetFinish \/ SetDone \/ DeleteDB \/ Return \/ JoinMy \/ JoinRocks
  <2>1. NumOps(phase)' = NumOps(phase)
    BY <1>9, NumOpsSame DEF PrintStats, SetFinish, SetDone, DeleteDB, Return, JoinMy,
                            JoinRocks, JoinStat
  <2> QED
    BY <1>9, <2>1 DEF PrintStats, SetFinish, SetDone, DeleteDB, Return, JoinMy, JoinRocks,
                      JoinStat
<1>10. CASE WorkerStep
  <2> PICK k \in Workers : WorkerInit(k) \/ WorkerOp(k) \/ WorkerFails(k) \/ WorkerReturn(k)
    BY <1>10 DEF WorkerStep
  <2>1. NumOps(phase)' = N
    BY NumOpsSame DEF WorkerInit, WorkerOp, WorkerFails, WorkerReturn, WorkerGoes, N
  <2>2. UNCHANGED <<pc, phase, sum, joined, cmd>> /\ \A j \in Workers \ {k} : worker'[j] = worker[j]
    BY DEF WorkerInit, WorkerOp, WorkerFails, WorkerReturn, WorkerGoes, TypeOK
  <2>3. pc \in Busy
    BY DEF WorkerInit, WorkerOp, WorkerFails, WorkerReturn, WorkerAt, InLoop, Stages
  <2>4. worker[k].i \in Nat /\ worker[k].i <= N /\ worker[k].oks = worker[k].i
    BY <2>3 DEF TypeOK, N
  <2>5. /\ worker'[k].oks = worker'[k].i
        /\ worker'[k].i <= N
        /\ worker'[k].pc = "returned" => worker'[k].i = N
    <3>1. CASE WorkerOp(k)
      <4>1. /\ worker'[k].i = worker[k].i + 1 /\ worker'[k].oks = worker[k].oks + 1
            /\ worker'[k].pc = "loop" /\ worker[k].i < N
        BY <3>1 DEF WorkerOp, InLoop, WorkerAt, WorkerGoes, TypeOK, N
      <4> QED
        BY <1>0, <2>4, <4>1
    <3>2. CASE WorkerInit(k) \/ WorkerFails(k)
      BY <2>4, <3>2 DEF WorkerInit, WorkerFails, WorkerGoes, TypeOK
    <3>3. CASE WorkerReturn(k)
      <4>1. worker[k].i >= N /\ worker'[k].i = worker[k].i /\ worker'[k].oks = worker[k].oks
        BY <3>3 DEF WorkerReturn, WorkerGoes, TypeOK, N
      <4> QED
        BY <1>0, <2>4, <4>1
    <3> QED
      BY <3>1, <3>2, <3>3
  <2> QED
    BY <2>1, <2>2, <2>3, <2>5 DEF N
<1>11. CASE StatStep
  BY <1>11, NumOpsSame DEF StatStep, StatGoes
<1>12. CASE Restart
  <2>1. \A k \in Workers : worker'[k] = [pc |-> "none", i |-> 0, oks |-> 0]
    BY <1>12 DEF Restart, FreshWorker
  <2> QED
    BY <1>12, <2>1 DEF Restart
<1>13. CASE UNCHANGED vars
  BY <1>13, NumOpsSame DEF vars
<1> QED
  BY <1>1, <1>2, <1>3, <1>4, <1>5, <1>6, <1>7, <1>8, <1>9, <1>10, <1>11, <1>12, <1>13,
     Steps DEF MainStep, EndStep


(***************************************************************************)
(* FinishLine is preserved: main sets finish once, and rocksdb_stat_thr    *)
(* clears it in the round in which it prints the line.                     *)
(***************************************************************************)
LEMMA FinishLineInductive ==
  ASSUME TypeOK, Stages, FinishLine, [Next]_vars
  PROVE  FinishLine'
<1> USE DEF FinishLine, At, Running, AfterFinish, TypeOK, Threads
<1>1. ASSUME NEW how, End(how) PROVE FinishLine'
  BY <1>1 DEF End
<1>2. CASE CreateBasic \/ CreateCloud
  BY <1>2 DEF CreateBasic, CreateCloud, OpenDB, Advance
<1>3. CASE InitWorkload \/ LaunchWorker \/ EndLaunch \/ JoinWorker
  BY <1>3 DEF InitWorkload, LaunchWorker, EndLaunch, JoinWorker
<1>4. CASE EndPhase
  BY <1>4 DEF EndPhase, Advance
<1>5. CASE PrintStats \/ SetDone \/ DeleteDB \/ Return
  BY <1>5 DEF PrintStats, SetDone, DeleteDB, Return
<1>6. CASE SetFinish
  BY <1>6 DEF SetFinish
<1>7. CASE JoinMy \/ JoinRocks
  BY <1>7 DEF JoinMy, JoinRocks, JoinStat
<1>8. CASE WorkerStep
  BY <1>8 DEF WorkerStep, WorkerInit, WorkerOp, WorkerFails, WorkerReturn, WorkerGoes
<1>9. CASE MyNext
  BY <1>1, <1>9 DEF MyNext, StatOpen, MyWake, MySummary, StatReport, MyReportThrows, StatGoes
<1>10. CASE RocksNext
  BY <1>10 DEF RocksNext, StatOpen, RocksWake, RocksCheck, RocksAnnounce, RocksClear,
               StatReport, StatGoes
<1>11. CASE Restart
  BY <1>11 DEF Restart
<1>12. CASE UNCHANGED vars
  BY <1>12 DEF vars
<1> QED
  BY <1>1, <1>2, <1>3, <1>4, <1>5, <1>6, <1>7, <1>8, <1>9, <1>10, <1>11, <1>12, Steps
     DEF MainStep, EndStep


(***************************************************************************)
(* Exits is preserved: workers run only between the start of the           *)
(* statistics threads and main's joining them.                             *)
(***************************************************************************)
LEMMA ExitsInductive ==
  ASSUME TypeOK, Stages, Exits, [Next]_vars
  PROVE  Exits'
<1> USE DEF Exits, At, Running, TypeOK, Threads, Ended
<1>1. ASSUME NEW how \in Ended, EndStep(how) PROVE Exits'
  <2>1. CASE \E k \in Workers : ExitProcess(k)
    <3> PICK k \in Workers : ExitProcess(k)
      BY <2>1
    <3>1. pc \in Busy /\ cmd.dbname = "rocksdb-cloud"
      BY DEF ExitProcess, WorkerAt, Stages
    <3>2. Joinable("my")
      BY <3>1 DEF Stages, Joinable, Busy, AfterMy
    <3>3. proc' = "aborted"
      BY <3>2 DEF ExitProcess, ExitStatus, End
    <3> QED
      BY <1>1, <3>3 DEF EndStep, End
  <2>2. CASE At("create")
    BY <1>1, <2>2 DEF EndStep, End, Stages
  <2>3. CASE how # "exited"
    BY <1>1, <2>3 DEF EndStep, End
  <2> QED
    BY <1>1, <2>1, <2>2, <2>3 DEF EndStep
<1>2. CASE CreateBasic \/ CreateCloud
  BY <1>2 DEF CreateBasic, CreateCloud, OpenDB
<1>3. CASE InitWorkload
  BY <1>3 DEF InitWorkload, FreshWorker
<1>4. CASE LaunchWorker
  BY <1>4 DEF LaunchWorker
<1>5. CASE EndLaunch \/ JoinWorker \/ EndPhase \/ PrintStats \/ SetFinish \/ SetDone
  BY <1>5 DEF EndLaunch, JoinWorker, EndPhase, PrintStats, SetFinish, SetDone, Stages
<1>6. CASE JoinMy \/ JoinRocks \/ DeleteDB
  BY <1>6 DEF JoinMy, JoinRocks, JoinStat, DeleteDB
<1>7. CASE Return
  BY <1>7 DEF Return, ExitStatus
<1>8. CASE WorkerStep
  <2> PICK k \in Workers : WorkerInit(k) \/ WorkerOp(k) \/ WorkerFails(k) \/ WorkerReturn(k)
    BY <1>8 DEF WorkerStep
  <2>1. UNCHANGED <<cmd, proc, pc, db, stat>>
    BY DEF WorkerInit, WorkerOp, WorkerFails, WorkerReturn, WorkerGoes
  <2>2. \A j \in Workers \ {k} : worker'[j] = worker[j]
    BY DEF WorkerInit, WorkerOp, WorkerFails, WorkerReturn, WorkerGoes
  <2>3. worker'[k].pc = "exit" => cmd.dbname = "rocksdb-cloud"
    <3>1. CASE WorkerInit(k)
      BY <3>1 DEF WorkerInit, WorkerGoes
    <3>2. CASE WorkerOp(k)
      BY <3>2 DEF WorkerOp, WorkerGoes, InLoop, WorkerAt
    <3>3. CASE WorkerFails(k)
      BY <3>3 DEF WorkerFails
    <3>4. CASE WorkerReturn(k)
      BY <3>4 DEF WorkerReturn, WorkerGoes
    <3> QED
      BY <3>1, <3>2, <3>3, <3>4
  <2> QED
    BY <2>1, <2>2, <2>3
<1>9. CASE StatStep
  BY <1>9 DEF StatStep, StatGoes
<1>10. CASE Restart
  BY <1>10 DEF Restart, FreshWorker
<1>11. CASE UNCHANGED vars
  BY <1>11 DEF vars
<1> QED
  BY <1>1, <1>2, <1>3, <1>4, <1>5, <1>6, <1>7, <1>8, <1>9, <1>10, <1>11, Steps DEF MainStep

-----------------------------------------------------------------------------
(* The theorems *)

DriverInv == TypeOK /\ Stages /\ Exact /\ FinishLine /\ Exits

(***************************************************************************)
(* The conjunction of the parts is an invariant.                           *)
(***************************************************************************)
LEMMA DriverInvariant == Spec => []DriverInv
<1>1. Init => Stages /\ Exact /\ FinishLine /\ Exits
  <2> SUFFICES ASSUME Init PROVE Stages /\ Exact /\ FinishLine /\ Exits
    OBVIOUS
  <2>1. \A k \in Workers : worker[k] = [pc |-> "none", i |-> 0, oks |-> 0] /\ ~(k < joined)
    BY DEF Init, FreshWorker, Workers
  <2>2. Stages
    BY <2>1 DEF Init, Stages, Busy, AfterMy, AfterRocks, Threads
  <2>3. Exact /\ FinishLine /\ Exits
    BY <2>1 DEF Init, Exact, FinishLine, Exits, Busy, AfterFinish, Threads
  <2> QED
    BY <2>2, <2>3
<1>2. TypeOK /\ Stages /\ Exact /\ FinishLine /\ Exits /\ [Next]_vars
        => Stages' /\ Exact' /\ FinishLine' /\ Exits'
  BY StagesInductive, ExactInductive, FinishLineInductive, ExitsInductive
<1> QED
  BY <1>1, <1>2, TypeCorrect, PTL DEF Spec, DriverInv

(***************************************************************************)
(* No thread of the process calls through the DB or the CoreWorkload       *)
(* before it is there or after main has destroyed it.                      *)
(***************************************************************************)
THEOREM NoUseAfterFree == Spec => []ObjectsOutliveTheirUsers
<1>1. DriverInv => ObjectsOutliveTheirUsers
  <2> SUFFICES ASSUME DriverInv PROVE ObjectsOutliveTheirUsers
    OBVIOUS
  <2>1. ASSUME ~wl PROVE \A k \in Workers : ~WorkerUsesDB(k)
    BY <2>1 DEF DriverInv, TypeOK, Stages, WorkerUsesDB
  <2>2. ASSUME db \in {"none", "deleted"}
        PROVE  ~wl /\ \A s \in Threads : stat[s] \in {"none", "joined"}
    BY <2>2 DEF DriverInv, TypeOK, Stages, Busy, AfterMy, AfterRocks, Threads
  <2> QED
    BY <2>1, <2>2 DEF ObjectsOutliveTheirUsers, StatUsesDB
<1> QED
  BY <1>1, DriverInvariant, PTL

(***************************************************************************)
(* A quotient times its divisor falls short of the dividend by less than   *)
(* the divisor.                                                            *)
(***************************************************************************)
LEMMA Remainder ==
  ASSUME NEW t \in Nat, NEW n \in Nat \ {0}
  PROVE  t - n * (t \div n) \in 0..(n - 1)
  OBVIOUS

(***************************************************************************)
(* The number on a result line is the operations the phase executed, and   *)
(* less than one operation per thread is missing from what was asked for.  *)
(***************************************************************************)
THEOREM ReportedSumCorrect == Spec => []ReportedSum
<1>1. DriverInv => ReportedSum
  <2> SUFFICES ASSUME DriverInv, phase # "none", pc \notin {"init", "launch", "join"}
               PROVE  /\ sum = cmd.threads * NumOps(phase)
                      /\ Total(phase) - sum \in 0..(cmd.threads - 1)
    BY DEF ReportedSum
  <2>1. sum = cmd.threads * NumOps(phase)
    BY DEF DriverInv, Exact
  <2>2. Total(phase) \in Nat /\ cmd.threads \in Nat \ {0}
    BY DriverAssumption, CommandType DEF DriverInv, TypeOK, Total
  <2>3. NumOps(phase) = Total(phase) \div cmd.threads
    BY DEF NumOps, Total
  <2> QED
    BY <2>1, <2>2, <2>3, Remainder
<1> QED
  BY <1>1, DriverInvariant, PTL

(***************************************************************************)
(* "write finished" is printed at most once, and neither it nor the        *)
(* summary while a worker is still at work.                                *)
(***************************************************************************)
THEOREM FinishLineCorrect == Spec => []FinishLineTruthful
<1>1. DriverInv => FinishLineTruthful
  BY DEF DriverInv, TypeOK, Stages, FinishLine, FinishLineTruthful, WorkDone, Busy, AfterFinish
<1> QED
  BY <1>1, DriverInvariant, PTL

(***************************************************************************)
(* exit(0) ends the process cleanly only before the DB is there.           *)
(***************************************************************************)
THEOREM CleanExit == Spec => []CleanExitOnlyBeforeOpen
<1>1. DriverInv => CleanExitOnlyBeforeOpen
  BY DEF DriverInv, Exits, CleanExitOnlyBeforeOpen
<1> QED
  BY <1>1, DriverInvariant, PTL

=============================================================================
