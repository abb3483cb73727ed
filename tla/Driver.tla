------------------------------- MODULE Driver -------------------------------
(***************************************************************************)
(* The benchmark process of ycsbc.cc: main, its load and run phases with   *)
(* the DelegateClient workers each phase starts and joins, the two         *)
(* statistics threads the RocksDBCloud constructor starts, and the ways    *)
(* the process can end.  One benchmark operation is one atomic step here;  *)
(* module Client takes it apart.                                           *)
(*                                                                         *)
(* A behaviour is a sequence of processes ("lives"), each started with a   *)
(* command line of its own, the way run_rocksdb_cloud.sh starts them.      *)
(***************************************************************************)
EXTENDS Integers, FiniteSets

CONSTANTS
  MaxThreads,      \* the largest threadcount property of a command line
  RecordCount,     \* the recordcount property
  OperationCount,  \* the operationcount property
  Commands,        \* the command lines a process may be started with
  MaxLives         \* bound: how many processes are started one after another

(***************************************************************************)
(* A command line after ParseCommandLine: which phases to do, which DB,    *)
(* how many threads, and whether CoreWorkload::Init accepts the properties *)
(* (it throws on a missing recordcount or an unknown distribution).        *)
(***************************************************************************)
CommandLine == [load : BOOLEAN, run : BOOLEAN, threads : 1..MaxThreads,
                dbname : {"basic", "rocksdb", "rocksdb-cloud"}, valid : BOOLEAN]

ASSUME DriverAssumption ==
  /\ MaxThreads \in Nat \ {0}
  /\ RecordCount \in Nat
  /\ OperationCount \in Nat
  /\ MaxLives \in Nat \ {0}
  /\ Commands \subseteq CommandLine

VARIABLES
  cmd,        \* this process's command line, never changed by it
  proc,       \* whether the process runs, or how it ended
  pc,         \* where main is
  phase,      \* "none" | "load" | "run": the block of main being executed
  futures,    \* actual_ops.size(): the workers launched in this phase
  joined,     \* how many of the futures main has called get() on
  sum,        \* the operations main has summed up
  db,         \* the DB object: "none" | "open" | "wild" | "deleted"
  wl,         \* whether the phase's CoreWorkload object is alive
  worker,     \* the DelegateClient threads, by their number
  stat,       \* my_stat_thr and rocksdb_stat_thr
  finish,     \* ycsbc::finish
  done,       \* ycsbc::done
  announced,  \* how often "write finished, wait compaction finished" was printed
  lives       \* how many processes have been started

mainVars == <<phase, futures, joined, sum>>
objVars  == <<db, wl>>
flagVars == <<finish, done, announced>>
lifeVars == <<cmd, lives>>
vars     == <<cmd, proc, pc, phase, futures, joined, sum, db, wl, worker,
              stat, finish, done, announced, lives>>

Workers == 0..(MaxThreads - 1)
Threads == {"my", "rocks"}

\* "exited": exit(0) ran to its end; "aborted": std::terminate or a fault;
\* "returned": main returned; "killed": a signal ended the process.
Ended == {"exited", "aborted", "returned", "killed"}

FreshWorker == [pc |-> "none", i |-> 0, oks |-> 0]

Running == proc = "running"
At(label) == Running /\ pc = label

\* The operations one worker of a phase executes (integer division).
NumOps(ph) == (IF ph = "load" THEN RecordCount ELSE OperationCount) \div cmd.threads

\* Mutant of Joinable: a thread whose function returned needs no join.
JoinableWhileRunning(s) == stat[s] \notin {"none", "joined", "ended"}

\* A std::thread object that was started and not joined.
Joinable(s) == stat[s] \notin {"none", "joined"}

(***************************************************************************)
(* exit(0), or returning from main, destroys the global std::thread        *)
(* objects: a joinable one calls std::terminate.                           *)
(***************************************************************************)
ExitStatus(clean) == IF \E s \in Threads : Joinable(s) THEN "aborted" ELSE clean

TypeOK ==
  /\ cmd \in Commands
  /\ proc \in Ended \cup {"running"}
  /\ pc \in {"create", "init", "launch", "join", "stats", "finish", "compaction",
             "done", "join_my", "join_rocks", "delete", "return", "end"}
  /\ phase \in {"none", "load", "run"}
  /\ futures \in 0..MaxThreads
  /\ joined \in 0..futures
  /\ sum \in Nat
  /\ db \in {"none", "open", "wild", "deleted"}
  /\ wl \in BOOLEAN
  /\ worker \in [Workers -> [pc : {"none", "init", "loop", "returned", "exit"},
                             i : Nat, oks : Nat]]
  /\ stat \in [Threads -> {"none", "start", "sleep", "check", "announce", "clear",
                           "report", "summary", "ended", "joined"}]
  /\ finish \in BOOLEAN
  /\ done \in BOOLEAN
  /\ announced \in Nat
  /\ lives \in 1..MaxLives

Init ==
  /\ cmd \in Commands
  /\ proc = "running"
  /\ pc = "create"
  /\ phase = "none"
  /\ futures = 0
  /\ joined = 0
  /\ sum = 0
  /\ db = "none"
  /\ wl = FALSE
  /\ worker = [k \in Workers |-> FreshWorker]
  /\ stat = [s \in Threads |-> "none"]
  /\ finish = FALSE
  /\ done = FALSE
  /\ announced = 0
  /\ lives = 1

-----------------------------------------------------------------------------
(* main *)

\* The process is over: proc says how, and nothing of it moves any more.
End(how) ==
  /\ proc' = how
  /\ UNCHANGED <<cmd, pc, phase, futures, joined, sum, db, wl, worker, stat,
                 finish, done, announced, lives>>

\* `if (load) {...} if (run) {...}`: the block after the one for ph.
NextPhase(ph) ==
  IF ph = "none" /\ cmd.load THEN "load"
  ELSE IF ph # "run" /\ cmd.run THEN "run"
  ELSE "none"

\* Go on to the next phase's block, or past both.
Advance ==
  IF NextPhase(phase) = "none"
  THEN pc' = "stats" /\ UNCHANGED phase
  ELSE pc' = "init" /\ phase' = NextPhase(phase)

(***************************************************************************)
(* DBFactory::CreateDB.  The RocksDBCloud constructor leaves the process   *)
(* when a histogram or an output file cannot be had; when the cloud file   *)
(* system or the DB cannot be opened it only prints, and goes on with an   *)
(* uninitialised pointer ("wild").  Either way it starts both statistics   *)
(* threads last.                                                           *)
(***************************************************************************)
OpenDB(how) ==
  /\ db' = how
  /\ Advance
  /\ UNCHANGED <<cmd, proc, futures, joined, sum, wl, worker, finish, done,
                 announced, lives>>

CreateBasic ==
  /\ At("create") /\ cmd.dbname = "basic"
  /\ OpenDB("open")
  /\ UNCHANGED stat

CreateCloud ==
  /\ At("create") /\ cmd.dbname = "rocksdb-cloud"
  /\ \E how \in {"open", "wild"} : OpenDB(how)
  /\ stat' = [s \in Threads |-> "start"]

CreateCloudExit ==
  /\ At("create") /\ cmd.dbname = "rocksdb-cloud"
  /\ End(ExitStatus("exited"))

\* NULL from the factory: "Unknown database name", exit(0).
CreateUnknown ==
  /\ At("create") /\ cmd.dbname = "rocksdb"
  /\ End(ExitStatus("exited"))

\* A local CoreWorkload and its Init; an exception is caught nowhere.
InitWorkload ==
  /\ At("init") /\ cmd.valid
  /\ wl' = TRUE
  /\ futures' = 0 /\ joined' = 0
  /\ worker' = [k \in Workers |-> FreshWorker]
  /\ pc' = "launch"
  /\ UNCHANGED <<cmd, proc, phase, sum, db, stat, finish, done, announced, lives>>

InitThrows ==
  /\ At("init") /\ ~cmd.valid
  /\ End("aborted")

\* Mutant of LaunchWorker: i <= num_threads.
LaunchOneTooMany ==
  /\ At("launch") /\ futures <= cmd.threads
  /\ worker' = [k \in Workers |-> IF k = futures THEN [worker[k] EXCEPT !.pc = "init"] ELSE worker[k]]
  /\ futures' = futures + 1
  /\ UNCHANGED <<cmd, proc, pc, phase, joined, sum, db, wl, stat, finish, done,
                 announced, lives>>

\* async(launch::async, DelegateClient, db, &wl, total_ops / num_threads, ..., i)
LaunchWorker ==
  /\ At("launch") /\ futures < cmd.threads
  /\ worker' = [worker EXCEPT ![futures].pc = "init"]
  /\ futures' = futures + 1
  /\ UNCHANGED <<cmd, proc, pc, phase, joined, sum, db, wl, stat, finish, done,
                 announced, lives>>

\* No thread can be had: std::system_error, caught nowhere.
LaunchThrows ==
  /\ At("launch") /\ futures < cmd.threads
  /\ End("aborted")

\* Mutant of EndLaunch: the run phase does not set sum to 0.
EndLaunchKeepsSum ==
  /\ At("launch") /\ futures = cmd.threads
  /\ pc' = "join"
  /\ UNCHANGED <<cmd, proc, phase, futures, joined, sum, db, wl, worker, stat,
                 finish, done, announced, lives>>

\* Every future is there: assert((int)actual_ops.size() == num_threads); sum = 0.
EndLaunch ==
  /\ At("launch") /\ futures = cmd.threads
  /\ sum' = 0
  /\ pc' = "join"
  /\ UNCHANGED <<cmd, proc, phase, futures, joined, db, wl, worker, stat, finish,
                 done, announced, lives>>

\* sum += n.get(): the futures in the order of their launch, each blocking.
JoinWorker ==
  /\ At("join") /\ joined < futures
  /\ worker[joined].pc = "returned"
  /\ sum' = sum + worker[joined].oks
  /\ joined' = joined + 1
  /\ UNCHANGED <<cmd, proc, pc, phase, futures, db, wl, worker, stat, finish,
                 done, announced, lives>>

\* Mutant of EndPhase: the block ends without waiting for the last future.
EndPhaseEarly ==
  /\ At("join") /\ joined + 1 >= futures
  /\ wl' = FALSE
  /\ Advance
  /\ UNCHANGED <<cmd, proc, futures, joined, sum, db, worker, stat, finish, done,
                 announced, lives>>

\* The result lines, and the end of the block: the CoreWorkload is destroyed.
EndPhase ==
  /\ At("join") /\ joined = futures
  /\ wl' = FALSE
  /\ Advance
  /\ UNCHANGED <<cmd, proc, futures, joined, sum, db, worker, stat, finish, done,
                 announced, lives>>

\* db->PrintStats(), twice with dbwaitforbalance (every DB says it is balanced).
PrintStats ==
  /\ At("stats")
  /\ pc' = "finish"
  /\ UNCHANGED <<cmd, proc, phase, futures, joined, sum, db, wl, worker, stat,
                 finish, done, announced, lives>>

\* Mutant of SetFinish: it stands below the waiting loop of a load.
SetFinishAfterWait ==
  /\ At("finish")
  /\ finish' = ~cmd.load
  /\ pc' = IF cmd.load THEN "compaction" ELSE "done"
  /\ UNCHANGED <<cmd, proc, phase, futures, joined, sum, db, wl, worker, stat,
                 done, announced, lives>>

\* ycsbc::finish = true
SetFinish ==
  /\ At("finish")
  /\ finish' = TRUE
  /\ pc' = IF cmd.load THEN "compaction" ELSE "done"
  /\ UNCHANGED <<cmd, proc, phase, futures, joined, sum, db, wl, worker, stat,
                 done, announced, lives>>

\* while (true) { sleep(60); printf("waiting compaction\n"); }
WaitCompaction ==
  /\ At("compaction")
  /\ UNCHANGED vars

\* Mutant of SetDone: main joins without telling the threads to stop.
SetDoneForgotten ==
  /\ At("done")
  /\ pc' = "join_my"
  /\ UNCHANGED <<cmd, proc, phase, futures, joined, sum, db, wl, worker, stat,
                 finish, done, announced, lives>>

\* ycsbc::done = true
SetDone ==
  /\ At("done")
  /\ done' = TRUE
  /\ pc' = "join_my"
  /\ UNCHANGED <<cmd, proc, phase, futures, joined, sum, db, wl, worker, stat,
                 finish, announced, lives>>

\* my_stat_thr.join(); rocksdb_stat_thr.join()
JoinStat(s, here, next) ==
  /\ At(here)
  /\ stat[s] = "ended"
  /\ stat' = [stat EXCEPT ![s] = "joined"]
  /\ pc' = next
  /\ UNCHANGED <<cmd, proc, phase, futures, joined, sum, db, wl, worker, finish,
                 done, announced, lives>>

JoinMy    == JoinStat("my", "join_my", "join_rocks")
JoinRocks == JoinStat("rocks", "join_rocks", "delete")

\* Only RocksDBCloud starts the threads: joining one that never was started
\* throws std::system_error, caught nowhere.
JoinThrows ==
  /\ At("join_my") /\ ~Joinable("my")
  /\ End("aborted")

\* delete db
DeleteDB ==
  /\ At("delete")
  /\ db' = "deleted"
  /\ pc' = "return"
  /\ UNCHANGED <<cmd, proc, phase, futures, joined, sum, wl, worker, stat, finish,
                 done, announced, lives>>

Return ==
  /\ At("return")
  /\ proc' = ExitStatus("returned")
  /\ pc' = "end"
  /\ UNCHANGED <<cmd, phase, futures, joined, sum, db, wl, worker, stat, finish,
                 done, announced, lives>>

MainNext ==
  \/ CreateBasic \/ CreateCloud \/ CreateCloudExit \/ CreateUnknown
  \/ InitWorkload \/ InitThrows
  \/ LaunchWorker \/ LaunchThrows \/ EndLaunch \/ JoinWorker \/ EndPhase
  \/ PrintStats \/ SetFinish \/ WaitCompaction \/ SetDone
  \/ JoinMy \/ JoinRocks \/ JoinThrows \/ DeleteDB \/ Return

-----------------------------------------------------------------------------
(* DelegateClient, on worker k *)

WorkerGoes(k, w) ==
  /\ worker' = [worker EXCEPT ![k] = w]
  /\ UNCHANGED <<cmd, proc, pc, phase, futures, joined, sum, db, wl, stat,
                 finish, done, announced, lives>>

WorkerAt(k, label) == Running /\ worker[k].pc = label
InLoop(k) == WorkerAt(k, "loop") /\ worker[k].i < NumOps(phase)

\* db->Init(), Client client(*db, *wl)
WorkerInit(k) ==
  /\ WorkerAt(k, "init")
  /\ WorkerGoes(k, [worker[k] EXCEPT !.pc = "loop"])

\* oks += client.DoInsert() or client.DoTransaction(): both DBs either return
\* kOK or do not return.
WorkerOp(k) ==
  /\ InLoop(k)
  /\ WorkerGoes(k, [worker[k] EXCEPT !.i = @ + 1, !.oks = @ + 1])

\* A RocksDB status other than ok and NotFound: the operation calls exit(0).
WorkerFails(k) ==
  /\ InLoop(k)
  /\ cmd.dbname = "rocksdb-cloud"
  /\ WorkerGoes(k, [worker[k] EXCEPT !.pc = "exit"])

\* db->Close(), return oks
WorkerReturn(k) ==
  /\ WorkerAt(k, "loop") /\ worker[k].i >= NumOps(phase)
  /\ WorkerGoes(k, [worker[k] EXCEPT !.pc = "returned"])

\* The rest of exit(0): until it ends the process the other threads go on.
ExitProcess(k) ==
  /\ WorkerAt(k, "exit")
  /\ End(ExitStatus("exited"))

WorkerNext(k) ==
  WorkerInit(k) \/ WorkerOp(k) \/ WorkerFails(k) \/ WorkerReturn(k) \/ ExitProcess(k)

-----------------------------------------------------------------------------
(* print_my_status and printRocksDBStats *)

StatGoes(s, from, to) ==
  /\ Running /\ stat[s] = from
  /\ stat' = [stat EXCEPT ![s] = to]
  /\ UNCHANGED <<cmd, proc, pc, phase, futures, joined, sum, db, wl, worker,
                 done, lives>>

\* The output file is opened; without it the thread ends at once.
StatOpen(s) ==
  /\ StatGoes(s, "start", "sleep") \/ StatGoes(s, "start", "ended")
  /\ UNCHANGED <<finish, announced>>

\* After one second: the summary once done is set, else another report.
MyWake ==
  /\ StatGoes("my", "sleep", IF done THEN "summary" ELSE "report")
  /\ UNCHANGED <<finish, announced>>

MySummary ==
  /\ StatGoes("my", "summary", "ended")
  /\ UNCHANGED <<finish, announced>>

\* db->GetProperty and the tickers of db->GetOptions().
StatReport(s) ==
  /\ StatGoes(s, "report", "sleep")
  /\ UNCHANGED <<finish, announced>>

\* net_stats2.at(iface): an interface that went away throws, caught nowhere.
MyReportThrows ==
  /\ Running /\ stat["my"] = "report"
  /\ End("aborted")

\* After ten seconds.
RocksWake ==
  /\ StatGoes("rocks", "sleep", IF done THEN "ended" ELSE "check")
  /\ UNCHANGED <<finish, announced>>

RocksCheck ==
  /\ StatGoes("rocks", "check", IF finish THEN "announce" ELSE "report")
  /\ UNCHANGED <<finish, announced>>

RocksAnnounce ==
  /\ StatGoes("rocks", "announce", "clear")
  /\ announced' = announced + 1
  /\ UNCHANGED finish

\* Mutant of RocksClear: finish stays set.
RocksKeepsFinish ==
  /\ StatGoes("rocks", "clear", "report")
  /\ UNCHANGED <<finish, announced>>

\* finish = false
RocksClear ==
  /\ StatGoes("rocks", "clear", "report")
  /\ finish' = FALSE
  /\ UNCHANGED announced

MyNext    == StatOpen("my") \/ MyWake \/ MySummary \/ StatReport("my") \/ MyReportThrows
RocksNext == \/ StatOpen("rocks") \/ RocksWake \/ RocksCheck \/ RocksAnnounce
             \/ RocksClear \/ StatReport("rocks")

-----------------------------------------------------------------------------
(* Outside the program's control *)

(***************************************************************************)
(* The threads that are about to call through the DB object's db_ pointer. *)
(***************************************************************************)
WorkerUsesDB(k) == worker[k].pc \in {"init", "loop"}
StatUsesDB(s)   == stat[s] \in {"report", "summary"}
MainUsesDB      == pc \in {"stats", "delete"}

\* A call through the uninitialised pointer faults, if it does not go through.
WildCall ==
  /\ Running /\ db = "wild"
  /\ MainUsesDB \/ (\E k \in Workers : InLoop(k)) \/ (\E s \in Threads : StatUsesDB(s))
  /\ End("aborted")

\* A signal: the only way out of a load.
Kill ==
  /\ Running
  /\ End("killed")

\* The next command line of the script.
Restart ==
  /\ proc \in Ended /\ lives < MaxLives
  /\ lives' = lives + 1
  /\ cmd' \in Commands
  /\ proc' = "running"
  /\ pc' = "create"
  /\ phase' = "none"
  /\ futures' = 0 /\ joined' = 0 /\ sum' = 0
  /\ db' = "none" /\ wl' = FALSE
  /\ worker' = [k \in Workers |-> FreshWorker]
  /\ stat' = [s \in Threads |-> "none"]
  /\ finish' = FALSE /\ done' = FALSE
  /\ announced' = 0

\* The bound on the number of processes is reached.
Over ==
  /\ proc \in Ended /\ lives >= MaxLives
  /\ UNCHANGED vars

Next ==
  \/ MainNext
  \/ \E k \in Workers : WorkerNext(k)
  \/ MyNext \/ RocksNext
  \/ WildCall \/ Kill \/ Restart \/ Over

(***************************************************************************)
(* Each thread of a live process is scheduled: main, every worker and both *)
(* statistics threads take a step when they can.  Signals, and the script  *)
(* starting another process, may or may not happen.                        *)
(***************************************************************************)
Fairness ==
  /\ WF_vars(MainNext)
  /\ \A k \in Workers : WF_vars(WorkerNext(k))
  /\ WF_vars(MyNext) /\ WF_vars(RocksNext)

Spec     == Init /\ [][Next]_vars
FairSpec == Spec /\ Fairness

-----------------------------------------------------------------------------
(* Properties *)

(***************************************************************************)
(* The DB object and the phase's CoreWorkload, which the threads hold raw  *)
(* pointers to, outlive every thread that may still call through them: no  *)
(* worker is past its start or inside its loop without both, and no        *)
(* statistics thread is about to report on a DB that is not there          *)
(* (ycsbc.cc, lines 104-189).                                              *)
(***************************************************************************)
ObjectsOutliveTheirUsers ==
  /\ db \in {"none", "deleted"} =>
       /\ \A k \in Workers : ~WorkerUsesDB(k)
       /\ \A s \in Threads : ~StatUsesDB(s)
  /\ ~wl => \A k \in Workers : ~WorkerUsesDB(k)

\* The phase's property that says how many operations to do.
Total(ph) == IF ph = "load" THEN RecordCount ELSE OperationCount

(***************************************************************************)
(* The number on a phase's result line is exactly the operations its       *)
(* workers executed, and falls short of the total the user asked for by    *)
(* less than one operation per thread: nothing of the load phase is left   *)
(* in the run phase's sum.                                                 *)
(***************************************************************************)
ReportedSum ==
  (phase # "none" /\ pc \notin {"init", "launch", "join"}) =>
     /\ sum = cmd.threads * NumOps(phase)
     /\ Total(phase) - sum \in 0..(cmd.threads - 1)

\* No worker of the process is still executing operations.
WorkDone == \A k \in Workers : worker[k].pc \in {"none", "returned"}

(***************************************************************************)
(* What the statistics threads say last is true: "write finished" is       *)
(* printed at most once, and it and the summary of print_my_status appear  *)
(* only after every worker of the last phase has returned.                 *)
(***************************************************************************)
FinishLineTruthful ==
  /\ announced <= 1
  /\ announced > 0 \/ stat["my"] = "summary" => WorkDone /\ ~wl

(***************************************************************************)
(* The exit(0) of a failed operation never ends the process with status 0: *)
(* the process exits cleanly only before it has a DB, because afterwards   *)
(* the statistics threads are joinable and their destructors abort it.     *)
(***************************************************************************)
CleanExitOnlyBeforeOpen == proc = "exited" => db = "none"

(***************************************************************************)
(* A process that does not load ends: main is never left waiting for a     *)
(* worker or for a statistics thread.                                      *)
(***************************************************************************)
EndsUnlessLoading == (Running /\ ~cmd.load) ~> proc \in Ended

(***************************************************************************)
(* A load over rocksdb-cloud gets its "write finished" line, unless the    *)
(* process ends first or the line's log file could not be opened.          *)
(***************************************************************************)
FinishAnnounced ==
  (Running /\ cmd.load /\ cmd.dbname = "rocksdb-cloud")
    ~> (announced > 0 \/ proc \in Ended \/ stat["rocks"] = "ended")

(***************************************************************************)
(* The usage message offers the basic DB, and makes it the default: main   *)
(* joins only threads that were started.  (With basic it joins two that    *)
(* never were.)                                                            *)
(***************************************************************************)
JoinsStartedThreads == At("join_my") => Joinable("my")

=============================================================================
